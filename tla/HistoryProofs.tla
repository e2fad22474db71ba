--------------------------- MODULE HistoryProofs ----------------------------
(***************************************************************************)
(* Proofs about History for chats of every length, every budget and every  *)
(* size of messages and summaries.                                         *)
(***************************************************************************)
EXTENDS History, ConversationProofs, FoldLemmas

-----------------------------------------------------------------------------
(* Positions without a gap *)

LEMMA EndsOfInterval ==
  ASSUME NEW a \in Nat, NEW b \in Nat, a <= b
  PROVE  Min(a..b) = a /\ Max(a..b) = b
<1>1. IsFiniteSet(a..b)
  BY FS_Interval
<1>2. a..b \subseteq Int /\ a \in a..b /\ b \in a..b
  OBVIOUS
<1>3. Min(a..b) \in a..b /\ Min(a..b) <= a
  BY <1>1, <1>2, MinInSet
<1>4. Max(a..b) \in a..b /\ Max(a..b) >= b
  BY <1>1, <1>2, MaxInSet
<1> QED
  BY <1>3, <1>4

LEMMA IntervalInOrder ==
  ASSUME NEW a \in Nat, NEW b \in Nat, a <= b + 1
  PROVE  /\ IsFiniteSet(a..b) /\ Cardinality(a..b) = b - a + 1
         /\ Ascending(a..b) = [k \in 1..(b - a + 1) |-> a + k - 1]
         /\ Descending(a..b) = [k \in 1..(b - a + 1) |-> b - k + 1]
         /\ Ascending(a..b) \in Seq(Nat) /\ Descending(a..b) \in Seq(Nat)
         /\ ToSet(Ascending(a..b)) = a..b /\ ToSet(Descending(a..b)) = a..b
<1>1. IsFiniteSet(a..b) /\ Cardinality(a..b) = b - a + 1
  BY FS_Interval
<1>2. CASE a > b
  <2>1. 1..(b - a + 1) = {} /\ a..b = {}
    BY <1>2
  <2>2. Ascending(a..b) = << >> /\ Descending(a..b) = << >>
    BY <1>1, <2>1 DEF Ascending, Descending
  <2>3. [k \in 1..(b - a + 1) |-> a + k - 1] = << >> /\ [k \in 1..(b - a + 1) |-> b - k + 1] = << >>
    BY <2>1
  <2>4. ToSet(<< >>) = {} /\ << >> \in Seq(Nat)
    BY DEF ToSet
  <2>5. /\ Ascending(a..b) \in Seq(Nat) /\ Descending(a..b) \in Seq(Nat)
        /\ ToSet(Ascending(a..b)) = a..b /\ ToSet(Descending(a..b)) = a..b
    BY <2>1, <2>2, <2>4
  <2> HIDE DEF ToSet
  <2> QED
    BY <1>1, <2>2, <2>3, <2>5
<1>3. CASE a <= b
  <2>1. Min(a..b) = a /\ Max(a..b) = b
    BY <1>3, EndsOfInterval
  <2>2. /\ Ascending(a..b) = [k \in 1..(b - a + 1) |-> a + k - 1]
        /\ Descending(a..b) = [k \in 1..(b - a + 1) |-> b - k + 1]
    BY <1>1, <2>1 DEF Ascending, Descending
  <2>3. [k \in 1..(b - a + 1) |-> a + k - 1] \in Seq(Nat) /\ [k \in 1..(b - a + 1) |-> b - k + 1] \in Seq(Nat)
    <3>1. b - a + 1 \in Nat
      BY <1>3
    <3>2. \A k \in 1..(b - a + 1) : a + k - 1 \in Nat /\ b - k + 1 \in Nat
      OBVIOUS
    <3> QED
      BY <3>1, <3>2
  <2>4. ASSUME NEW x \in a..b
        PROVE  x - a + 1 \in 1..(b - a + 1) /\ b - x + 1 \in 1..(b - a + 1)
               /\ a + (x - a + 1) - 1 = x /\ b - (b - x + 1) + 1 = x
    OBVIOUS
  <2>5. ToSet([k \in 1..(b - a + 1) |-> a + k - 1]) = a..b
    BY <2>4 DEF ToSet
  <2>6. ToSet([k \in 1..(b - a + 1) |-> b - k + 1]) = a..b
    BY <2>4 DEF ToSet
  <2> QED
    BY <1>1, <2>2, <2>3, <2>5, <2>6
<1> QED
  BY <1>2, <1>3

\* The messages before the recent ones, and the recent ones.
LastOlder(n) == IF n > Kept THEN n - Kept ELSE 0

LEMMA WindowShape ==
  ASSUME NEW n \in Nat
  PROVE  /\ LastOlder(n) \in Nat /\ LastOlder(n) <= n
         /\ Older(n) = 1..LastOlder(n)
         /\ Recent(n) = (LastOlder(n) + 1)..n
BY CountAssumption DEF LastOlder, Older, Recent

-----------------------------------------------------------------------------
(* Sizes *)

LEMMA SizesTyped ==
  ASSUME TypeOK, NEW n \in Nat, n <= Len(messages)
  PROVE  /\ \A i \in 1..n : Size[i] \in Nat
         /\ \A S \in SUBSET (1..n) : IsFiniteSet(S) /\ SizeOf(S) \in Nat
<1>1. ASSUME NEW i \in 1..n PROVE Size[i] \in Nat
  <2>1. i \in DOMAIN messages /\ messages[i] \in Question \cup Answer
    BY DEF TypeOK
  <2>2. messages[i].role \in {"user", "assistant"}
    BY <2>1 DEF Question, Answer
  <2> QED
    BY <2>1, <2>2, TokenAssumption DEF Size
<1>2. ASSUME NEW S \in SUBSET (1..n) PROVE IsFiniteSet(S) /\ SizeOf(S) \in Nat
  <2>1. IsFiniteSet(1..n)
    BY FS_Interval
  <2>2. IsFiniteSet(S)
    BY <2>1, FS_Subset
  <2> QED
    BY <1>1, <2>2, SumType DEF SizeOf
<1> QED
  BY <1>1, <1>2

LEMMA SizesAdd ==
  ASSUME TypeOK, NEW n \in Nat, n <= Len(messages),
         NEW S \in SUBSET (1..n), NEW T \in SUBSET (1..n), S \cap T = {}
  PROVE  SizeOf(S \cup T) = SizeOf(S) + SizeOf(T)
<1>1. IsFiniteSet(S) /\ IsFiniteSet(T) /\ \A x \in S \cup T : Size[x] \in Nat
  BY SizesTyped
<1> QED
  BY <1>1, SumUnion DEF SizeOf

LEMMA SizesGrow ==
  ASSUME TypeOK, NEW n \in Nat, n <= Len(messages),
         NEW T \in SUBSET (1..n), NEW S \in SUBSET T
  PROVE  SizeOf(S) <= SizeOf(T)
<1>1. IsFiniteSet(T) /\ \A x \in T : Size[x] \in Nat
  BY SizesTyped
<1> QED
  BY <1>1, SumMonotone DEF SizeOf

\* The older messages that fit are the latest ones, and together they fit.
LEMMA FittingShape ==
  ASSUME TypeOK, NEW n \in Nat, n <= Len(messages), NEW room \in Int
  PROVE  \E m \in 1..(LastOlder(n) + 1) :
           /\ Fitting(n, room) = m..LastOlder(n)
           /\ m <= LastOlder(n) => SizeOf(m..LastOlder(n)) <= room
<1> DEFINE k == LastOlder(n)
           F == Fitting(n, room)
           From(i) == {j \in Older(n) : j >= i}
<1>1. k \in Nat /\ k <= n /\ Older(n) = 1..k
  BY WindowShape
<1>2. F = {i \in 1..k : SizeOf(From(i)) <= room} /\ \A i \in 1..k : From(i) = i..k
  BY <1>1 DEF Fitting
<1>3. ASSUME NEW i \in F, NEW j \in i..k PROVE j \in F
  <2>1. i \in 1..k /\ j \in 1..k /\ SizeOf(i..k) <= room
    BY <1>1, <1>2
  <2>2. i..k \in SUBSET (1..n) /\ j..k \in SUBSET (i..k)
    BY <1>1, <2>1
  <2>3. SizeOf(j..k) <= SizeOf(i..k) /\ SizeOf(i..k) \in Nat /\ SizeOf(j..k) \in Nat
    BY <2>2, SizesGrow, SizesTyped
  <2>4. SizeOf(j..k) <= room
    BY <2>1, <2>3
  <2> QED
    BY <1>2, <2>1, <2>4
<1>4. CASE F = {}
  <2>1. F = (k + 1)..k /\ k + 1 \in 1..(k + 1) /\ ~(k + 1 <= k)
    BY <1>1, <1>4
  <2> QED
    BY <2>1
<1>5. CASE F # {}
  <2>1. F \subseteq 1..k /\ IsFiniteSet(1..k)
    BY <1>1, <1>2, FS_Interval
  <2>2. IsFiniteSet(F) /\ F \subseteq Int
    <3> HIDE DEF F, k
    <3>1. IsFiniteSet(F)
      BY <2>1, FS_Subset
    <3> QED
      BY <2>1, <3>1
  <2> DEFINE m == Min(F)
  <2>3. m \in F /\ \A y \in F : m <= y
    BY <1>5, <2>2, MinInSet
  <2>4. F = m..k
    <3> HIDE DEF F, k, m
    <3>1. \A j \in m..k : j \in F
      BY <1>3, <2>3
    <3>2. \A y \in F : y \in m..k
      BY <1>1, <2>1, <2>3
    <3> QED
      BY <3>1, <3>2
  <2>5. SizeOf(m..k) <= room
    BY <1>2, <2>1, <2>3
  <2>6. m \in 1..(k + 1)
    BY <1>1, <2>1, <2>3
  <2> HIDE DEF m, F
  <2> QED
    BY <2>4, <2>5, <2>6 DEF F
<1> QED
  BY <1>4, <1>5

-----------------------------------------------------------------------------
(* Inserting the older messages *)

LEMMA ElementsOf ==
  ASSUME NEW q \in Seq(Nat)
  PROVE  /\ \A y \in 1..Len(q) : q[y] \in ToSet(q)
         /\ \A e \in ToSet(q) : \E y \in 1..Len(q) : q[y] = e
BY DEF ToSet

LEMMA Joined ==
  ASSUME NEW c \in Seq(Nat), NEW b \in Seq(Nat)
  PROVE  /\ c \o b \in Seq(Nat)
         /\ Len(c \o b) = Len(c) + Len(b)
         /\ \A x \in 1..Len(c) : (c \o b)[x] = c[x]
         /\ \A x \in (Len(c) + 1)..(Len(c) + Len(b)) : (c \o b)[x] = b[x - Len(c)]
OBVIOUS

LEMMA InsertOlderShape ==
  ASSUME NEW r \in Seq(Nat), NEW i \in Nat
  PROVE  /\ InsertOlder(r, i) \in Seq(Nat)
         /\ Len(InsertOlder(r, i)) = Len(r) + 1
         /\ ToSet(InsertOlder(r, i)) = ToSet(r) \cup {i}
<1> DEFINE before == IF r # << >> /\ Head(r) = Summary THEN 1 ELSE 0
           p == Len(r) + 1 - before
           a == SubSeq(r, 1, p - 1)
           b == SubSeq(r, p, Len(r))
           q == a \o <<i>> \o b
<1>1. InsertOlder(r, i) = q
  BY DEF InsertOlder, InsertAt
<1>2. Len(r) \in Nat /\ p \in 1..(Len(r) + 1)
  <2>1. r # << >> => Len(r) # 0
    OBVIOUS
  <2> QED
    BY <2>1
<1> HIDE DEF p
<1>3. a \in Seq(Nat) /\ Len(a) = p - 1 /\ \A x \in 1..(p - 1) : a[x] = r[x]
  BY <1>2
<1>4. b \in Seq(Nat) /\ Len(b) = Len(r) - p + 1 /\ \A x \in 1..(Len(r) - p + 1) : b[x] = r[p + x - 1]
  BY <1>2
<1> HIDE DEF a, b
<1> DEFINE c == a \o <<i>>
<1>10. /\ c \in Seq(Nat) /\ Len(c) = p
       /\ \A x \in 1..(p - 1) : c[x] = r[x]
       /\ c[p] = i
  BY <1>2, <1>3
<1> HIDE DEF c
<1>5. q \in Seq(Nat) /\ Len(q) = Len(r) + 1
  <2>1. c \o b \in Seq(Nat) /\ Len(c \o b) = Len(c) + Len(b)
    BY <1>4, <1>10, Joined
  <2>2. Len(c) + Len(b) = Len(r) + 1
    BY <1>2, <1>4, <1>10
  <2> QED
    BY <2>1, <2>2 DEF c
<1>6. /\ \A x \in 1..(p - 1) : q[x] = r[x]
      /\ q[p] = i
      /\ \A x \in (p + 1)..(Len(r) + 1) : q[x] = r[x - 1]
  <2> DEFINE d == c \o b
  <2>1. \A x \in 1..p : d[x] = c[x]
    BY <1>4, <1>10, Joined
  <2>2. ASSUME NEW x \in (p + 1)..(Len(r) + 1) PROVE d[x] = r[x - 1]
    <3>1. x - p \in 1..(Len(r) - p + 1) /\ p + (x - p) - 1 = x - 1
      BY <1>2
    <3>2. x \in (Len(c) + 1)..(Len(c) + Len(b)) /\ x - Len(c) = x - p
      BY <1>2, <1>4, <1>10
    <3>3. d[x] = b[x - p]
      BY <1>4, <1>10, <3>2, Joined
    <3> QED
      BY <1>4, <3>1, <3>3
  <2>3. p \in 1..p /\ \A x \in 1..(p - 1) : x \in 1..p
    BY <1>2
  <2>4. q = d
    BY DEF c
  <2> HIDE DEF d, q
  <2> QED
    BY <1>10, <2>1, <2>2, <2>3, <2>4
<1> HIDE DEF q
<1>7. ToSet(q) \subseteq ToSet(r) \cup {i}
  <2> SUFFICES ASSUME NEW x \in 1..(Len(r) + 1) PROVE q[x] \in ToSet(r) \cup {i}
    BY <1>5 DEF ToSet
  <2>1. CASE x < p
    BY <1>2, <1>6, <2>1 DEF ToSet
  <2>2. CASE x = p
    BY <1>6, <2>2
  <2>3. CASE x > p
    <3>1. q[x] = r[x - 1] /\ x - 1 \in 1..Len(r)
      BY <1>2, <1>6, <2>3
    <3> QED
      BY <3>1 DEF ToSet
  <2> QED
    BY <1>2, <2>1, <2>2, <2>3
<1>8. i \in ToSet(q)
  <2>1. p \in 1..Len(q)
    BY <1>2, <1>5
  <2> QED
    BY <1>5, <1>6, <2>1, ElementsOf
<1>9. ToSet(r) \subseteq ToSet(q)
  <2> SUFFICES ASSUME NEW x \in 1..Len(r) PROVE r[x] \in ToSet(q)
    BY DEF ToSet
  <2>1. CASE x < p
    <3>1. q[x] = r[x] /\ x \in 1..Len(q)
      BY <1>2, <1>5, <1>6, <2>1
    <3> QED
      BY <1>5, <3>1 DEF ToSet
  <2>2. CASE x >= p
    <3>1. x + 1 \in (p + 1)..(Len(r) + 1) /\ x + 1 \in 1..Len(q) /\ (x + 1) - 1 = x
      BY <1>2, <1>5, <2>2
    <3>2. q[x + 1] = r[x]
      BY <1>6, <3>1
    <3> QED
      BY <1>5, <3>1, <3>2, ElementsOf
  <2> QED
    BY <1>2, <2>1, <2>2
<1> QED
  BY <1>1, <1>5, <1>7, <1>8, <1>9

\* What the loop over the older messages returns has each of them once.
LEMMA InsertedShape ==
  ASSUME NEW start \in Seq(Nat), NEW seq \in Seq(Nat)
  PROVE  LET h == FoldLeft(InsertOlder, start, seq)
         IN  /\ h \in Seq(Nat)
             /\ Len(h) = Len(start) + Len(seq)
             /\ ToSet(h) = ToSet(start) \cup ToSet(seq)
<1> DEFINE n == Len(seq)
           Eq(g) == g = [s \in SUBSET DOMAIN seq |->
                           IF s = {} THEN start ELSE InsertOlder(g[s \ {Max(s)}], seq[Max(s)])]
           op == [iv \in (1..n) \X Seq(Nat) |-> InsertOlder(iv[2], seq[iv[1]])]
           G == CHOOSE g : Eq(g)
<1>1. n \in Nat /\ DOMAIN seq = 1..n /\ \A i \in 1..n : seq[i] \in Nat
  OBVIOUS
<1>2. \A i \in 1..n, v \in Seq(Nat) :
        op[<<i, v>>] = InsertOlder(v, seq[i]) /\ op[<<i, v>>] \in Seq(Nat)
  BY <1>1, InsertOlderShape
<1>3. PICK g \in [SUBSET (1..n) -> Seq(Nat)] : Walks(g, n, start, op)
  <2> HIDE DEF op, n
  <2> QED
    BY <1>1, <1>2, WalkExists
<1>4. Eq(g)
  <2> HIDE DEF op, n
  <2>1. ASSUME NEW s \in SUBSET (1..n), s # {}
        PROVE  g[s] = InsertOlder(g[s \ {Max(s)}], seq[Max(s)])
    <3>1. Max(s) \in 1..n /\ g[s \ {Max(s)}] \in Seq(Nat)
      BY <1>3, <2>1 DEF Walks
    <3> QED
      BY <1>2, <1>3, <2>1, <3>1 DEF Walks
  <2> QED
    BY <1>1, <1>3, <2>1 DEF Walks
<1>5. Eq(G)
  <2> HIDE DEF Eq
  <2> QED
    BY <1>4
<1>6. FoldLeft(InsertOlder, start, seq) = G[1..n]
  BY <1>1 DEF FoldLeft, MapThenFoldSet
<1> HIDE DEF G, op
<1> DEFINE P == {k \in 0..n : /\ G[1..k] \in Seq(Nat)
                              /\ Len(G[1..k]) = Len(start) + k
                              /\ ToSet(G[1..k]) = ToSet(start) \cup {seq[j] : j \in 1..k}}
<1>7. 0 \in P
  <2>1. 1..0 = {} /\ {} \in SUBSET (1..n)
    OBVIOUS
  <2>2. G[1..0] = start
    BY <1>1, <1>5, <2>1
  <2> QED
    BY <1>1, <2>1, <2>2
<1>8. ASSUME NEW k \in 0..(n - 1), k \in P PROVE k + 1 \in P
  <2>1. Max(1..(k + 1)) = k + 1 /\ (1..(k + 1)) \ {Max(1..(k + 1))} = 1..k
    <3>1. k + 1 \in Nat \ {0} /\ (k + 1) - 1 = k
      OBVIOUS
    <3> QED
      BY <3>1, MaxOfSegment
  <2>2. 1..(k + 1) \in SUBSET (1..n) /\ 1..(k + 1) # {}
    <3> HIDE DEF n
    <3>1. k + 1 \in 1..(k + 1) /\ k + 1 <= n
      BY <1>1
    <3>2. \A x \in 1..(k + 1) : x \in 1..n
      BY <1>1, <3>1
    <3> QED
      BY <3>1, <3>2
  <2>3. G[1..(k + 1)] = InsertOlder(G[1..k], seq[k + 1])
    <3> HIDE DEF n
    <3> QED
      BY <1>1, <1>5, <2>1, <2>2
  <2>4. seq[k + 1] \in Nat /\ k + 1 \in 0..n
    BY <1>1
  <2>5. /\ G[1..(k + 1)] \in Seq(Nat)
        /\ Len(G[1..(k + 1)]) = Len(G[1..k]) + 1
        /\ ToSet(G[1..(k + 1)]) = ToSet(G[1..k]) \cup {seq[k + 1]}
    BY <1>8, <2>3, <2>4, InsertOlderShape
  <2>6. {seq[j] : j \in 1..(k + 1)} = {seq[j] : j \in 1..k} \cup {seq[k + 1]}
    <3>1. 1..(k + 1) = (1..k) \cup {k + 1}
      OBVIOUS
    <3> QED
      BY <3>1
  <2>7. Len(start) \in Nat /\ Len(G[1..(k + 1)]) = Len(start) + (k + 1)
    <3>1. Len(start) \in Nat /\ k \in Nat
      OBVIOUS
    <3>2. Len(G[1..k]) = Len(start) + k
      BY <1>8
    <3>3. Len(G[1..(k + 1)]) = Len(G[1..k]) + 1
      BY <2>5
    <3> HIDE DEF G, n
    <3> QED
      BY <3>1, <3>2, <3>3
  <2>8. ToSet(G[1..(k + 1)]) = ToSet(start) \cup {seq[j] : j \in 1..(k + 1)}
    BY <1>8, <2>5, <2>6
  <2> HIDE DEF n
  <2> QED
    BY <2>4, <2>5, <2>7, <2>8
<1>9. n \in P
  <2> HIDE DEF P, n
  <2>1. 0..n \subseteq P
    BY <1>1, <1>7, <1>8, CountingInduction
  <2> QED
    BY <1>1, <2>1
<1>10. ToSet(seq) = {seq[j] : j \in 1..n}
  BY <1>1 DEF ToSet
<1> QED
  BY <1>6, <1>9, <1>10

-----------------------------------------------------------------------------
(* What a turn sends *)

LEMMA JoinedElements ==
  ASSUME NEW f \in Seq(Nat), NEW r \in Seq(Nat)
  PROVE  ToSet(f \o r) = ToSet(f) \cup ToSet(r)
<1> DEFINE h == f \o r
<1>1. /\ h \in Seq(Nat) /\ Len(h) = Len(f) + Len(r)
      /\ \A x \in 1..Len(f) : h[x] = f[x]
      /\ \A x \in (Len(f) + 1)..(Len(f) + Len(r)) : h[x] = r[x - Len(f)]
  BY Joined
<1> HIDE DEF h
<1>2. ASSUME NEW x \in 1..Len(h) PROVE h[x] \in ToSet(f) \cup ToSet(r)
  <2>1. CASE x <= Len(f)
    <3>1. h[x] = f[x] /\ x \in 1..Len(f)
      BY <1>1, <2>1
    <3> QED
      BY <3>1, ElementsOf
  <2>2. CASE x > Len(f)
    <3>1. h[x] = r[x - Len(f)] /\ x - Len(f) \in 1..Len(r)
      BY <1>1, <2>2
    <3> QED
      BY <3>1, ElementsOf
  <2> QED
    BY <1>1, <2>1, <2>2
<1>3. ASSUME NEW x \in 1..Len(f) PROVE f[x] \in ToSet(h)
  <2>1. x \in 1..Len(h) /\ h[x] = f[x]
    BY <1>1
  <2> QED
    BY <1>1, <2>1, ElementsOf
<1>4. ASSUME NEW x \in 1..Len(r) PROVE r[x] \in ToSet(h)
  <2>1. /\ Len(f) + x \in 1..Len(h) /\ Len(f) + x \in (Len(f) + 1)..(Len(f) + Len(r))
        /\ (Len(f) + x) - Len(f) = x
    BY <1>1
  <2>2. h[Len(f) + x] = r[x]
    BY <1>1, <2>1
  <2> QED
    BY <1>1, <2>1, <2>2, ElementsOf
<1>5. \A e \in ToSet(h) : e \in ToSet(f) \cup ToSet(r)
  BY <1>1, <1>2, ElementsOf
<1>6. \A e \in ToSet(f) \cup ToSet(r) : e \in ToSet(h)
  BY <1>3, <1>4, ElementsOf
<1> QED
  BY <1>5, <1>6 DEF h

LEMMA JoinedSuffix ==
  ASSUME NEW f \in Seq(Nat), NEW r \in Seq(Nat)
  PROVE  IsSuffix(r, f \o r)
<1> DEFINE h == f \o r
           u == Reverse(r)
           v == Reverse(h)
<1>1. /\ h \in Seq(Nat) /\ Len(h) = Len(f) + Len(r)
      /\ \A x \in (Len(f) + 1)..(Len(f) + Len(r)) : h[x] = r[x - Len(f)]
  BY Joined
<1> HIDE DEF h
<1>2. /\ u \in Seq(Nat) /\ Len(u) = Len(r)
      /\ \A x \in 1..Len(r) : u[x] = r[(Len(r) - x) + 1]
  BY DEF Reverse
<1>3. /\ v \in Seq(Nat) /\ Len(v) = Len(h)
      /\ \A x \in 1..Len(h) : v[x] = h[(Len(h) - x) + 1]
  BY <1>1 DEF Reverse
<1> HIDE DEF u, v
<1>4. ASSUME NEW x \in 1..Len(u) PROVE u[x] = v[x]
  <2>1. (Len(h) - x) + 1 \in (Len(f) + 1)..(Len(f) + Len(r))
        /\ ((Len(h) - x) + 1) - Len(f) = (Len(r) - x) + 1
        /\ x \in 1..Len(h) /\ x \in 1..Len(r)
    BY <1>1, <1>2
  <2> QED
    BY <1>1, <1>2, <1>3, <2>1
<1>5. Len(u) <= Len(v) /\ Len(u) \in Nat
  BY <1>1, <1>2, <1>3
<1>6. SubSeq(u, 1, Len(u)) = SubSeq(v, 1, Len(u))
  BY <1>2, <1>3, <1>4, <1>5
<1> QED
  BY <1>5, <1>6 DEF IsSuffix, IsPrefix, u, v, h

\* The whole chat is its older messages and then the recent ones.
LEMMA WholeShape ==
  ASSUME NEW n \in Nat
  PROVE  Ascending(1..n) = Ascending(1..LastOlder(n)) \o Ascending(Recent(n))
<1> DEFINE k == LastOlder(n)
           f == [x \in 1..k |-> x]
           r == [x \in 1..(n - k) |-> k + x]
           h == [x \in 1..n |-> x]
<1>1. k \in Nat /\ k <= n /\ Recent(n) = (k + 1)..n
  BY WindowShape
<1> HIDE DEF k
<1>9. ASSUME NEW a \in Nat, NEW b \in Nat, a <= b + 1
      PROVE  Ascending(a..b) = [x \in 1..(b - a + 1) |-> a + x - 1]
  BY <1>9, IntervalInOrder
<1>10. 1 \in Nat /\ k + 1 \in Nat /\ 1 <= n + 1 /\ 1 <= k + 1 /\ k + 1 <= n + 1
  BY <1>1
<1>2. Ascending(1..n) = [x \in 1..(n - 1 + 1) |-> 1 + x - 1]
  BY <1>9, <1>10
<1>3. Ascending(1..k) = [x \in 1..(k - 1 + 1) |-> 1 + x - 1]
  BY <1>1, <1>9, <1>10
<1>4. Ascending((k + 1)..n) = [x \in 1..(n - (k + 1) + 1) |-> (k + 1) + x - 1]
  BY <1>1, <1>9, <1>10
<1>5. Ascending(1..n) = h /\ Ascending(1..k) = f /\ Ascending(Recent(n)) = r
  <2>1. n - 1 + 1 = n /\ k - 1 + 1 = k /\ n - (k + 1) + 1 = n - k
    BY <1>1
  <2>2. \A x \in Int : 1 + x - 1 = x /\ (k + 1) + x - 1 = k + x
    BY <1>1
  <2> QED
    BY <1>1, <1>2, <1>3, <1>4, <2>1, <2>2
<1>6. f \in Seq(Nat) /\ Len(f) = k /\ r \in Seq(Nat) /\ Len(r) = n - k /\ h \in Seq(Nat) /\ Len(h) = n
  BY <1>1
<1>7. ASSUME NEW x \in 1..n PROVE h[x] = (f \o r)[x]
  BY <1>1
<1>8. h = f \o r
  BY <1>1, <1>6, <1>7
<1> QED
  BY <1>5, <1>8 DEF k

\* What is sent: the messages from m on, perhaps after the summary, within the budget
\* unless they are the recent ones alone.
LEMMA TrimmedShape ==
  ASSUME TypeOK, NEW n \in Nat, n <= Len(messages)
  PROVE  \E m \in 1..(LastOlder(n) + 1), s \in BOOLEAN :
           /\ IsSuffix(Ascending(Recent(n)), Trimmed(n))
           /\ Len(Trimmed(n)) = (IF s THEN 1 ELSE 0) + (n - m + 1)
           /\ ToSet(Trimmed(n)) = (IF s THEN {Summary} ELSE {}) \cup m..n
           /\ \/ SizeOf(m..n) + (IF s THEN SummaryTokens ELSE 0) <= HistoryBudget
              \/ m = LastOlder(n) + 1
<1> DEFINE k == LastOlder(n)
           r == Ascending(Recent(n))
<1>1. k \in Nat /\ k <= n /\ Recent(n) = (k + 1)..n
  BY WindowShape
<1> HIDE DEF k
<1>2. r \in Seq(Nat) /\ Len(r) = n - k /\ ToSet(r) = (k + 1)..n
  <2> DEFINE a == k + 1
  <2>3. a \in Nat /\ a <= n + 1
    BY <1>1
  <2> HIDE DEF a
  <2>4. /\ Ascending(a..n) = [x \in 1..(n - a + 1) |-> a + x - 1]
        /\ Ascending(a..n) \in Seq(Nat) /\ ToSet(Ascending(a..n)) = a..n
    BY <2>3, IntervalInOrder
  <2>1. /\ r = [x \in 1..(n - (k + 1) + 1) |-> (k + 1) + x - 1]
        /\ r \in Seq(Nat) /\ ToSet(r) = (k + 1)..n
    BY <1>1, <2>4 DEF a
  <2>2. n - (k + 1) + 1 = n - k /\ n - k \in Nat
    BY <1>1
  <2> QED
    BY <2>1, <2>2
<1> HIDE DEF r
<1>3. CASE SizeOf(1..n) <= HistoryBudget
  <2> DEFINE f == Ascending(1..k)
  <2>1. Trimmed(n) = f \o r
    BY <1>3, WholeShape DEF Trimmed, r, k
  <2>6. 1 \in Nat /\ 1 <= k + 1
    BY <1>1
  <2>2. f = [x \in 1..(k - 1 + 1) |-> 1 + x - 1] /\ f \in Seq(Nat) /\ ToSet(f) = 1..k
    BY <1>1, <2>6, IntervalInOrder
  <2>3. Len(f) = k
    BY <1>1, <2>2
  <2> HIDE DEF f
  <2>4. Len(f \o r) = n /\ ToSet(f \o r) = 1..n /\ IsSuffix(r, f \o r)
    <3>1. Len(f \o r) = k + (n - k) /\ ToSet(f \o r) = (1..k) \cup ((k + 1)..n) /\ IsSuffix(r, f \o r)
      BY <1>2, <2>2, <2>3, Joined, JoinedElements, JoinedSuffix
    <3>2. k + (n - k) = n /\ (1..k) \cup ((k + 1)..n) = 1..n
      BY <1>1
    <3> QED
      BY <3>1, <3>2
  <2>5. 1 \in 1..(k + 1) /\ FALSE \in BOOLEAN /\ SizeOf(1..n) + 0 <= HistoryBudget /\ n = 0 + (n - 1 + 1)
        /\ 1..n = {} \cup 1..n
    <3>1. SizeOf(1..n) \in Nat
      BY SizesTyped
    <3> QED
      BY <1>1, <1>3, <3>1
  <2> QED
    BY <2>1, <2>4, <2>5 DEF r, k
<1>4. CASE ~(SizeOf(1..n) <= HistoryBudget)
  <2> DEFINE s == Summarised(n)
             extra == IF s THEN SummaryTokens ELSE 0
             room == RoomFor(n) - extra
             start == IF s THEN <<Summary>> ELSE << >>
             old == Descending(Fitting(n, room))
             f == FoldLeft(InsertOlder, start, old)
  <2>1. Trimmed(n) = f \o r
    BY <1>4 DEF Trimmed, r
  <2>2. SizeOf((k + 1)..n) \in Nat /\ HistoryBudget \in Nat /\ SummaryTokens \in Nat
    BY <1>1, SizesTyped, TokenAssumption
  <2>3. RoomFor(n) \in Int /\ RoomFor(n) = HistoryBudget - SizeOf((k + 1)..n)
    BY <1>1, <2>2 DEF RoomFor
  <2>4. room \in Int /\ extra \in Nat
    BY <2>2, <2>3
  <2>5. s \in BOOLEAN
    BY DEF Summarised
  <2>6. /\ start \in Seq(Nat) /\ Len(start) = (IF s THEN 1 ELSE 0)
        /\ ToSet(start) = (IF s THEN {Summary} ELSE {})
    BY DEF Summary, ToSet
  <2> HIDE DEF s, extra, room, start
  <2>7. PICK m \in 1..(k + 1) :
           Fitting(n, room) = m..k /\ (m <= k => SizeOf(m..k) <= room)
    BY <2>4, FittingShape DEF k
  <2>8. old \in Seq(Nat) /\ Len(old) = k - m + 1 /\ ToSet(old) = m..k
    <3>1. m \in Nat /\ m <= k + 1
      BY <1>1
    <3>2. /\ old = [x \in 1..(k - m + 1) |-> k - x + 1]
          /\ old \in Seq(Nat) /\ ToSet(old) = m..k
      BY <1>1, <2>7, <3>1, IntervalInOrder
    <3>3. k - m + 1 \in Nat
      BY <1>1, <3>1
    <3> QED
      BY <3>2, <3>3
  <2> HIDE DEF old
  <2>9. f \in Seq(Nat) /\ Len(f) = Len(start) + Len(old) /\ ToSet(f) = ToSet(start) \cup ToSet(old)
    BY <2>6, <2>8, InsertedShape
  <2> HIDE DEF f
  <2>10. /\ Len(f \o r) = (IF s THEN 1 ELSE 0) + (n - m + 1)
         /\ ToSet(f \o r) = (IF s THEN {Summary} ELSE {}) \cup m..n
         /\ IsSuffix(r, f \o r)
    <3>4. /\ Len(f \o r) = Len(f) + Len(r)
          /\ ToSet(f \o r) = ToSet(f) \cup ToSet(r)
          /\ IsSuffix(r, f \o r)
      BY <1>2, <2>9, Joined, JoinedElements, JoinedSuffix
    <3> HIDE DEF ToSet
    <3>1. /\ Len(f \o r) = ((IF s THEN 1 ELSE 0) + (k - m + 1)) + (n - k)
          /\ ToSet(f \o r) = ((IF s THEN {Summary} ELSE {}) \cup m..k) \cup ((k + 1)..n)
          /\ IsSuffix(r, f \o r)
      BY <1>2, <2>6, <2>8, <2>9, <3>4
    <3>2. (m..k) \cup ((k + 1)..n) = m..n
      BY <1>1
    <3>3. ((IF s THEN 1 ELSE 0) + (k - m + 1)) + (n - k) = (IF s THEN 1 ELSE 0) + (n - m + 1)
      BY <1>1
    <3> QED
      BY <3>1, <3>2, <3>3
  <2>11. SizeOf(m..n) + extra <= HistoryBudget \/ m = k + 1
    <3> SUFFICES ASSUME m # k + 1 PROVE SizeOf(m..n) + extra <= HistoryBudget
      OBVIOUS
    <3>1. m <= k /\ SizeOf(m..k) <= room
      BY <1>1, <2>7
    <3>2. /\ m..k \in SUBSET (1..n) /\ (k + 1)..n \in SUBSET (1..n)
          /\ (m..k) \cap ((k + 1)..n) = {} /\ (m..k) \cup ((k + 1)..n) = m..n
      BY <1>1, <3>1
    <3>3. SizeOf(m..n) = SizeOf(m..k) + SizeOf((k + 1)..n) /\ SizeOf(m..k) \in Nat
      BY <3>2, SizesAdd, SizesTyped
    <3> QED
      BY <2>2, <2>3, <2>4, <3>1, <3>3 DEF room
  <2>12. /\ IsSuffix(Ascending(Recent(n)), Trimmed(n))
         /\ Len(Trimmed(n)) = (IF s THEN 1 ELSE 0) + (n - m + 1)
         /\ ToSet(Trimmed(n)) = (IF s THEN {Summary} ELSE {}) \cup m..n
         /\ \/ SizeOf(m..n) + (IF s THEN SummaryTokens ELSE 0) <= HistoryBudget
            \/ m = k + 1
    BY <2>1, <2>10, <2>11 DEF r, extra
  <2> QED
    BY <2>5, <2>12 DEF k
<1> QED
  BY <1>3, <1>4

\* What a turn sends of its chat is the recent messages and, before them, as many of
\* the messages next to them as the budget has room for, each once; for every length
\* of the chat, every size of its messages and every budget.
THEOREM HistoryStaysWindow == Spec => []HistoryIsWindow
<1>1. ASSUME ConvInv PROVE HistoryIsWindow
  <2> SUFFICES ASSUME NEW t \in Turns, HasRead(t)
               PROVE  LET n == seen[t]
                          h == Trimmed(n)
                          given == Positions(h)
                          taken == SizeOf(given) + (IF Summary \in ToSet(h) THEN SummaryTokens ELSE 0)
                      IN /\ IsSuffix(Ascending(Recent(n)), h)
                         /\ Len(h) = Cardinality(ToSet(h))
                         /\ \A i \in given : i..n \subseteq given
                         /\ taken <= HistoryBudget \/ given = Recent(n)
    BY DEF HistoryIsWindow
  <2> DEFINE n == seen[t]
             h == Trimmed(n)
             given == Positions(h)
  <2>1. TypeOK /\ n \in Nat /\ n <= Len(messages)
    BY <1>1 DEF ConvInv, TypeOK, SeenIsKept, HasRead
  <2> HIDE DEF n
  <2>2. LastOlder(n) \in Nat /\ Recent(n) = (LastOlder(n) + 1)..n /\ LastOlder(n) <= n
    BY <2>1, WindowShape
  <2>3. PICK m \in 1..(LastOlder(n) + 1), s \in BOOLEAN :
           /\ IsSuffix(Ascending(Recent(n)), h)
           /\ Len(h) = (IF s THEN 1 ELSE 0) + (n - m + 1)
           /\ ToSet(h) = (IF s THEN {Summary} ELSE {}) \cup m..n
           /\ \/ SizeOf(m..n) + (IF s THEN SummaryTokens ELSE 0) <= HistoryBudget
              \/ m = LastOlder(n) + 1
    BY <2>1, TrimmedShape
  <2> HIDE DEF h
  <2>4. m \in Nat /\ 1 <= m /\ m <= n + 1 /\ Summary \notin m..n
    BY <2>1, <2>2 DEF Summary
  <2>5. given = m..n /\ (Summary \in ToSet(h) <=> s)
    BY <2>3, <2>4 DEF Positions
  <2>6. Len(h) = Cardinality(ToSet(h))
    <3>1. IsFiniteSet(m..n) /\ Cardinality(m..n) = n - m + 1
      BY <2>1, <2>4, IntervalInOrder
    <3>2. CASE s
      <4>1. Cardinality((m..n) \cup {Summary}) = (n - m + 1) + 1
        BY <2>4, <3>1, FS_AddElement
      <4>2. ToSet(h) = (m..n) \cup {Summary} /\ Len(h) = 1 + (n - m + 1)
        BY <2>3, <3>2
      <4> QED
        BY <2>1, <2>4, <4>1, <4>2
    <3>3. CASE ~s
      <4>1. ToSet(h) = m..n /\ Len(h) = 0 + (n - m + 1)
        BY <2>3, <3>3
      <4> QED
        BY <2>1, <2>4, <3>1, <4>1
    <3> QED
      BY <3>2, <3>3
  <2>7. \A i \in given : i..n \subseteq given
    BY <2>1, <2>4, <2>5
  <2>8. \/ SizeOf(given) + (IF Summary \in ToSet(h) THEN SummaryTokens ELSE 0) <= HistoryBudget
        \/ given = Recent(n)
    BY <2>2, <2>3, <2>5
  <2> HIDE DEF given
  <2> QED
    BY <2>3, <2>6, <2>7, <2>8 DEF n, h, given
<1> QED
  BY <1>1, ConversationInvariant, PTL
=============================================================================
