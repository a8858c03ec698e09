-------------------------- MODULE CorrelatorProofs --------------------------
(***************************************************************************)
(* Detections become incidents, for any window, batch size, entities, scores*)
(* and any number of crashes: the walk over a batch finds its clusters, no  *)
(* detection is evidence twice, and none is lost while ids follow times.    *)
(***************************************************************************)
EXTENDS Correlator, FiniteSetTheorems, SequenceTheorems, WellFoundedInduction, TLAPS

(* Sets of naturals *)

LEMMA LeastOf ==
  ASSUME NEW S \in SUBSET Nat, S # {}
  PROVE  \E m \in S : \A x \in S : m <= x
<1>. DEFINE R == OpToRel(<, Nat)
<1>1. R = OpToRel(<, Nat)
  OBVIOUS
<1>. HIDE DEF R
<1>2. PICK m \in S : \A x \in S : <<x, m>> \notin R
  BY <1>1, WFMin, NatLessThanWellFounded
<1>3. \A x \in S : ~(x < m)
  BY <1>1, <1>2 DEF OpToRel
<1>. QED
  BY <1>3

LEMMA GreatestOf ==
  ASSUME NEW n \in Nat, NEW S \in SUBSET (0 .. n), S # {}
  PROVE  \E m \in S : \A x \in S : x <= m
<1>. DEFINE T == {n - x : x \in S}
<1>1. T \in SUBSET Nat /\ T # {}
  <2>1. \A x \in S : n - x \in Nat
    OBVIOUS
  <2>. QED
    BY <2>1
<1>2. PICK t \in T : \A u \in T : t <= u
  <2>. HIDE DEF T
  <2>. QED
    BY <1>1, LeastOf
<1>3. PICK m \in S : t = n - m
  OBVIOUS
<1>4. ASSUME NEW x \in S PROVE x <= m
  <2>1. n - x \in T
    OBVIOUS
  <2>2. n - m <= n - x
    BY <1>2, <1>3, <2>1
  <2>. QED
    BY <2>2
<1>. QED
  BY <1>4

\* A bounded non-empty set of naturals has a Max. (CursorAfter; build_incident_draft.)
LEMMA MaxOf ==
  ASSUME NEW n \in Nat, NEW S \in SUBSET (0 .. n), S # {}
  PROVE  Max(S) \in S /\ \A x \in S : x <= Max(S)
<1>1. PICK m \in S : \A x \in S : x <= m
  BY GreatestOf
<1>2. \E x \in S : \A y \in S : x >= y
  BY <1>1
<1>3. Max(S) \in S /\ \A y \in S : Max(S) >= y
  BY <1>2 DEF Max
<1>. QED
  BY <1>3

\* A map that reaches every element is a surjection.
LEMMA SurjectionHere ==
  ASSUME NEW S, NEW T, NEW f \in [S -> T], \A t \in T : \E x \in S : f[x] = t
  PROVE  f \in Surjection(S, T)
BY DEF Surjection, Range

\* A map that takes different elements to different ones fills a set of the same size.
LEMMA ImageFull ==
  ASSUME NEW S, NEW T, IsFiniteSet(T), NEW f \in [S -> T],
         \A x, y \in S : f[x] = f[y] => x = y, Cardinality(S) = Cardinality(T)
  PROVE  \A t \in T : \E x \in S : f[x] = t
<1>1. f \in Injection(S, T)
  BY DEF Injection, IsInjective
<1>2. f \in Surjection(S, T)
  BY <1>1, FS_Injection
<1>. QED
  BY <1>2 DEF Surjection, Range

----------------------------------------------------------------------------
(* Rows in time order *)

\* What is used of a set of detections.
Rows(F) ==
  /\ IsFiniteSet(F)
  /\ \A d \in F : d.ts \in Int /\ d.id \in Int
  /\ \A d, e \in F : d.id = e.id => d = e

\* s lists the rows of F in time order.
Lists(s, F) ==
  /\ s \in [1 .. Cardinality(F) -> F]
  /\ \A i, j \in 1 .. Cardinality(F) : i < j => Before(s[i], s[j])

LEMMA BeforeOrders ==
  ASSUME NEW F, Rows(F)
  PROVE  /\ \A d \in F : ~Before(d, d)
         /\ \A d, e \in F : d # e => Before(d, e) \/ Before(e, d)
         /\ \A d, e, f \in F : Before(d, e) /\ Before(e, f) => Before(d, f)
BY DEF Rows, Before

\* Sorting: the place of a row is the number of rows before it.
LEMMA CanBeListed ==
  ASSUME NEW F, Rows(F)
  PROVE  \E s : Lists(s, F)
<1>. DEFINE n == Cardinality(F)
            Earlier(d) == {e \in F : Before(e, d)}
            place == [d \in F |-> Cardinality(Earlier(d)) + 1]
<1>1. IsFiniteSet(F) /\ n \in Nat /\ IsFiniteSet(1 .. n) /\ Cardinality(1 .. n) = n
  BY FS_CardinalityType, FS_Interval DEF Rows
<1>2. ASSUME NEW d \in F
      PROVE  /\ IsFiniteSet(Earlier(d)) /\ Cardinality(Earlier(d)) \in Nat
             /\ IsFiniteSet(Earlier(d) \cup {d})
             /\ Cardinality(Earlier(d) \cup {d}) = Cardinality(Earlier(d)) + 1
  <2>1. Earlier(d) \in SUBSET F /\ d \notin Earlier(d)
    BY BeforeOrders
  <2>2. IsFiniteSet(Earlier(d))
    BY <1>1, <2>1, FS_Subset
  <2>. HIDE DEF Earlier
  <2>. QED
    BY <2>1, <2>2, FS_CardinalityType, FS_AddElement
<1>3. place \in [F -> 1 .. n]
  <2>. SUFFICES ASSUME NEW d \in F PROVE Cardinality(Earlier(d)) + 1 \in 1 .. n
    OBVIOUS
  <2>1. Earlier(d) \cup {d} \in SUBSET F
    OBVIOUS
  <2>2. Cardinality(Earlier(d) \cup {d}) <= n
    BY <1>1, <2>1, FS_Subset
  <2>. HIDE DEF Earlier
  <2>. QED
    BY <1>1, <1>2, <2>2
<1>4. ASSUME NEW d \in F, NEW e \in F, Before(d, e) PROVE place[d] < place[e]
  <2>1. Earlier(d) \cup {d} \in SUBSET Earlier(e)
    BY <1>4, BeforeOrders
  <2>2. Cardinality(Earlier(d) \cup {d}) <= Cardinality(Earlier(e))
    BY <1>2, <2>1, FS_Subset
  <2>3. place[d] = Cardinality(Earlier(d)) + 1 /\ place[e] = Cardinality(Earlier(e)) + 1
    OBVIOUS
  <2>4. /\ Cardinality(Earlier(d)) \in Nat /\ Cardinality(Earlier(e)) \in Nat
        /\ Cardinality(Earlier(d) \cup {d}) = Cardinality(Earlier(d)) + 1
    BY <1>2
  <2>. HIDE DEF Earlier, place
  <2>. QED
    BY <2>2, <2>3, <2>4
<1>5. \A d, e \in F : place[d] = place[e] => d = e
  <2>. HIDE DEF place
  <2>. QED
    BY <1>3, <1>4, BeforeOrders
<1>. DEFINE s == [i \in 1 .. n |-> CHOOSE d \in F : place[d] = i]
<1>. HIDE DEF place
<1>6. ASSUME NEW i \in 1 .. n PROVE s[i] \in F /\ place[s[i]] = i
  <2>1. \E d \in F : place[d] = i
    <3>. DEFINE T == 1 .. n
    <3>1. IsFiniteSet(T) /\ Cardinality(F) = Cardinality(T) /\ place \in [F -> T] /\ i \in T
      BY <1>1, <1>3
    <3>. HIDE DEF T, n
    <3>. QED
      BY <3>1, <1>5, ImageFull
  <2>. QED
    BY <2>1
<1>7. ASSUME NEW i \in 1 .. n, NEW j \in 1 .. n, i < j PROVE Before(s[i], s[j])
  <2>. HIDE DEF s
  <2>1. s[i] \in F /\ s[j] \in F /\ place[s[i]] = i /\ place[s[j]] = j
    BY <1>6
  <2>2. s[i] # s[j] /\ ~Before(s[j], s[i])
    BY <1>4, <1>7, <2>1
  <2>. QED
    BY <2>1, <2>2, BeforeOrders
<1>8. Lists(s, F)
  BY <1>6, <1>7 DEF Lists
<1>. QED
  BY <1>8

\* So InOrderOf lists the rows, each of them.
LEMMA InOrderLists ==
  ASSUME NEW F, Rows(F)
  PROVE  /\ Lists(InOrderOf(F), F)
         /\ \A d \in F : \E i \in 1 .. Cardinality(F) : InOrderOf(F)[i] = d
<1>. DEFINE n == Cardinality(F)
            s == InOrderOf(F)
<1>1. Lists(s, F)
  <2>1. PICK t : Lists(t, F)
    BY CanBeListed
  <2>2. t \in [1 .. n -> F] /\ \A i, j \in DOMAIN t : i < j => Before(t[i], t[j])
    BY <2>1 DEF Lists
  <2>3. s \in [1 .. n -> F] /\ \A i, j \in DOMAIN s : i < j => Before(s[i], s[j])
    BY <2>2 DEF InOrderOf
  <2>. QED
    BY <2>3 DEF Lists
<1>2. \A i, j \in 1 .. n : s[i] = s[j] => i = j
  <2>1. n \in Nat
    BY FS_CardinalityType DEF Rows
  <2>2. s \in [1 .. n -> F] /\ \A i, j \in 1 .. n : i < j => Before(s[i], s[j])
    BY <1>1 DEF Lists
  <2>. HIDE DEF s
  <2>. QED
    BY <2>1, <2>2, BeforeOrders
<1>3. IsFiniteSet(F) /\ n \in Nat /\ Cardinality(1 .. n) = n
  BY FS_CardinalityType, FS_Interval DEF Rows
<1>4. s \in [1 .. n -> F]
  BY <1>1 DEF Lists
<1>. HIDE DEF s
<1>5. \A d \in F : \E i \in 1 .. n : s[i] = d
  BY <1>2, <1>3, <1>4, ImageFull
<1>. QED
  BY <1>1, <1>5 DEF s

----------------------------------------------------------------------------
(* The walk over the rows of one entity *)

\* A list of the rows of one entity, as the walk uses it.
Walk(s, n, F, e) ==
  /\ n \in Nat /\ s \in [1 .. n -> F] /\ Len(s) = n
  /\ \A d \in F : d.ts \in Int /\ d.entity = e
  /\ \A d \in F : \E i \in 1 .. n : s[i] = d
  /\ \A i, j \in 1 .. n : i <= j => s[i].ts <= s[j].ts

LEMMA InOrderWalks ==
  ASSUME NEW F, Rows(F), NEW e, \A d \in F : d.entity = e
  PROVE  Walk(InOrderOf(F), Cardinality(F), F, e)
<1>. DEFINE n == Cardinality(F)
            s == InOrderOf(F)
<1>1. n \in Nat
  BY FS_CardinalityType DEF Rows
<1>2. /\ s \in [1 .. n -> F] /\ \A d \in F : \E i \in 1 .. n : s[i] = d
      /\ \A i, j \in 1 .. n : i < j => Before(s[i], s[j])
  BY InOrderLists DEF Lists
<1>. HIDE DEF s, n
<1>3. s \in Seq(F) /\ Len(s) = n
  BY <1>1, <1>2
<1>4. \A d \in F : d.ts \in Int
  BY DEF Rows
<1>5. \A i, j \in 1 .. n : i <= j => s[i].ts <= s[j].ts
  <2>. SUFFICES ASSUME NEW i \in 1 .. n, NEW j \in 1 .. n, i <= j
                PROVE  s[i].ts <= s[j].ts
    OBVIOUS
  <2>1. CASE i = j
    BY <1>2, <1>4, <2>1
  <2>2. CASE i < j
    BY <1>2, <1>4, <2>2 DEF Before
  <2>. QED
    BY <1>1, <2>1, <2>2
<1>. QED
  BY <1>1, <1>2, <1>3, <1>4, <1>5 DEF Walk, s, n

\* Every position lies between two cuts that have none between them.
LEMMA CutsCover ==
  ASSUME NEW s, NEW n, NEW F, NEW e, Walk(s, n, F, e), NEW k \in 1 .. n
  PROVE  \E p \in RunsOf(s) : p[1] <= k /\ k <= p[2]
<1>. DEFINE C == {i \in 1 .. n : Cuts(s, i)}
<1>0. n \in Nat /\ Len(s) = n /\ C \in SUBSET (1 .. n) /\ 1 \in C
  BY DEF Walk, Cuts
<1>a. \A a, b \in 1 .. n :
        /\ a <= k /\ k <= b /\ a \in C
        /\ b = n \/ b + 1 \in C
        /\ \A i \in (a + 1) .. b : i \notin C
        => <<a, b>> \in RunsOf(s) /\ <<a, b>>[1] <= k /\ k <= <<a, b>>[2]
  BY <1>0 DEF RunsOf
<1>. HIDE DEF C
<1>. DEFINE Below == {i \in C : i <= k}
            Above == {i \in C : i > k}
<1>1. PICK a \in Below : \A i \in Below : i <= a
  <2>1. (\A i \in C : i \in 0 .. n) /\ 1 <= k
    BY <1>0
  <2>2. Below \in SUBSET (0 .. n) /\ Below # {}
    BY <1>0, <2>1
  <2>. HIDE DEF Below
  <2>. QED
    BY <1>0, <2>2, GreatestOf
<1>2. CASE Above = {}
  <2>1. \A i \in (a + 1) .. n : i \notin C
    BY <1>0, <1>1, <1>2
  <2>2. a \in 1 .. n /\ n \in 1 .. n /\ a <= k /\ k <= n /\ a \in C
    BY <1>0, <1>1
  <2>3. <<a, n>> \in RunsOf(s) /\ <<a, n>>[1] <= k /\ k <= <<a, n>>[2]
    BY <1>a, <2>1, <2>2
  <2>. QED
    BY <2>3
<1>3. CASE Above # {}
  <2>1. PICK c \in Above : \A i \in Above : c <= i
    <3>1. Above \in SUBSET Nat
      <4>1. \A i \in C : i \in Nat
        BY <1>0
      <4>. QED
        BY <4>1
    <3>. HIDE DEF Above
    <3>. QED
      BY <1>3, <3>1, LeastOf
  <2>2. \A i \in (a + 1) .. (c - 1) : i \notin C
    BY <1>0, <1>1, <2>1
  <2>3. c - 1 \in 1 .. n /\ k <= c - 1 /\ (c - 1) + 1 \in C
    BY <1>0, <2>1
  <2>. QED
    BY <1>0, <1>1, <1>a, <2>2, <2>3
<1>. QED
  BY <1>2, <1>3

\* The rows of a run.
RowsOf(s, p) == {s[k] : k \in p[1] .. p[2]}

LEMMA RunShape ==
  ASSUME NEW s, NEW n, NEW F, NEW e, Walk(s, n, F, e), NEW p \in RunsOf(s)
  PROVE  /\ p[1] \in 1 .. n /\ p[2] \in 1 .. n /\ p[1] <= p[2] /\ p = <<p[1], p[2]>>
         /\ p[1] = 1 \/ s[p[1]].ts - s[p[1] - 1].ts > Window
         /\ p[2] = n \/ s[p[2] + 1].ts - s[p[2]].ts > Window
         /\ \A k \in (p[1] + 1) .. p[2] : s[k].ts - s[k - 1].ts <= Window
         /\ RowsOf(s, p) \in SUBSET F
<1>1. /\ p \in (1 .. n) \X (1 .. n) /\ p[1] <= p[2] /\ Cuts(s, p[1])
      /\ p[2] = n \/ Cuts(s, p[2] + 1)
      /\ \A k \in (p[1] + 1) .. p[2] : ~Cuts(s, k)
  BY DEF RunsOf, Walk
<1>2. p[1] \in 1 .. n /\ p[2] \in 1 .. n /\ p = <<p[1], p[2]>>
  BY <1>1
<1>3. n \in Nat /\ s \in [1 .. n -> F] /\ \A d \in F : d.ts \in Int
  BY DEF Walk
<1>4. p[1] = 1 \/ s[p[1]].ts - s[p[1] - 1].ts > Window
  BY <1>1 DEF Cuts
<1>5. p[2] = n \/ s[p[2] + 1].ts - s[p[2]].ts > Window
  <2>1. (p[2] + 1) - 1 = p[2] /\ p[2] + 1 # 1
    BY <1>2, <1>3
  <2>. QED
    BY <1>1, <2>1 DEF Cuts
<1>6. ASSUME NEW k \in (p[1] + 1) .. p[2] PROVE s[k].ts - s[k - 1].ts <= Window
  <2>1. k \in 1 .. n /\ k - 1 \in 1 .. n
    BY <1>2, <1>3
  <2>2. ~(s[k].ts - s[k - 1].ts > Window)
    BY <1>1 DEF Cuts
  <2>3. s[k].ts \in Int /\ s[k - 1].ts \in Int
    BY <1>3, <2>1
  <2>. QED
    BY <2>2, <2>3, WindowAssumption
<1>7. RowsOf(s, p) \in SUBSET F
  BY <1>2, <1>3 DEF RowsOf
<1>. QED
  BY <1>1, <1>2, <1>4, <1>5, <1>6, <1>7

\* A run holds together: where one side of it stops, the gap is no cut.
LEMMA RunLinked ==
  ASSUME NEW s, NEW n, NEW F, NEW e, Walk(s, n, F, e), NEW p \in RunsOf(s)
  PROVE  Linked(RowsOf(s, p))
<1>. DEFINE a == p[1]
            b == p[2]
            c == RowsOf(s, p)
<1>1. /\ a \in 1 .. n /\ b \in 1 .. n /\ a <= b
      /\ \A k \in (a + 1) .. b : s[k].ts - s[k - 1].ts <= Window
  BY RunShape
<1>2. /\ n \in Nat /\ s \in [1 .. n -> F] /\ \A d \in F : d.ts \in Int /\ d.entity = e
      /\ \A i, j \in 1 .. n : i <= j => s[i].ts <= s[j].ts
  BY DEF Walk
<1>3. c = {s[k] : k \in a .. b}
  BY DEF RowsOf
<1>. HIDE DEF a, b, c
<1>4. ASSUME NEW k \in (a + 1) .. b PROVE Near(s[k], s[k - 1]) /\ Near(s[k - 1], s[k])
  <2>1. k \in 1 .. n /\ k - 1 \in 1 .. n /\ k - 1 <= k
    BY <1>1, <1>2
  <2>2. /\ s[k].ts \in Int /\ s[k - 1].ts \in Int /\ s[k - 1].ts <= s[k].ts
        /\ s[k].entity = e /\ s[k - 1].entity = e
    BY <1>2, <2>1
  <2>3. s[k].ts - s[k - 1].ts <= Window /\ s[k - 1].ts - s[k].ts <= Window
    BY <1>1, <2>2, WindowAssumption
  <2>. QED
    BY <2>2, <2>3 DEF Near
<1>5. SUFFICES ASSUME NEW part \in SUBSET c, part # {}, part # c
               PROVE  \E x \in part, y \in c \ part : Near(x, y)
  BY DEF Linked, c
<1>. DEFINE In == {k \in a .. b : s[k] \in part}
            Out == {k \in a .. b : s[k] \notin part}
<1>6. In \in SUBSET Nat /\ Out \in SUBSET Nat /\ In # {} /\ Out # {}
  BY <1>1, <1>2, <1>3, <1>5
<1>7. CASE a \notin In
  <2>1. PICK m \in In : \A k \in In : m <= k
    <3>. HIDE DEF In
    <3>. QED
      BY <1>6, LeastOf
  <2>2. m \in (a + 1) .. b /\ m - 1 \in Out
    BY <1>1, <1>2, <1>7, <2>1
  <2>3. s[m] \in part /\ s[m - 1] \in c \ part
    BY <1>3, <2>1, <2>2
  <2>. QED
    BY <1>4, <2>2, <2>3
<1>8. CASE a \in In
  <2>1. PICK m \in Out : \A k \in Out : m <= k
    <3>. HIDE DEF Out
    <3>. QED
      BY <1>6, LeastOf
  <2>2. m \in (a + 1) .. b /\ m - 1 \in In
    BY <1>1, <1>2, <1>8, <2>1
  <2>3. s[m - 1] \in part /\ s[m] \in c \ part
    BY <1>3, <2>1, <2>2
  <2>. QED
    BY <1>4, <2>2, <2>3
<1>. QED
  BY <1>7, <1>8

\* Of two runs one ends before a cut the other starts at, or after.
LEMMA RunsApart ==
  ASSUME NEW s, NEW n, NEW F, NEW e, Walk(s, n, F, e),
         NEW p \in RunsOf(s), NEW q \in RunsOf(s), p # q
  PROVE  p[2] < q[1] \/ q[2] < p[1]
<1>1. /\ p \in (1 .. n) \X (1 .. n) /\ p[1] <= p[2] /\ Cuts(s, p[1])
      /\ p[2] = n \/ Cuts(s, p[2] + 1)
      /\ \A k \in (p[1] + 1) .. p[2] : ~Cuts(s, k)
  BY DEF RunsOf, Walk
<1>2. /\ q \in (1 .. n) \X (1 .. n) /\ q[1] <= q[2] /\ Cuts(s, q[1])
      /\ q[2] = n \/ Cuts(s, q[2] + 1)
      /\ \A k \in (q[1] + 1) .. q[2] : ~Cuts(s, k)
  BY DEF RunsOf, Walk
<1>3. n \in Nat
  BY DEF Walk
<1>4. CASE p[1] # q[1]
  <2>1. p[1] \notin (q[1] + 1) .. q[2] /\ q[1] \notin (p[1] + 1) .. p[2]
    BY <1>1, <1>2
  <2>. QED
    BY <1>1, <1>2, <1>3, <1>4, <2>1
<1>5. CASE p[1] = q[1]
  <2>1. p[2] # q[2]
    BY <1>1, <1>2, <1>5
  <2>2. p[2] < q[2] => p[2] + 1 \in (q[1] + 1) .. q[2] /\ p[2] # n
    BY <1>1, <1>2, <1>3, <1>5
  <2>3. q[2] < p[2] => q[2] + 1 \in (p[1] + 1) .. p[2] /\ q[2] # n
    BY <1>1, <1>2, <1>3, <1>5
  <2>4. p[2] < q[2] \/ q[2] < p[2]
    BY <1>1, <1>2, <1>3, <2>1
  <2>. QED
    BY <1>1, <1>2, <2>2, <2>3, <2>4
<1>. QED
  BY <1>4, <1>5

\* Rows on the two sides of a cut are not near each other.
LEMMA CutKeepsApart ==
  ASSUME NEW s, NEW n, NEW F, NEW e, Walk(s, n, F, e),
         NEW p \in RunsOf(s), NEW q \in RunsOf(s), p[2] < q[1],
         NEW x \in RowsOf(s, p), NEW y \in RowsOf(s, q)
  PROVE  ~Near(x, y) /\ ~Near(y, x)
<1>1. /\ p[1] \in 1 .. n /\ p[2] \in 1 .. n /\ q[1] \in 1 .. n /\ q[2] \in 1 .. n
      /\ q[1] = 1 \/ s[q[1]].ts - s[q[1] - 1].ts > Window
  BY RunShape
<1>2. /\ n \in Nat /\ s \in [1 .. n -> F] /\ \A d \in F : d.ts \in Int
      /\ \A i, j \in 1 .. n : i <= j => s[i].ts <= s[j].ts
  BY DEF Walk
<1>3. PICK i \in p[1] .. p[2] : x = s[i]
  BY DEF RowsOf
<1>4. PICK j \in q[1] .. q[2] : y = s[j]
  BY DEF RowsOf
<1>. DEFINE g == q[1]
<1>5. /\ i \in 1 .. n /\ j \in 1 .. n /\ g \in 1 .. n /\ g - 1 \in 1 .. n
      /\ i <= g - 1 /\ g <= j /\ g # 1
  BY <1>1, <1>2
<1>6. s[g].ts - s[g - 1].ts > Window
  BY <1>1, <1>5
<1>. HIDE DEF g
<1>7. s[i].ts <= s[g - 1].ts /\ s[g].ts <= s[j].ts
  BY <1>2, <1>5
<1>8. s[i].ts \in Int /\ s[j].ts \in Int /\ s[g].ts \in Int /\ s[g - 1].ts \in Int
  BY <1>2, <1>5
<1>9. ~(s[j].ts - s[i].ts <= Window)
  BY <1>6, <1>7, <1>8, WindowAssumption
<1>. QED
  BY <1>3, <1>4, <1>9 DEF Near

\* So the walk over the rows of one entity is right. (cluster_by_entity_and_time.)
LEMMA WalkClusters ==
  ASSUME NEW F, Rows(F), NEW e, \A d \in F : d.entity = e
  PROVE  IsClustering(ClustersOf(F), F)
<1>. DEFINE n == Cardinality(F)
            s == InOrderOf(F)
            parts == ClustersOf(F)
<1>1. Walk(s, n, F, e)
  BY InOrderWalks
<1>2. \A c : c \in parts <=> \E p \in RunsOf(s) : c = RowsOf(s, p)
  BY DEF ClustersOf, RowsOf
<1>. HIDE DEF s, n, parts
<1>3. /\ n \in Nat /\ s \in [1 .. n -> F] /\ Len(s) = n
      /\ \A d \in F : \E i \in 1 .. n : s[i] = d
  BY <1>1 DEF Walk
<1>4. UNION parts = F
  <2>1. ASSUME NEW c \in parts PROVE c \in SUBSET F
    BY <1>1, <1>2, RunShape
  <2>2. ASSUME NEW d \in F PROVE \E c \in parts : d \in c
    <3>1. PICK k \in 1 .. n : s[k] = d
      BY <1>3
    <3>2. PICK p \in RunsOf(s) : p[1] <= k /\ k <= p[2]
      BY <1>1, CutsCover
    <3>3. p[1] \in 1 .. n /\ p[2] \in 1 .. n
      BY <1>1, RunShape
    <3>4. d \in RowsOf(s, p)
      BY <1>3, <3>1, <3>2, <3>3 DEF RowsOf
    <3>. QED
      BY <1>2, <3>2, <3>4
  <2>. QED
    BY <2>1, <2>2
<1>5. {} \notin parts
  <2>. SUFFICES ASSUME NEW p \in RunsOf(s) PROVE RowsOf(s, p) # {}
    BY <1>2
  <2>1. p[1] \in 1 .. n /\ p[2] \in 1 .. n /\ p[1] <= p[2]
    BY <1>1, RunShape
  <2>2. s[p[1]] \in RowsOf(s, p)
    BY <2>1 DEF RowsOf
  <2>. QED
    BY <2>2
<1>6. \A c \in parts : Linked(c)
  BY <1>1, <1>2, RunLinked
<1>7. ASSUME NEW b \in parts, NEW c \in parts, b # c, NEW x \in b, NEW y \in c
      PROVE  ~Near(x, y)
  <2>1. PICK p \in RunsOf(s) : b = RowsOf(s, p)
    BY <1>2
  <2>2. PICK q \in RunsOf(s) : c = RowsOf(s, q)
    BY <1>2
  <2>3. p[2] < q[1] \/ q[2] < p[1]
    BY <1>1, <1>7, <2>1, <2>2, RunsApart
  <2>. QED
    BY <1>1, <2>1, <2>2, <2>3, CutKeepsApart
<1>. QED
  BY <1>4, <1>5, <1>6, <1>7 DEF IsClustering, parts

\* The clusters of all entities. (cluster_by_entity_and_time: by_entity.)
LEMMA ClustersAreRight ==
  ASSUME NEW F, Rows(F)
  PROVE  IsClustering(Clusters(F), F)
<1>. DEFINE Of(e) == {d \in F : d.entity = e}
            G == Clusters(F)
<1>1. \A c : c \in G <=> \E d \in F : c \in ClustersOf(Of(d.entity))
  BY DEF Clusters
<1>2. ASSUME NEW e PROVE IsClustering(ClustersOf(Of(e)), Of(e))
  <2>1. Of(e) \in SUBSET F /\ \A d \in Of(e) : d.entity = e
    OBVIOUS
  <2>2. Rows(Of(e))
    BY <2>1, FS_Subset DEF Rows
  <2>. HIDE DEF Of
  <2>. QED
    BY <2>1, <2>2, WalkClusters
<1>3. \A e : /\ UNION ClustersOf(Of(e)) = Of(e) /\ {} \notin ClustersOf(Of(e))
             /\ \A c \in ClustersOf(Of(e)) : Linked(c)
             /\ \A b, c \in ClustersOf(Of(e)) : b # c => \A x \in b, y \in c : ~Near(x, y)
  BY <1>2 DEF IsClustering
<1>. HIDE DEF G
<1>4. \A d, e : d \in Of(e) <=> d \in F /\ d.entity = e
  OBVIOUS
<1>. HIDE DEF Of
<1>5. UNION G = F
  <2>1. ASSUME NEW d \in F PROVE \E c \in G : d \in c
    BY <1>1, <1>3, <1>4
  <2>2. ASSUME NEW c \in G, NEW d \in c PROVE d \in F
    BY <1>1, <1>3, <1>4
  <2>. QED
    BY <2>1, <2>2
<1>6. {} \notin G /\ \A c \in G : Linked(c)
  BY <1>1, <1>3, <1>4
<1>7. ASSUME NEW b \in G, NEW c \in G, b # c, NEW x \in b, NEW y \in c
      PROVE  ~Near(x, y)
  <2>1. PICK f \in F : b \in ClustersOf(Of(f.entity))
    BY <1>1
  <2>2. PICK g \in F : c \in ClustersOf(Of(g.entity))
    BY <1>1
  <2>3. x \in Of(f.entity) /\ y \in Of(g.entity)
    BY <1>3, <1>7, <2>1, <2>2
  <2>4. CASE f.entity = g.entity
    BY <1>3, <1>7, <2>1, <2>2, <2>4
  <2>5. CASE f.entity # g.entity
    BY <1>4, <2>3, <2>5 DEF Near
  <2>. QED
    BY <2>4, <2>5
<1>. QED
  BY <1>5, <1>6, <1>7 DEF IsClustering, G

----------------------------------------------------------------------------
(* The table of detections *)

DetectionRow == [id : Nat, entity : Entity, ts : Nat, detector : Detector, score : Score]

\* Rows carry the ids they were inserted under.
Table(ds) == ds \in Seq(DetectionRow) /\ \A i \in 1 .. Len(ds) : ds[i].id = i

LEMMA TableRows ==
  ASSUME NEW ds, Table(ds)
  PROVE  /\ Len(ds) \in Nat /\ IsFiniteSet(Range(ds)) /\ Rows(Range(ds))
         /\ \A d \in Range(ds) : d \in DetectionRow /\ d.id \in 1 .. Len(ds) /\ ds[d.id] = d
         /\ \A i \in 1 .. Len(ds) : ds[i] \in Range(ds)
<1>1. ds \in Seq(DetectionRow) /\ Len(ds) \in Nat /\ DOMAIN ds = 1 .. Len(ds)
  BY DEF Table
<1>2. \A i \in 1 .. Len(ds) : ds[i] \in Range(ds)
  BY <1>1 DEF Range
<1>3. ASSUME NEW d \in Range(ds)
      PROVE  d \in DetectionRow /\ d.id \in 1 .. Len(ds) /\ ds[d.id] = d
  <2>1. PICK i \in 1 .. Len(ds) : d = ds[i]
    BY <1>1 DEF Range
  <2>. QED
    BY <1>1, <2>1 DEF Table
<1>4. IsFiniteSet(Range(ds))
  <2>. DEFINE S == 1 .. Len(ds)
              T == Range(ds)
              f == [i \in S |-> ds[i]]
  <2>1. IsFiniteSet(S)
    BY <1>1, FS_Interval
  <2>2. f \in Surjection(S, T)
    <3>1. f \in [S -> T]
      BY <1>2
    <3>2. \A t \in T : t.id \in S /\ f[t.id] = t
      BY <1>3
    <3>. HIDE DEF f, S, T
    <3>3. \A t \in T : \E x \in S : f[x] = t
      BY <3>2
    <3>. QED
      BY <3>1, <3>3, SurjectionHere
  <2>. HIDE DEF f, S
  <2>. QED
    BY <2>1, <2>2, FS_Surjection
<1>5. \A d, e \in Range(ds) : d.id = e.id => d = e
  BY <1>3
<1>6. \A d \in Range(ds) : d.ts \in Int /\ d.id \in Int
  BY <1>3 DEF DetectionRow
<1>. QED
  BY <1>1, <1>2, <1>3, <1>4, <1>5, <1>6 DEF Rows

\* Any rows of the table are rows.
LEMMA SomeRows ==
  ASSUME NEW ds, Table(ds), NEW F \in SUBSET Range(ds)
  PROVE  Rows(F)
BY TableRows, FS_Subset DEF Rows

\* The risk of a cluster is a percentage. (build_incident_draft: min(1.0, ...).)
LEMMA RulesRiskBounds ==
  ASSUME NEW ds, Table(ds), NEW c \in SUBSET Range(ds), c # {}
  PROVE  RulesRisk(c) \in 0 .. 100
<1>. DEFINE scores == {d.score : d \in c}
            seen == {d.detector : d \in c}
            extra == Cardinality(seen) - 1
            top == Max(scores)
<1>1. IsFiniteSet(c) /\ \A d \in c : d \in DetectionRow
  BY TableRows, FS_Subset
<1>2. scores \in SUBSET (0 .. 100) /\ scores # {}
  BY <1>1, CorrelatorAssumption DEF DetectionRow
<1>3. top \in 0 .. 100
  <2>. HIDE DEF scores
  <2>1. Max(scores) \in scores
    BY <1>2, MaxOf
  <2>. QED
    BY <1>2, <2>1
<1>4. extra \in Nat
  <2>. DEFINE f == [d \in c |-> d.detector]
  <2>1. f \in [c -> seen] /\ seen # {}
    OBVIOUS
  <2>2. \A t \in seen : \E x \in c : f[x] = t
    OBVIOUS
  <2>. HIDE DEF f, seen
  <2>3. f \in Surjection(c, seen)
    BY <2>1, <2>2, SurjectionHere
  <2>4. IsFiniteSet(seen)
    BY <1>1, <2>3, FS_Surjection
  <2>5. Cardinality(seen) \in Nat
    BY <2>4, FS_CardinalityType
  <2>6. Cardinality(seen) # 0
    BY <2>1, <2>4, FS_EmptySet
  <2>. QED
    BY <2>5, <2>6
<1>. HIDE DEF top, extra
<1>. DEFINE sum == top + 15 * extra
            S == {100, sum}
<1>5. sum \in Nat
  BY <1>3, <1>4
<1>. HIDE DEF sum
<1>6. \E x \in S : \A y \in S : x =< y
  BY <1>5
<1>7. Min(S) \in S /\ \A y \in S : Min(S) =< y
  BY <1>6 DEF Min
<1>. HIDE DEF S
<1>8. Min(S) \in 0 .. 100
  BY <1>5, <1>7 DEF S
<1>9. RulesRisk(c) = Min(S)
  BY DEF RulesRisk, S, sum, top, extra
<1>. QED
  BY <1>8, <1>9

\* The agent raises it, if it answers. (_create_incident.)
LEMMA IncidentRisk ==
  ASSUME NEW r \in 0 .. 100, NEW a \in Answers
  PROVE  Max({r} \cup a) \in r .. 100
<1>1. a \in SUBSET (0 .. 100)
  BY CorrelatorAssumption DEF Answers
<1>2. {r} \cup a \in SUBSET (0 .. 100) /\ r \in {r} \cup a
  BY <1>1
<1>3. Max({r} \cup a) \in {r} \cup a /\ r <= Max({r} \cup a)
  BY <1>2, MaxOf
<1>. QED
  BY <1>2, <1>3

\* The clusters of a batch divide it.
LEMMA ClustersDivide ==
  ASSUME NEW F, Rows(F)
  PROVE  /\ \A c \in Clusters(F) : c \in SUBSET F /\ c # {}
         /\ \A d \in F : \E c \in Clusters(F) : d \in c
         /\ \A b, c \in Clusters(F) : b # c => b \cap c = {}
         /\ Cardinality(Clusters(F)) \in Nat
<1>. DEFINE G == Clusters(F)
<1>1. /\ UNION G = F /\ {} \notin G
      /\ \A b, c \in G : b # c => \A d \in b, e \in c : ~Near(d, e)
  BY ClustersAreRight DEF IsClustering
<1>. HIDE DEF G
<1>2. \A d \in F : Near(d, d)
  BY WindowAssumption DEF Rows, Near
<1>3. \A b, c \in G : b # c => b \cap c = {}
  BY <1>1, <1>2
<1>4. Cardinality(G) \in Nat
  <2>1. IsFiniteSet(SUBSET F) /\ G \in SUBSET SUBSET F
    BY <1>1, FS_SUBSET DEF Rows
  <2>2. IsFiniteSet(G)
    BY <2>1, FS_Subset
  <2>. QED
    BY <2>2, FS_CardinalityType
<1>. QED
  BY <1>1, <1>3, <1>4 DEF G

\* Detections are only ever added, at the end. (The detection worker.)
LEMMA TableStep ==
  ASSUME Table(detections), now \in Nat, [Next]_vars
  PROVE  /\ Table(detections') /\ now' \in Nat
         /\ Len(detections) <= Len(detections')
         /\ \A i \in 1 .. Len(detections) : detections'[i] = detections[i]
         /\ Range(detections) \subseteq Range(detections')
<1>1. detections \in Seq(DetectionRow) /\ Len(detections) \in Nat
  BY DEF Table
<1>2. CASE Detect
  <2>1. PICK e \in Entity, d \in Detector, s \in Score, t \in 0 .. now :
          detections' = Append(detections,
            [id |-> Len(detections) + 1, entity |-> e, ts |-> t, detector |-> d, score |-> s])
    BY <1>2 DEF Detect
  <2>. DEFINE r == [id |-> Len(detections) + 1, entity |-> e, ts |-> t, detector |-> d, score |-> s]
  <2>2. r \in DetectionRow /\ r.id = Len(detections) + 1
    BY <1>1 DEF DetectionRow
  <2>. HIDE DEF r
  <2>3. detections' = Append(detections, r)
    BY <2>1 DEF r
  <2>4. /\ detections' \in Seq(DetectionRow) /\ Len(detections') = Len(detections) + 1
        /\ \A i \in 1 .. Len(detections) : detections'[i] = detections[i]
        /\ detections'[Len(detections) + 1] = r
    BY <1>1, <2>2, <2>3
  <2>5. Table(detections')
    BY <1>1, <2>2, <2>4 DEF Table
  <2>6. Range(detections) \subseteq Range(detections')
    BY <1>1, <2>4, <2>5, TableRows DEF Range
  <2>7. now' = now
    BY <1>2 DEF Detect
  <2>. QED
    BY <1>1, <2>4, <2>5, <2>6, <2>7
<1>3. CASE Clock \/ Fetch \/ Commit \/ Crash \/ UNCHANGED vars
  <2>1. detections' = detections /\ (now' = now \/ now' = now + 1)
    BY <1>3 DEF Clock, Fetch, Commit, Crash, vars
  <2>. QED
    BY <1>1, <2>1
<1>. QED
  BY <1>2, <1>3 DEF Next

----------------------------------------------------------------------------
(* Types *)

TypeInv == Table(detections) /\ now \in Nat /\ TypeOK

LEMMA TypeInit == Init => TypeInv
<1>1. ASSUME Init PROVE Table(detections) /\ Range(detections) = {} /\ Len(detections) = 0
  BY <1>1 DEF Init, Table, Range
<1>2. ASSUME Init PROVE Evidence = {}
  BY <1>2 DEF Init, Evidence
<1>. QED
  BY <1>1, <1>2, CorrelatorAssumption DEF Init, TypeInv, TypeOK

\* A new incident is a cluster of the batch, at a risk the rules or the agent gave.
LEMMA NewIncident ==
  ASSUME TypeInv, Commit, NEW i \in incidents' \ incidents
  PROVE  /\ i.evidence \in Clusters(batch) /\ i.evidence \in SUBSET batch /\ i.evidence # {}
         /\ i.risk \in RulesRisk(i.evidence) .. 100
<1>1. Table(detections) /\ batch \in SUBSET Range(detections)
  BY DEF TypeInv, TypeOK
<1>2. PICK agent \in [Clusters(batch) -> Answers] :
        incidents' = incidents \cup {Incident(c, agent[c]) : c \in Clusters(batch)}
  BY DEF Commit
<1>3. PICK c \in Clusters(batch) : i = Incident(c, agent[c])
  BY <1>2
<1>4. i.evidence = c /\ i.risk = Max({RulesRisk(c)} \cup agent[c])
  BY <1>3 DEF Incident
<1>5. c \in SUBSET batch /\ c # {}
  BY <1>1, SomeRows, ClustersDivide
<1>6. RulesRisk(c) \in 0 .. 100
  BY <1>1, <1>5, RulesRiskBounds
<1>7. i.risk \in RulesRisk(c) .. 100
  BY <1>2, <1>4, <1>6, IncidentRisk
<1>. QED
  BY <1>4, <1>5, <1>7

\* Every detection of the batch becomes evidence.
LEMMA BatchBecomesEvidence ==
  ASSUME TypeInv, Commit
  PROVE  Evidence' = Evidence \cup batch /\ incidents \subseteq incidents'
<1>1. Rows(batch)
  BY SomeRows DEF TypeInv, TypeOK
<1>2. PICK agent \in [Clusters(batch) -> Answers] :
        incidents' = incidents \cup {Incident(c, agent[c]) : c \in Clusters(batch)}
  BY DEF Commit
<1>3. \A c \in Clusters(batch) : Incident(c, agent[c]) \in incidents' /\ Incident(c, agent[c]).evidence = c
  <2>1. \A c \in Clusters(batch) : Incident(c, agent[c]) \in incidents'
    BY <1>2
  <2>. QED
    BY <2>1 DEF Incident
<1>4. \A d \in batch : d \in Evidence'
  BY <1>1, <1>3, ClustersDivide DEF Evidence
<1>5. ASSUME NEW d \in Evidence' PROVE d \in Evidence \cup batch
  <2>1. PICK i \in incidents' : d \in i.evidence
    BY DEF Evidence
  <2>2. CASE i \in incidents
    BY <2>1, <2>2 DEF Evidence
  <2>3. CASE i \notin incidents
    BY <2>1, <2>3, NewIncident
  <2>. QED
    BY <2>2, <2>3
<1>6. \A d \in Evidence : d \in Evidence'
  BY <1>2 DEF Evidence
<1>. QED
  BY <1>2, <1>4, <1>5, <1>6

\* The cursor moves to the last id of the batch. (tick: batch[-1].)
LEMMA CursorAtLast ==
  ASSUME TypeInv, Commit
  PROVE  /\ \A d \in batch : d.id <= cursor'
         /\ \E d \in batch : d.id = cursor'
         /\ cursor' \in 0 .. Len(detections)
<1>. DEFINE ids == {d.id : d \in batch}
<1>1. batch # {} /\ batch \in SUBSET Range(detections) /\ Table(detections)
  BY DEF TypeInv, TypeOK, Commit
<1>2. \A d \in batch : d.id \in 1 .. Len(detections)
  BY <1>1, TableRows
<1>3. Len(detections) \in Nat /\ ids \in SUBSET (0 .. Len(detections)) /\ ids # {}
  BY <1>1, <1>2, TableRows
<1>4. cursor' = Max(ids)
  BY DEF Commit, CursorAfter
<1>5. Max(ids) \in ids /\ \A x \in ids : x <= Max(ids)
  <2>. HIDE DEF ids
  <2>. QED
    BY <1>3, MaxOf
<1>. QED
  BY <1>3, <1>4, <1>5

LEMMA TypeNext == TypeInv /\ [Next]_vars => TypeInv'
<1>. SUFFICES ASSUME TypeInv, [Next]_vars PROVE TypeInv'
  OBVIOUS
<1>. USE DEF TypeInv, TypeOK
<1>1. /\ Table(detections') /\ now' \in Nat /\ Len(detections) <= Len(detections')
      /\ Range(detections) \subseteq Range(detections')
  BY TableStep
<1>2. Len(detections) \in Nat /\ Len(detections') \in Nat
  BY <1>1, TableRows
<1>3. CASE Clock \/ Detect \/ UNCHANGED vars
  <2>1. UNCHANGED <<incidents, llmCalls, cursor, pc, batch, crashes>> /\ now' \in 0 .. MaxTime
    BY <1>3, CorrelatorAssumption DEF Clock, Detect, vars
  <2>2. Evidence' = Evidence
    BY <2>1 DEF Evidence
  <2>3. cursor' \in 0 .. Len(detections')
    BY <1>1, <1>2, <2>1
  <2>. QED
    BY <1>1, <2>1, <2>2, <2>3
<1>4. CASE Fetch
  <2>1. PICK force \in Forced : batch' = FirstOf(Candidates(force))
    BY <1>4 DEF Fetch
  <2>2. batch' \subseteq Range(detections)
    BY <2>1 DEF FirstOf, Candidates
  <2>3. UNCHANGED <<now, detections, incidents, llmCalls, cursor, crashes>>
    BY <1>4 DEF Fetch
  <2>4. pc' \in {"idle", "open"} /\ (batch' # {} <=> pc' = "open")
    BY <1>4 DEF Fetch
  <2>5. Evidence' = Evidence
    BY <2>3 DEF Evidence
  <2>. QED
    BY <2>2, <2>3, <2>4, <2>5
<1>5. CASE Commit
  <2>1. UNCHANGED <<now, detections, crashes>> /\ pc' = "idle" /\ batch' = {}
    BY <1>5 DEF Commit
  <2>2. cursor' \in 0 .. Len(detections')
    BY <1>5, <2>1, CursorAtLast
  <2>3. Evidence' \subseteq Range(detections')
    BY <1>5, <2>1, BatchBecomesEvidence
  <2>4. \A i \in incidents' : i.risk \in RulesRisk(i.evidence) .. 100
    BY <1>5, NewIncident
  <2>5. llmCalls' \in Nat
    <3>1. Rows(batch)
      BY SomeRows
    <3>2. Cardinality(Clusters(batch)) \in Nat
      BY <3>1, ClustersDivide
    <3>3. llmCalls' = llmCalls + Cardinality(Clusters(batch))
      BY <1>5 DEF Commit
    <3>. QED
      BY <3>2, <3>3
  <2>. QED
    BY <1>1, <2>1, <2>2, <2>3, <2>4, <2>5
<1>6. CASE Crash
  <2>1. /\ UNCHANGED <<now, detections, incidents, llmCalls, cursor>>
        /\ pc' = "idle" /\ batch' = {} /\ crashes' \in 0 .. MaxCrashes
    BY <1>6, CorrelatorAssumption DEF Crash
  <2>2. Evidence' = Evidence
    BY <2>1 DEF Evidence
  <2>. QED
    BY <1>1, <2>1, <2>2
<1>. QED
  BY <1>3, <1>4, <1>5, <1>6 DEF Next

LEMMA TypeHolds == Spec => []TypeInv
<1>. QED
  BY TypeInit, TypeNext, PTL DEF Spec

\* Whatever the agent answers and the detection worker inserts, an incident's
\* risk is at least what the rules computed and at most 1, the cursor stays
\* within the table, and a tick is open exactly while it holds a batch. (tick;
\* _create_incident: max of the two risks.)
THEOREM TypesCorrect == Spec => []TypeOK
<1>1. TypeInv => TypeOK
  BY DEF TypeInv
<1>. QED
  BY <1>1, TypeHolds, PTL

\* Whatever rows are in the table, the walk over them in time order finds
\* exactly the chains of small gaps of each entity. (cluster_by_entity_and_time.)
THEOREM ClustersRightHolds == Spec => []ClustersRight
<1>1. TypeInv => ClustersRight
  BY TableRows, ClustersAreRight DEF TypeInv, ClustersRight
<1>. QED
  BY <1>1, TypeHolds, PTL

----------------------------------------------------------------------------
(* A detection is evidence once *)

\* The batch of an open tick lies beyond the cursor.
OnceInv == EvidenceOnce /\ \A d \in batch : d.id > cursor

LEMMA OnceNext == TypeInv /\ OnceInv /\ [Next]_vars => OnceInv'
<1>. SUFFICES ASSUME TypeInv, OnceInv, [Next]_vars PROVE OnceInv'
  OBVIOUS
<1>1. CASE Clock \/ Detect \/ UNCHANGED vars
  <2>1. UNCHANGED <<incidents, cursor, batch>>
    BY <1>1 DEF Clock, Detect, vars
  <2>. QED
    BY <2>1 DEF OnceInv, EvidenceOnce, Evidence
<1>2. CASE Fetch
  <2>1. UNCHANGED <<incidents, cursor>> /\ \A d \in batch' : d.id > cursor
    BY <1>2 DEF Fetch, FirstOf, Candidates
  <2>. QED
    BY <2>1 DEF OnceInv, EvidenceOnce, Evidence
<1>3. CASE Crash
  <2>1. UNCHANGED <<incidents, cursor>> /\ batch' = {}
    BY <1>3 DEF Crash
  <2>. QED
    BY <2>1 DEF OnceInv, EvidenceOnce, Evidence
<1>4. CASE Commit
  <2>1. /\ Rows(batch) /\ cursor \in Nat /\ cursor' \in Nat
        /\ \A d \in batch : d.id \in Nat
        /\ \A d \in Evidence : d.id \in Nat
    BY <1>4, SomeRows, TableRows, CursorAtLast DEF TypeInv, TypeOK
  <2>2. \A d \in Evidence' : d.id <= cursor'
    BY <1>4, <2>1, BatchBecomesEvidence, CursorAtLast DEF OnceInv, EvidenceOnce
  <2>3. ASSUME NEW i \in incidents', NEW j \in incidents', i # j
        PROVE  i.evidence \cap j.evidence = {}
    <3>1. ASSUME NEW k \in incidents, NEW l \in incidents' \ incidents
          PROVE  k.evidence \cap l.evidence = {}
      <4>1. \A d \in k.evidence : d \in Evidence /\ d.id <= cursor
        BY DEF OnceInv, EvidenceOnce, Evidence
      <4>2. \A d \in l.evidence : d \in batch /\ d.id > cursor
        BY <1>4, NewIncident DEF OnceInv
      <4>. QED
        BY <2>1, <4>1, <4>2
    <3>2. CASE i \in incidents /\ j \in incidents
      BY <2>3, <3>2 DEF OnceInv, EvidenceOnce
    <3>3. CASE i \notin incidents /\ j \notin incidents
      <4>1. PICK agent \in [Clusters(batch) -> Answers] :
              incidents' = incidents \cup {Incident(c, agent[c]) : c \in Clusters(batch)}
        BY <1>4 DEF Commit
      <4>2. PICK b \in Clusters(batch) : i = Incident(b, agent[b])
        BY <3>3, <4>1
      <4>3. PICK c \in Clusters(batch) : j = Incident(c, agent[c])
        BY <3>3, <4>1
      <4>4. b # c
        BY <2>3, <4>2, <4>3
      <4>5. i.evidence = b /\ j.evidence = c
        BY <4>2, <4>3 DEF Incident
      <4>. QED
        BY <2>1, <4>4, <4>5, ClustersDivide
    <3>. QED
      BY <3>1, <3>2, <3>3
  <2>4. batch' = {}
    BY <1>4 DEF Commit
  <2>. QED
    BY <2>2, <2>3, <2>4 DEF OnceInv, EvidenceOnce
<1>. QED
  BY <1>1, <1>2, <1>3, <1>4 DEF Next

\* Across crashes and overlapping inserts a detection is evidence of at most
\* one incident: the cursor commits with the incidents, the batch lies beyond
\* it, and the clusters of a batch divide it. (tick; cluster_by_entity_and_time.)
THEOREM EvidenceOnceHolds == Spec => []EvidenceOnce
<1>1. Init => OnceInv
  BY DEF Init, OnceInv, EvidenceOnce, Evidence
<1>2. Spec => []OnceInv
  BY <1>1, TypeHolds, OnceNext, PTL DEF Spec
<1>3. OnceInv => EvidenceOnce
  BY DEF OnceInv
<1>. QED
  BY <1>2, <1>3, PTL

----------------------------------------------------------------------------
(* What the watermark holds back *)

\* While ids follow times, what the cursor has passed is evidence, and the
\* batch of an open tick has every row between the cursor and its last.
HeldBackInv ==
  InOrder =>
    /\ HeldBackNotLost
    /\ \A b \in batch, d \in Range(detections) :
         cursor < d.id /\ d.id <= b.id => d \in batch

\* A batch is a prefix, by id, of the rows beyond the cursor. (_fetch.)
LEMMA FetchedPrefix ==
  ASSUME TypeInv, InOrder, NEW force \in Forced, NEW b \in FirstOf(Candidates(force)),
         NEW d \in Range(detections), cursor < d.id, d.id <= b.id
  PROVE  d \in FirstOf(Candidates(force))
<1>. DEFINE C == Candidates(force)
            Sooner(e) == {f \in C : f.id < e.id}
<1>1. Table(detections) /\ now \in Nat /\ C \in SUBSET Range(detections)
  BY DEF TypeInv, Candidates
<1>2. b \in C /\ Cardinality(Sooner(b)) < BatchSize
  BY DEF FirstOf
<1>3. b \in Range(detections) /\ (force \/ b.ts <= now - Window)
  BY <1>2 DEF Candidates
<1>a. /\ Len(detections) \in Nat /\ DOMAIN detections = 1 .. Len(detections)
      /\ \A e \in Range(detections) : e.id \in 1 .. Len(detections) /\ detections[e.id] = e
      /\ \A e \in Range(detections) : e.ts \in Nat
  <2>1. DOMAIN detections = 1 .. Len(detections)
    BY <1>1 DEF Table
  <2>2. \A e \in Range(detections) : e \in DetectionRow
    BY <1>1, TableRows
  <2>3. \A e \in Range(detections) : e.ts \in Nat
    BY <2>2 DEF DetectionRow
  <2>. QED
    BY <1>1, <2>1, <2>3, TableRows
<1>. HIDE DEF C
<1>4. d.ts <= b.ts
  <2>1. CASE d.id = b.id
    BY <1>3, <1>a, <2>1
  <2>2. CASE d.id < b.id
    BY <1>3, <1>a, <2>2 DEF InOrder
  <2>. QED
    BY <1>3, <1>a, <2>1, <2>2
<1>5. d \in C
  BY <1>1, <1>3, <1>a, <1>4, WindowAssumption DEF Candidates, C
<1>6. Sooner(d) \in SUBSET Sooner(b) /\ Sooner(b) \in SUBSET Range(detections)
  BY <1>1, <1>3, <1>a
<1>7. /\ IsFiniteSet(Sooner(b)) /\ IsFiniteSet(Sooner(d))
      /\ Cardinality(Sooner(d)) <= Cardinality(Sooner(b))
      /\ Cardinality(Sooner(d)) \in Nat /\ Cardinality(Sooner(b)) \in Nat
  <2>. HIDE DEF Sooner
  <2>1. IsFiniteSet(Range(detections))
    BY <1>1, TableRows
  <2>2. IsFiniteSet(Sooner(b))
    BY <1>6, <2>1, FS_Subset
  <2>3. IsFiniteSet(Sooner(d)) /\ Cardinality(Sooner(d)) <= Cardinality(Sooner(b))
    BY <1>6, <2>2, FS_Subset
  <2>. QED
    BY <2>2, <2>3, FS_CardinalityType
<1>8. Cardinality(Sooner(d)) < BatchSize
  <2>. HIDE DEF Sooner
  <2>. QED
    BY <1>2, <1>7, CorrelatorAssumption
<1>. QED
  BY <1>5, <1>8 DEF FirstOf, C

LEMMA HeldBackNext == TypeInv /\ OnceInv /\ HeldBackInv /\ [Next]_vars => HeldBackInv'
<1>. SUFFICES ASSUME TypeInv, OnceInv, HeldBackInv, [Next]_vars, InOrder'
              PROVE  /\ HeldBackNotLost'
                     /\ \A b \in batch', d \in Range(detections') :
                          cursor' < d.id /\ d.id <= b.id => d \in batch'
  BY DEF HeldBackInv
<1>1. /\ Table(detections) /\ Table(detections') /\ Len(detections) <= Len(detections')
      /\ \A i \in 1 .. Len(detections) : detections'[i] = detections[i]
      /\ Range(detections) \subseteq Range(detections')
      /\ Len(detections) \in Nat /\ Len(detections') \in Nat
  BY TableStep, TableRows DEF TypeInv
<1>2. /\ \A d \in Range(detections) : d.id \in 1 .. Len(detections) /\ detections[d.id] = d
      /\ \A d \in Range(detections') : d.id \in 1 .. Len(detections') /\ detections'[d.id] = d
      /\ \A i \in 1 .. Len(detections) : detections[i] \in Range(detections)
  BY <1>1, TableRows
<1>3. \A d \in Range(detections') : d.id <= Len(detections) => d \in Range(detections)
  BY <1>1, <1>2
<1>4. InOrder
  <2>1. DOMAIN detections = 1 .. Len(detections) /\ DOMAIN detections' = 1 .. Len(detections')
    BY <1>1 DEF Table
  <2>2. \A i, j \in 1 .. Len(detections') : i < j => detections'[i].ts <= detections'[j].ts
    BY <2>1 DEF InOrder
  <2>. QED
    BY <1>1, <2>1, <2>2 DEF InOrder
<1>5. /\ \A d \in Range(detections) : d.id <= cursor => d \in Evidence
      /\ \A b \in batch, d \in Range(detections) : cursor < d.id /\ d.id <= b.id => d \in batch
  BY <1>4 DEF HeldBackInv, HeldBackNotLost
<1>6. cursor \in 0 .. Len(detections) /\ batch \subseteq Range(detections)
  BY DEF TypeInv, TypeOK
<1>7. CASE Clock \/ Detect \/ UNCHANGED vars
  <2>1. UNCHANGED <<incidents, cursor, batch>>
    BY <1>7 DEF Clock, Detect, vars
  <2>2. \A d \in Range(detections') : d.id <= cursor => d \in Evidence
    BY <1>1, <1>2, <1>3, <1>5, <1>6
  <2>3. \A b \in batch, d \in Range(detections') : cursor < d.id /\ d.id <= b.id => d \in batch
    BY <1>1, <1>2, <1>3, <1>5, <1>6
  <2>. QED
    BY <2>1, <2>2, <2>3 DEF HeldBackNotLost, Evidence
<1>8. CASE Fetch
  <2>1. UNCHANGED <<detections, incidents, cursor>>
    BY <1>8 DEF Fetch
  <2>2. PICK force \in Forced : batch' = FirstOf(Candidates(force))
    BY <1>8 DEF Fetch
  <2>3. \A b \in batch', d \in Range(detections) : cursor < d.id /\ d.id <= b.id => d \in batch'
    BY <1>4, <2>2, FetchedPrefix
  <2>. QED
    BY <1>5, <2>1, <2>3 DEF HeldBackNotLost, Evidence
<1>9. CASE Commit
  <2>1. UNCHANGED detections /\ batch' = {}
    BY <1>9 DEF Commit
  <2>2. PICK b \in batch : b.id = cursor'
    BY <1>9, CursorAtLast
  <2>3. \A d \in Range(detections) : d.id <= cursor' => d.id <= cursor \/ d \in batch
    BY <1>2, <1>5, <1>6, <2>2
  <2>4. \A d \in Range(detections) : d.id <= cursor' => d \in Evidence'
    BY <1>5, <1>9, <2>3, BatchBecomesEvidence
  <2>. QED
    BY <2>1, <2>4 DEF HeldBackNotLost
<1>10. CASE Crash
  <2>1. UNCHANGED <<detections, incidents, cursor>> /\ batch' = {}
    BY <1>10 DEF Crash
  <2>. QED
    BY <1>5, <2>1 DEF HeldBackNotLost, Evidence
<1>. QED
  BY <1>7, <1>8, <1>9, <1>10 DEF Next

\* As long as ids follow event times the watermark loses nothing: a batch is
\* then a prefix of the rows beyond the cursor, so what the cursor passes is
\* evidence. (_fetch against tick.)
THEOREM HeldBackInOrderHolds == Spec => []HeldBackInOrder
<1>1. Init => OnceInv /\ HeldBackInv
  BY DEF Init, OnceInv, EvidenceOnce, Evidence, HeldBackInv, HeldBackNotLost, Range
<1>2. Spec => [](OnceInv /\ HeldBackInv)
  BY <1>1, TypeHolds, OnceNext, HeldBackNext, PTL DEF Spec
<1>3. HeldBackInv => HeldBackInOrder
  BY DEF HeldBackInv, HeldBackInOrder
<1>. QED
  BY <1>2, <1>3, PTL
=============================================================================
