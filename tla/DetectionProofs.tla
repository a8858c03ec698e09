--------------------------- MODULE DetectionProofs ---------------------------
(***************************************************************************)
(* What is proved of the detection worker, for every window, trigger and   *)
(* threshold, any events, normalizers, batch size, failures and crashes:   *)
(* metric states and detections are those the saved events define, and the *)
(* cursor leaves no committed event behind unseen.  In order: recursion    *)
(* and sums, arithmetic, the reference while flows are added, rolling the  *)
(* buckets, one event, a batch, a tick, the cursor.                        *)
(***************************************************************************)
EXTENDS DetectionProperties, FiniteSetTheorems, WellFoundedInduction, TLAPS

----------------------------------------------------------------------------
(* Recursion along a size *)

\* A set of naturals that is not empty has a least element.
LEMMA LeastOf ==
  ASSUME NEW S \in SUBSET Nat, S # {}
  PROVE  \E m \in S : \A x \in S : m <= x
<1>. DEFINE R == OpToRel(<, Nat)
<1>1. R = OpToRel(<, Nat)
  OBVIOUS
<1>. HIDE DEF R
<1>2. PICK m \in S : \A x \in S : <<x, m>> \notin R
  BY <1>1, WFMin, NatLessThanWellFounded
<1>3. \A x \in S : ~(x < m)
  BY <1>1, <1>2 DEF OpToRel
<1>. QED
  BY <1>3

\* Induction, over a set of naturals.
LEMMA NatSetInduction ==
  ASSUME NEW S \in SUBSET Nat, 0 \in S, \A k \in S : k + 1 \in S
  PROVE  S = Nat
<1>. SUFFICES ASSUME Nat \ S # {} PROVE FALSE
  OBVIOUS
<1>1. PICK k \in Nat \ S : \A x \in Nat \ S : k <= x
  <2>1. Nat \ S \in SUBSET Nat
    OBVIOUS
  <2>. QED
    BY <2>1, LeastOf
<1>2. k # 0 /\ k - 1 \in Nat
  BY <1>1
<1>3. k - 1 \in S
  BY <1>1, <1>2
<1>. QED
  BY <1>1, <1>3

\* What it takes to define a function into V by recursion along next.
Recursion(D, V, size, stop, next, base, step) ==
  /\ size \in [D -> Nat] /\ stop \in SUBSET D
  /\ next \in [D \ stop -> D] /\ base \in [stop -> V] /\ step \in [(D \ stop) \X V -> V]
  /\ \A d \in D \ stop : size[next[d]] < size[d]

\* The function, built from those on the elements below a size.
LEMMA RecursionExists ==
  ASSUME NEW D, NEW V, NEW size, NEW stop, NEW next, NEW base, NEW step,
         Recursion(D, V, size, stop, next, base, step)
  PROVE  \E f \in [D -> V] :
           \A d \in D : f[d] = IF d \in stop THEN base[d] ELSE step[<<d, f[next[d]]>>]
<1>. USE DEF Recursion
<1>. DEFINE Below(k) == {d \in D : size[d] < k}
            Sol(k, g) == /\ g \in [Below(k) -> V]
                         /\ \A d \in Below(k) :
                              g[d] = IF d \in stop THEN base[d] ELSE step[<<d, g[next[d]]>>]
            S == {k \in Nat : \E g : Sol(k, g)}
<1>1. 0 \in S
  <2>. DEFINE g == [d \in {} |-> d]
  <2>1. Below(0) = {}
    OBVIOUS
  <2>2. Sol(0, g)
    BY <2>1
  <2>. QED
    BY <2>2
<1>2. ASSUME NEW k \in S PROVE k + 1 \in S
  <2>1. PICK g : Sol(k, g)
    OBVIOUS
  <2>. DEFINE h == [d \in Below(k + 1) |-> IF d \in stop THEN base[d] ELSE step[<<d, g[next[d]]>>]]
  <2>2. ASSUME NEW d \in Below(k + 1), d \notin stop
        PROVE  next[d] \in Below(k) /\ next[d] \in Below(k + 1) /\ g[next[d]] \in V
    BY <2>1, <2>2
  <2>3. h \in [Below(k + 1) -> V]
    <3>. SUFFICES ASSUME NEW d \in Below(k + 1)
                  PROVE  (IF d \in stop THEN base[d] ELSE step[<<d, g[next[d]]>>]) \in V
      OBVIOUS
    <3>1. CASE d \in stop
      BY <3>1
    <3>2. CASE d \notin stop
      <4>1. <<d, g[next[d]]>> \in (D \ stop) \X V
        BY <2>2, <3>2
      <4>. QED
        BY <3>2, <4>1
    <3>. QED
      BY <3>1, <3>2
  <2>4. ASSUME NEW d \in Below(k) PROVE h[d] = g[d]
    BY <2>1
  <2>5. ASSUME NEW d \in Below(k + 1)
        PROVE  h[d] = IF d \in stop THEN base[d] ELSE step[<<d, h[next[d]]>>]
    <3>1. CASE d \in stop
      BY <3>1
    <3>2. CASE d \notin stop
      <4>1. h[next[d]] = g[next[d]]
        BY <2>2, <2>4, <3>2
      <4>. QED
        BY <3>2, <4>1
    <3>. QED
      BY <3>1, <3>2
  <2>6. Sol(k + 1, h)
    BY <2>3, <2>5
  <2>7. k + 1 \in Nat
    OBVIOUS
  <2>. HIDE DEF h, Sol
  <2>. QED
    BY <2>6, <2>7
<1>3. \A k \in Nat : \E g : Sol(k, g)
  <2>1. S \in SUBSET Nat
    OBVIOUS
  <2>. HIDE DEF S
  <2>2. S = Nat
    BY <1>1, <1>2, <2>1, NatSetInduction
  <2>. QED
    BY <2>2 DEF S
<1>. DEFINE G(k) == CHOOSE g : Sol(k, g)
<1>4. \A k \in Nat : Sol(k, G(k))
  BY <1>3
<1>. HIDE DEF S, G
<1>5. \A j, k \in Nat : \A d \in Below(j) \cap Below(k) : G(j)[d] = G(k)[d]
  <2>. SUFFICES ASSUME NEW j \in Nat, NEW k \in Nat
                PROVE  \A d \in Below(j) \cap Below(k) : G(j)[d] = G(k)[d]
    OBVIOUS
  <2>. DEFINE Bad == {d \in Below(j) \cap Below(k) : G(j)[d] # G(k)[d]}
              Sizes == {size[d] : d \in Bad}
  <2>1. SUFFICES ASSUME Bad # {} PROVE FALSE
    OBVIOUS
  <2>2. PICK m \in Sizes : \A x \in Sizes : m <= x
    <3>1. \A d \in Bad : size[d] \in Nat
      OBVIOUS
    <3>. HIDE DEF Bad
    <3>2. Sizes \in SUBSET Nat /\ Sizes # {}
      BY <2>1, <3>1
    <3>. HIDE DEF Sizes
    <3>. QED
      BY <3>2, LeastOf
  <2>3. PICK d \in Bad : m = size[d]
    OBVIOUS
  <2>4. Sol(j, G(j)) /\ Sol(k, G(k))
    BY <1>4
  <2>5. d \notin stop
    BY <2>3, <2>4
  <2>6. next[d] \in D /\ size[next[d]] < size[d]
    BY <2>3, <2>5
  <2>7. next[d] \in Below(j) /\ next[d] \in Below(k)
    BY <2>3, <2>6
  <2>8. next[d] \notin Bad
    <3>1. size[d] \in Nat /\ size[next[d]] \in Nat
      BY <2>3, <2>6
    <3>2. next[d] \in Bad => size[next[d]] \in Sizes
      OBVIOUS
    <3>. HIDE DEF Bad, Sizes
    <3>. QED
      BY <2>2, <2>3, <2>6, <3>1, <3>2
  <2>9. G(j)[next[d]] = G(k)[next[d]]
    BY <2>7, <2>8
  <2>. QED
    BY <2>3, <2>4, <2>5, <2>9
<1>. DEFINE f == [d \in D |-> G(size[d] + 1)[d]]
<1>6. ASSUME NEW d \in D
      PROVE  /\ size[d] + 1 \in Nat /\ d \in Below(size[d] + 1) /\ f[d] = G(size[d] + 1)[d]
             /\ f[d] \in V
  <2>1. size[d] + 1 \in Nat /\ d \in Below(size[d] + 1)
    OBVIOUS
  <2>2. Sol(size[d] + 1, G(size[d] + 1))
    BY <1>4, <2>1
  <2>. QED
    BY <2>1, <2>2
<1>7. ASSUME NEW d \in D
      PROVE  f[d] = IF d \in stop THEN base[d] ELSE step[<<d, f[next[d]]>>]
  <2>1. Sol(size[d] + 1, G(size[d] + 1))
    BY <1>4, <1>6
  <2>2. CASE d \in stop
    BY <1>6, <2>1, <2>2
  <2>3. CASE d \notin stop
    <3>1. next[d] \in D /\ size[next[d]] < size[d]
      BY <2>3
    <3>2. next[d] \in Below(size[d] + 1) /\ next[d] \in Below(size[next[d]] + 1)
      BY <3>1
    <3>3. f[next[d]] = G(size[d] + 1)[next[d]]
      BY <1>5, <1>6, <3>1, <3>2
    <3>. QED
      BY <1>6, <2>1, <2>3, <3>3
  <2>. QED
    BY <2>2, <2>3
<1>8. f \in [D -> V]
  BY <1>6
<1>. HIDE DEF f
<1>. QED
  BY <1>7, <1>8

\* It is the only one.
SameRecursion(D, size, stop, next, f, g) ==
  /\ size \in [D -> Nat] /\ stop \in SUBSET D /\ next \in [D \ stop -> D]
  /\ \A d \in D \ stop : size[next[d]] < size[d]
  /\ \A d \in stop : f[d] = g[d]
  /\ \A d \in D \ stop : f[next[d]] = g[next[d]] => f[d] = g[d]

LEMMA RecursionUnique ==
  ASSUME NEW D, NEW size, NEW stop, NEW next, NEW f, NEW g,
         SameRecursion(D, size, stop, next, f, g)
  PROVE  \A d \in D : f[d] = g[d]
<1>. USE DEF SameRecursion
<1>. DEFINE Bad == {d \in D : f[d] # g[d]}
            Sizes == {size[d] : d \in Bad}
<1>1. SUFFICES ASSUME Bad # {} PROVE FALSE
  OBVIOUS
<1>2. \A d \in Bad : d \in D \ stop /\ size[d] \in Nat /\ size[d] \in Sizes
  OBVIOUS
<1>3. PICK m \in Sizes : \A x \in Sizes : m <= x
  <2>. HIDE DEF Bad
  <2>1. Sizes \in SUBSET Nat /\ Sizes # {}
    BY <1>1, <1>2
  <2>. HIDE DEF Sizes
  <2>. QED
    BY <2>1, LeastOf
<1>4. PICK d \in Bad : m = size[d]
  OBVIOUS
<1>5. next[d] \in D /\ size[next[d]] < size[d] /\ size[next[d]] \in Nat /\ size[d] \in Nat
  BY <1>2, <1>4
<1>6. next[d] \in Bad
  BY <1>2, <1>4, <1>5
<1>7. size[next[d]] \in Sizes
  BY <1>2, <1>6
<1>. HIDE DEF Bad, Sizes
<1>. QED
  BY <1>3, <1>4, <1>5, <1>7

----------------------------------------------------------------------------
(* Sums over a history *)

Sums(h, f) ==
  /\ f \in [SUBSET DOMAIN h -> Int]
  /\ \A s \in SUBSET DOMAIN h :
       f[s] = IF s = {} THEN 0 ELSE h[CHOOSE x \in s : TRUE] + f[s \ {CHOOSE x \in s : TRUE}]

Summable(h) == IsFiniteSet(DOMAIN h) /\ \A c \in DOMAIN h : h[c] \in Int

\* The fold of Total is such a sum.
LEMMA TotalSums ==
  ASSUME NEW h, Summable(h)
  PROVE  \E f : Sums(h, f) /\ Total(h) = f[DOMAIN h]
<1>. DEFINE D == SUBSET DOMAIN h
            size == [s \in D |-> Cardinality(s)]
            stop == {{}}
            pick(s) == CHOOSE x \in s : TRUE
            next == [s \in D \ stop |-> s \ {pick(s)}]
            base == [s \in stop |-> 0]
            step == [p \in (D \ stop) \X Int |-> h[pick(p[1])] + p[2]]
<1>1. IsFiniteSet(DOMAIN h) /\ \A c \in DOMAIN h : h[c] \in Int
  BY DEF Summable
<1>2. \A s \in D : IsFiniteSet(s) /\ Cardinality(s) \in Nat
  BY <1>1, FS_Subset, FS_CardinalityType
<1>3. size \in [D -> Nat]
  BY <1>2
<1>4. \A s \in D \ stop : pick(s) \in s
  OBVIOUS
<1>5. next \in [D \ stop -> D] /\ stop \in SUBSET D /\ base \in [stop -> Int]
  OBVIOUS
<1>6. step \in [(D \ stop) \X Int -> Int]
  <2>1. \A p \in (D \ stop) \X Int : h[pick(p[1])] \in Int /\ p[2] \in Int
    BY <1>1, <1>4
  <2>. HIDE DEF pick
  <2>. QED
    BY <2>1
<1>7. ASSUME NEW s \in D \ stop PROVE size[next[s]] < size[s]
  <2>. DEFINE x == pick(s)
              t == s \ {x}
  <2>1. x \in s /\ t \in D /\ s \in D /\ next[s] = t
    BY <1>4
  <2>. HIDE DEF x
  <2>2. Cardinality(t) = Cardinality(s) - 1
    BY <1>2, <2>1, FS_RemoveElement
  <2>3. size[s] = Cardinality(s) /\ size[t] = Cardinality(t)
    BY <2>1
  <2>4. Cardinality(s) \in Nat
    BY <1>2
  <2>. HIDE DEF D, size, next, t
  <2>. QED
    BY <2>1, <2>2, <2>3, <2>4
<1>a. \A s \in D \ stop : size[next[s]] < size[s]
  BY <1>7
<1>8. PICK f \in [D -> Int] :
        \A s \in D : f[s] = IF s \in stop THEN base[s] ELSE step[<<s, f[next[s]]>>]
  <2>. HIDE DEF D, size, stop, next, base, step
  <2>1. Recursion(D, Int, size, stop, next, base, step)
    BY <1>3, <1>5, <1>6, <1>a DEF Recursion
  <2>. QED
    BY <2>1, RecursionExists
<1>9. ASSUME NEW s \in D
      PROVE  f[s] = IF s = {} THEN 0 ELSE h[pick(s)] + f[s \ {pick(s)}]
  <2>1. CASE s = {}
    BY <1>8, <2>1
  <2>2. CASE s # {}
    <3>1. s \in D \ stop /\ next[s] = s \ {pick(s)} /\ next[s] \in D
      BY <2>2
    <3>. HIDE DEF pick, next
    <3>2. step[<<s, f[next[s]]>>] = h[pick(s)] + f[next[s]]
      BY <1>8, <3>1
    <3>. QED
      BY <1>8, <3>1, <3>2
  <2>. QED
    BY <2>1, <2>2
<1>. DEFINE Rule(g) == g = [s \in SUBSET DOMAIN h |->
              IF s = {} THEN 0 ELSE h[CHOOSE x \in s : TRUE] + g[s \ {CHOOSE x \in s : TRUE}]]
<1>10. Rule(f)
  BY <1>8, <1>9
<1>11. \E g : Rule(g) /\ Total(h) = g[DOMAIN h]
  BY <1>10 DEF Total, MapThenSumSet, MapThenFoldSet
<1>12. PICK g : Rule(g) /\ Total(h) = g[DOMAIN h]
  BY <1>11
<1>13. \A s \in D : f[s] = g[s]
  <2>1. \A s \in stop : f[s] = g[s]
    BY <1>9, <1>12
  <2>2. \A s \in D \ stop : f[next[s]] = g[next[s]] => f[s] = g[s]
    <3>. SUFFICES ASSUME NEW s \in D \ stop, f[next[s]] = g[next[s]] PROVE f[s] = g[s]
      OBVIOUS
    <3>1. next[s] = s \ {pick(s)}
      OBVIOUS
    <3>2. g[s] = h[pick(s)] + g[s \ {pick(s)}]
      BY <1>12
    <3>. HIDE DEF pick, next
    <3>. QED
      BY <1>9, <3>1, <3>2
  <2>. HIDE DEF D, size, stop, next, Rule
  <2>3. SameRecursion(D, size, stop, next, f, g)
    BY <1>3, <1>5, <1>a, <2>1, <2>2 DEF SameRecursion
  <2>. QED
    BY <2>3, RecursionUnique
<1>14. DOMAIN h \in D
  OBVIOUS
<1>15. Sums(h, f)
  BY <1>8, <1>9 DEF Sums
<1>16. Total(h) = f[DOMAIN h]
  BY <1>12, <1>13, <1>14
<1>. QED
  BY <1>15, <1>16

\* Which element is taken first does not matter.
LEMMA SumStep ==
  ASSUME NEW h, Summable(h), NEW f, Sums(h, f), NEW s \in SUBSET DOMAIN h, NEW x \in s
  PROVE  f[s] = h[x] + f[s \ {x}]
<1>. DEFINE D == SUBSET DOMAIN h
            pick(t) == CHOOSE y \in t : TRUE
            N == {n \in Nat : \A t \in D : Cardinality(t) = n =>
                    \A y \in t : f[t] = h[y] + f[t \ {y}]}
<1>1. \A t \in D : IsFiniteSet(t) /\ Cardinality(t) \in Nat
  BY FS_Subset, FS_CardinalityType DEF Summable
<1>2. f \in [D -> Int] /\ \A y \in DOMAIN h : h[y] \in Int
  BY DEF Sums, Summable
<1>3. \A t \in D : t # {} => f[t] = h[pick(t)] + f[t \ {pick(t)}] /\ pick(t) \in t
  BY DEF Sums
<1>. HIDE DEF pick
<1>4. 0 \in N
  <2>1. \A t \in D : Cardinality(t) = 0 => t = {}
    BY <1>1, FS_EmptySet
  <2>. QED
    BY <2>1
<1>5. ASSUME NEW n \in N PROVE n + 1 \in N
  <2>. SUFFICES ASSUME NEW t \in D, Cardinality(t) = n + 1, NEW y \in t
                PROVE  f[t] = h[y] + f[t \ {y}]
    OBVIOUS
  <2>. DEFINE z == pick(t)
  <2>1. z \in t /\ f[t] = h[z] + f[t \ {z}]
    BY <1>3
  <2>. HIDE DEF z
  <2>2. CASE y = z
    BY <2>1, <2>2
  <2>3. CASE y # z
    <3>1. ASSUME NEW v \in t PROVE t \ {v} \in D /\ Cardinality(t \ {v}) = n
      <4>1. Cardinality(t \ {v}) = Cardinality(t) - 1
        BY <1>1, FS_RemoveElement
      <4>. QED
        BY <4>1
    <3>2. f[t \ {z}] = h[y] + f[(t \ {z}) \ {y}]
      BY <2>1, <2>3, <3>1
    <3>3. f[t \ {y}] = h[z] + f[(t \ {y}) \ {z}]
      BY <2>1, <2>3, <3>1
    <3>4. (t \ {z}) \ {y} = (t \ {y}) \ {z}
      OBVIOUS
    <3>5. (t \ {z}) \ {y} \in D
      OBVIOUS
    <3>6. f[(t \ {z}) \ {y}] \in Int /\ h[y] \in Int /\ h[z] \in Int
      BY <1>2, <2>1, <3>5
    <3>7. f[t \ {y}] = h[z] + f[(t \ {z}) \ {y}]
      BY <3>3, <3>4
    <3>8. f[t] = h[z] + f[t \ {z}]
      BY <2>1
    <3>. QED
      BY ONLY <3>2, <3>6, <3>7, <3>8
  <2>. QED
    BY <2>2, <2>3
<1>6. N = Nat
  <2>1. N \in SUBSET Nat
    OBVIOUS
  <2>. HIDE DEF N
  <2>. QED
    BY <1>4, <1>5, <2>1, NatSetInduction
<1>7. Cardinality(s) \in N
  BY <1>1, <1>6
<1>. QED
  BY <1>7

LEMMA TotalEmpty ==
  ASSUME NEW h, DOMAIN h = {}
  PROVE  Total(h) = 0
<1>1. Summable(h)
  BY FS_EmptySet DEF Summable
<1>2. PICK f : Sums(h, f) /\ Total(h) = f[DOMAIN h]
  BY <1>1, TotalSums
<1>. QED
  BY <1>2 DEF Sums

LEMMA TotalInt ==
  ASSUME NEW h, Summable(h)
  PROVE  Total(h) \in Int
<1>1. PICK f : Sums(h, f) /\ Total(h) = f[DOMAIN h]
  BY TotalSums
<1>. QED
  BY <1>1 DEF Sums

\* One more bucket adds its value.
LEMMA TotalExtend ==
  ASSUME NEW g, NEW h, NEW c, Summable(g), c \notin DOMAIN g,
         DOMAIN h = DOMAIN g \cup {c}, h[c] \in Int, \A x \in DOMAIN g : h[x] = g[x]
  PROVE  /\ Summable(h) /\ Total(h) = Total(g) + h[c]
         /\ Total(g) \in Int /\ Cardinality(DOMAIN g) \in Nat
         /\ Cardinality(DOMAIN h) = Cardinality(DOMAIN g) + 1
<1>1. /\ IsFiniteSet(DOMAIN h) /\ Cardinality(DOMAIN g) \in Nat
      /\ Cardinality(DOMAIN h) = Cardinality(DOMAIN g) + 1
  BY FS_AddElement, FS_CardinalityType DEF Summable
<1>2. Summable(h)
  BY <1>1 DEF Summable
<1>3. PICK e : Sums(g, e) /\ Total(g) = e[DOMAIN g]
  BY TotalSums
<1>4. PICK f : Sums(h, f) /\ Total(h) = f[DOMAIN h]
  BY <1>2, TotalSums
<1>5. f[DOMAIN h] = h[c] + f[DOMAIN g]
  <2>1. c \in DOMAIN h /\ DOMAIN h \ {c} = DOMAIN g /\ DOMAIN h \in SUBSET DOMAIN h
    OBVIOUS
  <2>2. f[DOMAIN h] = h[c] + f[DOMAIN h \ {c}]
    BY <1>2, <1>4, <2>1, SumStep
  <2>. QED
    BY <2>1, <2>2
<1>6. \A s \in SUBSET DOMAIN g : e[s] = f[s]
  <2>. DEFINE D == SUBSET DOMAIN g
              pick(s) == CHOOSE y \in s : TRUE
              size == [s \in D |-> Cardinality(s)]
              stop == {{}}
              next == [s \in D \ stop |-> s \ {pick(s)}]
  <2>1. \A s \in D : IsFiniteSet(s) /\ Cardinality(s) \in Nat
    BY FS_Subset, FS_CardinalityType DEF Summable
  <2>2. \A s \in D \ stop : pick(s) \in s /\ s \ {pick(s)} \in D /\ next[s] = s \ {pick(s)}
    OBVIOUS
  <2>3. \A s \in D \ stop : size[next[s]] < size[s]
    <3>. SUFFICES ASSUME NEW s \in D \ stop PROVE size[next[s]] < size[s]
      OBVIOUS
    <3>. DEFINE y == pick(s)
    <3>1. y \in s /\ next[s] = s \ {y} /\ s \ {y} \in D /\ s \in D
      BY <2>2
    <3>. HIDE DEF y
    <3>2. Cardinality(s \ {y}) = Cardinality(s) - 1
      BY <2>1, <3>1, FS_RemoveElement
    <3>3. Cardinality(s) \in Nat /\ size[s] = Cardinality(s) /\ size[s \ {y}] = Cardinality(s \ {y})
      BY <2>1, <3>1
    <3>. HIDE DEF size, next, D
    <3>. QED
      BY <3>1, <3>2, <3>3
  <2>4. \A s \in stop : e[s] = f[s]
    BY <1>3, <1>4 DEF Sums
  <2>5. \A s \in D \ stop : e[next[s]] = f[next[s]] => e[s] = f[s]
    <3>. SUFFICES ASSUME NEW s \in D \ stop, e[next[s]] = f[next[s]] PROVE e[s] = f[s]
      OBVIOUS
    <3>1. s \in SUBSET DOMAIN g /\ s \in SUBSET DOMAIN h /\ s # {}
      OBVIOUS
    <3>2. e[s] = g[pick(s)] + e[s \ {pick(s)}]
      BY <1>3, <3>1 DEF Sums
    <3>3. f[s] = h[pick(s)] + f[s \ {pick(s)}]
      BY <1>4, <3>1 DEF Sums
    <3>4. g[pick(s)] = h[pick(s)]
      BY <2>2
    <3>. HIDE DEF pick
    <3>. QED
      BY <2>2, <3>2, <3>3, <3>4
  <2>6. size \in [D -> Nat] /\ stop \in SUBSET D /\ next \in [D \ stop -> D]
    BY <2>1, <2>2
  <2>. HIDE DEF D, size, stop, next
  <2>7. SameRecursion(D, size, stop, next, e, f)
    BY <2>3, <2>4, <2>5, <2>6 DEF SameRecursion
  <2>8. \A s \in D : e[s] = f[s]
    BY <2>7, RecursionUnique
  <2>. QED
    BY <2>8 DEF D
<1>7. e[DOMAIN g] = f[DOMAIN g] /\ e[DOMAIN g] \in Int
  BY <1>3, <1>6 DEF Sums
<1>. QED
  BY <1>1, <1>2, <1>3, <1>4, <1>5, <1>7

----------------------------------------------------------------------------
(* Arithmetic of windows and of variance *)

\* Quotient and remainder are unique.
LEMMA Quotient ==
  ASSUME NEW w \in Nat \ {0}, NEW q \in Int, NEW p \in Int,
         NEW r \in 0 .. w - 1, NEW t \in 0 .. w - 1, w * q + r = w * p + t
  PROVE  r = t
<1>1. ASSUME NEW x \in Int, NEW y \in Int, NEW u \in 0 .. w - 1, NEW v \in 0 .. w - 1,
             x < y, w * x + u = w * y + v
      PROVE  FALSE
  <2>1. w * (y - x) >= w
    <3>1. PICK d \in Nat : y - x = d + 1
      BY <1>1
    <3>2. w * d \in Nat
      OBVIOUS
    <3>3. w * (d + 1) = w * d + w
      OBVIOUS
    <3>. QED
      BY <3>1, <3>2, <3>3
  <2>2. w * (y - x) = w * y - w * x
    OBVIOUS
  <2>3. w * x \in Int /\ w * y \in Int
    OBVIOUS
  <2>. QED
    BY <1>1, <2>1, <2>2, <2>3
<1>2. ~(q < p) /\ ~(p < q)
  BY <1>1
<1>. QED
  BY <1>2

LEMMA Remainder ==
  ASSUME NEW w \in Nat \ {0}, NEW q \in Int, NEW r \in 0 .. w - 1, w * q + r \in Nat
  PROVE  (w * q + r) % w = r
<1>. DEFINE a == w * q + r
<1>1. a = w * (a \div w) + (a % w) /\ a % w \in 0 .. w - 1 /\ a \div w \in Int
  <2>. HIDE DEF a
  <2>. QED
    BY DEF a
<1>. QED
  BY <1>1, Quotient

\* The multiple of w below a, as BucketStart takes it. (bucket_start_for.)
LEMMA Aligned ==
  ASSUME NEW w \in Nat \ {0}, NEW a \in Nat
  PROVE  /\ a % w \in 0 .. w - 1 /\ a - (a % w) \in Nat /\ a - (a % w) <= a /\ a < a - (a % w) + w
         /\ (a - (a % w)) % w = 0
         /\ a % w = 0 => (a + w) % w = 0
         /\ \A b \in Nat : b % w = 0 /\ b <= a /\ a < b + w => b = a - (a % w)
<1>. DEFINE q == a \div w
            r == a % w
<1>1. a = w * q + r /\ r \in 0 .. w - 1 /\ q \in Int
  OBVIOUS
<1>2. w * q \in Nat
  <2>1. q \in Nat
    OBVIOUS
  <2>. QED
    BY <2>1
<1>3. (w * q + 0) % w = 0
  <2>1. w * q + 0 \in Nat /\ 0 \in 0 .. w - 1
    BY <1>2
  <2>. HIDE DEF q
  <2>. QED
    BY <1>1, <2>1, Remainder
<1>4. ASSUME r = 0 PROVE (a + w) % w = 0
  <2>1. a + w = w * (q + 1) + 0
    BY <1>1, <1>4
  <2>2. (w * (q + 1) + 0) % w = 0
    BY <1>1, <2>1, Remainder
  <2>. QED
    BY <2>1, <2>2
<1>5. ASSUME NEW b \in Nat, b % w = 0, b <= a, a < b + w PROVE b = a - r
  <2>. DEFINE p == b \div w
  <2>1. b = w * p /\ p \in Int
    BY <1>5
  <2>2. a = w * p + (a - b) /\ a - b \in 0 .. w - 1
    BY <1>5, <2>1
  <2>. HIDE DEF p, q, r
  <2>3. w * q + r = w * p + (a - b)
    BY <1>1, <2>2
  <2>4. r = a - b
    BY <1>1, <2>1, <2>2, <2>3, Quotient
  <2>. QED
    BY <1>1, <1>5, <2>4
<1>6. a - r = w * q
  BY <1>1, <1>2
<1>. HIDE DEF q
<1>. QED
  BY <1>1, <1>2, <1>3, <1>4, <1>5, <1>6

\* A step of the recurrence, for n values with sum S and sum of squares Q, is
\* what the definition of variance gives for n + 1. (update_welford.)
LEMMA Welford ==
  ASSUME NEW n \in Nat \ {0}, NEW v \in Int, NEW S \in Int, NEW Q \in Int
  PROVE  ((n + 1) * (n * Q - S * S) + (n * v - S) * (n * v - S)) \div n
           = (n + 1) * (Q + v * v) - (S + v) * (S + v)
<1>. DEFINE k == (n + 1) * (Q + v * v) - (S + v) * (S + v)
            a == (n + 1) * (n * Q - S * S) + (n * v - S) * (n * v - S)
<1>1. a = n * k
  OBVIOUS
<1>2. k \in Int
  OBVIOUS
<1>. HIDE DEF k, a
<1>3. (n * k) \div n = k
  BY <1>2
<1>. QED
  BY <1>1, <1>3 DEF k, a

----------------------------------------------------------------------------
(* The reference, while flows are added *)

\* Flows with ids of their own.
FlowSet(F) ==
  /\ F \in SUBSET Flow /\ IsFiniteSet(F)
  /\ \A f, g \in F : f.id = g.id => f = g

\* G has the flows of F and later ones.
Extends(F, G) == F \in SUBSET G /\ \A f \in F, g \in G \ F : f.id < g.id

LEMMA BucketFacts ==
  ASSUME NEW f \in Flow
  PROVE  /\ f.id \in Nat /\ f.ts \in Nat /\ f.port \in Nat /\ Bucket(f) = BucketStart(f.ts)
         /\ Bucket(f) \in Nat /\ Bucket(f) % Window = 0
         /\ Bucket(f) <= f.ts /\ f.ts < Bucket(f) + Window
         /\ \A b \in Nat : b % Window = 0 /\ b <= f.ts /\ f.ts < b + Window => b = Bucket(f)
<1>1. Window \in Nat \ {0}
  BY DetectorsAssumption
<1>2. f.id \in Nat /\ f.ts \in Nat /\ f.port \in Nat
  BY DEF Flow
<1>. QED
  BY <1>1, <1>2, Aligned DEF Bucket, BucketStart

LEMMA OnTimeStable ==
  ASSUME NEW F, NEW G, FlowSet(G), Extends(F, G)
  PROVE  /\ FlowSet(F)
         /\ \A f \in F : f \in OnTime(F) <=> f \in OnTime(G)
         /\ \A f \in F, g \in OnTime(G) \ F : Bucket(f) <= Bucket(g)
<1>1. G \in SUBSET Flow /\ F \in SUBSET G /\ IsFiniteSet(F)
  BY FS_Subset DEF FlowSet, Extends
<1>2. \A g \in G : g.id \in Nat /\ Bucket(g) \in Nat
  BY <1>1, BucketFacts
<1>3. \A f \in F, g \in G : g.id <= f.id => g \in F
  BY <1>1, <1>2 DEF Extends
<1>4. \A f \in F : f \in OnTime(F) <=> f \in OnTime(G)
  BY <1>1, <1>2, <1>3 DEF OnTime
<1>5. \A f \in F, g \in OnTime(G) \ F : Bucket(f) <= Bucket(g)
  BY <1>1 DEF OnTime, Extends
<1>. QED
  BY <1>1, <1>4, <1>5 DEF FlowSet

\* What is closed stays as it is.
LEMMA HistoryStable ==
  ASSUME NEW F, NEW G, FlowSet(G), Extends(F, G), NEW d, NEW f \in F, NEW b \in Nat, b <= Bucket(f)
  PROVE  History(d, F, b) = History(d, G, b)
<1>1. F \in SUBSET G /\ G \in SUBSET Flow
  BY DEF FlowSet, Extends
<1>2. \A g \in G : Bucket(g) \in Nat
  BY <1>1, BucketFacts
<1>3. ASSUME NEW g \in OnTime(G), Bucket(g) < b PROVE g \in OnTime(F)
  <2>1. g \in G
    BY DEF OnTime
  <2>2. g \in F
    <3>1. g \notin F => Bucket(f) <= Bucket(g)
      BY OnTimeStable
    <3>. QED
      BY <1>1, <1>2, <1>3, <2>1, <3>1
  <2>. QED
    BY <2>2, OnTimeStable
<1>4. \A g \in OnTime(F) : g \in OnTime(G) /\ Bucket(g) \in Nat
  BY <1>1, <1>2, OnTimeStable DEF OnTime
<1>5. \A g \in OnTime(G) : Bucket(g) \in Nat
  BY <1>2 DEF OnTime
<1>6. ASSUME NEW c \in 0 .. b - 1 PROVE InBucket(F, c) = InBucket(G, c)
  BY <1>3, <1>4, <1>5 DEF InBucket
<1>7. Closed(F, b) = Closed(G, b)
  <2>1. ASSUME NEW c \in 0 .. b - 1
        PROVE  (\E g \in OnTime(F) : Bucket(g) <= c) <=> (\E g \in OnTime(G) : Bucket(g) <= c)
    BY <1>3, <1>4, <1>5
  <2>. QED
    BY <2>1 DEF Closed
<1>8. \A c \in Closed(F, b) : ValueOf(d, InBucket(F, c)) = ValueOf(d, InBucket(G, c))
  BY <1>6 DEF Closed
<1>. QED
  BY <1>7, <1>8 DEF History

LEMMA AnomalousStable ==
  ASSUME NEW F, NEW G, FlowSet(G), Extends(F, G), NEW d, NEW f \in F
  PROVE  /\ Anomalous(d, F, f) <=> Anomalous(d, G, f)
         /\ FirstAnomalous(d, F, f) <=> FirstAnomalous(d, G, f)
<1>1. F \in SUBSET G /\ G \in SUBSET Flow
  BY DEF FlowSet, Extends
<1>2. \A g \in G : g.id \in Nat /\ Bucket(g) \in Nat
  BY <1>1, BucketFacts
<1>3. ASSUME NEW e \in F
      PROVE  {g \in InBucket(F, Bucket(e)) : g.id <= e.id} = {g \in InBucket(G, Bucket(e)) : g.id <= e.id}
  <2>1. \A g \in G : g.id <= e.id => g \in F
    BY <1>1, <1>2 DEF Extends
  <2>2. \A g \in F : g \in InBucket(F, Bucket(e)) <=> g \in InBucket(G, Bucket(e))
    BY OnTimeStable DEF InBucket
  <2>3. \A g \in InBucket(F, Bucket(e)) : g \in F
    BY DEF InBucket, OnTime
  <2>4. \A g \in InBucket(G, Bucket(e)) : g \in G
    BY DEF InBucket, OnTime
  <2>. QED
    BY <2>1, <2>2, <2>3, <2>4
<1>4. ASSUME NEW e \in F PROVE History(d, F, Bucket(e)) = History(d, G, Bucket(e))
  BY <1>1, <1>2, HistoryStable
<1>5. ASSUME NEW e \in F PROVE Anomalous(d, F, e) <=> Anomalous(d, G, e)
  <2>1. e \in OnTime(F) <=> e \in OnTime(G)
    BY OnTimeStable
  <2>2. {g \in InBucket(F, Bucket(e)) : g.id <= e.id} = {g \in InBucket(G, Bucket(e)) : g.id <= e.id}
    BY <1>3
  <2>3. History(d, F, Bucket(e)) = History(d, G, Bucket(e))
    BY <1>4
  <2>. QED
    BY <2>1, <2>2, <2>3 DEF Anomalous
<1>6. ASSUME NEW g, g.id < f.id
      PROVE  g \in InBucket(F, Bucket(f)) <=> g \in InBucket(G, Bucket(f))
  <2>1. g \in G => g \in F
    BY <1>1, <1>2, <1>6 DEF Extends
  <2>. QED
    BY <1>1, <2>1, OnTimeStable DEF InBucket, OnTime
<1>7. \A g \in InBucket(F, Bucket(f)) : g \in F
  BY DEF InBucket, OnTime
<1>8. FirstAnomalous(d, F, f) <=> FirstAnomalous(d, G, f)
  BY <1>5, <1>6, <1>7 DEF FirstAnomalous
<1>. QED
  BY <1>5, <1>8

----------------------------------------------------------------------------
(* A state that tells the flows *)

PortsOf(d, G) == IF d = "rate_deviation" THEN {} ELSE {g.port : g \in G}

\* s is the state of F with bucket b live.
Has(d, F, s, b) ==
  /\ s \in MetricState /\ IsFiniteSet(s.ports) /\ s.start = b
  /\ s.value = ValueOf(d, InBucket(F, b)) /\ s.ports = PortsOf(d, InBucket(F, b))
  /\ s.n = Size(History(d, F, b)) /\ s.sum = Total(History(d, F, b))
  /\ s.dev = Deviation(History(d, F, b))
  /\ s.fired <=> \E f \in InBucket(F, b) : Anomalous(d, F, f)

\* No flow is beyond bucket b, and some, on time, is in it or before.
Reaches(F, b) ==
  /\ b \in Nat /\ b % Window = 0
  /\ \A f \in F : Bucket(f) <= b
  /\ \E f \in OnTime(F) : Bucket(f) <= b

\* A finite set of flows has as many values and ports as it can have.
LEMMA ValueType ==
  ASSUME NEW F, FlowSet(F), NEW d, NEW G \in SUBSET F
  PROVE  IsFiniteSet(G) /\ IsFiniteSet({g.port : g \in G}) /\ ValueOf(d, G) \in Nat
<1>1. IsFiniteSet(G)
  BY FS_Subset DEF FlowSet
<1>2. IsFiniteSet({g.port : g \in G})
  <2>. DEFINE P == {g.port : g \in G}
              f == [g \in G |-> g.port]
  <2>1. f \in [G -> P] /\ \A p \in P : \E g \in G : f[g] = p
    OBVIOUS
  <2>. HIDE DEF f, P
  <2>2. f \in Surjection(G, P)
    BY <2>1 DEF Surjection, Range
  <2>3. IsFiniteSet(P)
    BY <1>1, <2>2, FS_Surjection
  <2>. QED
    BY <2>3 DEF P
<1>3. Cardinality(G) \in Nat /\ Cardinality({g.port : g \in G}) \in Nat
  BY <1>1, <1>2, FS_CardinalityType
<1>. QED
  BY <1>1, <1>2, <1>3 DEF ValueOf

LEMMA HistoryType ==
  ASSUME NEW F, FlowSet(F), NEW d, NEW b \in Nat
  PROVE  /\ Summable(History(d, F, b)) /\ Size(History(d, F, b)) \in Nat
         /\ DOMAIN History(d, F, b) = Closed(F, b)
         /\ \A c \in Closed(F, b) : History(d, F, b)[c] = ValueOf(d, InBucket(F, c)) /\ c \in 0 .. b - 1
         /\ \A c \in Closed(F, b) : History(d, F, b)[c] \in Nat
<1>1. DOMAIN History(d, F, b) = Closed(F, b)
      /\ \A c \in Closed(F, b) : History(d, F, b)[c] = ValueOf(d, InBucket(F, c))
  BY DEF History
<1>2. Closed(F, b) \in SUBSET (0 .. b - 1)
  BY DEF Closed
<1>3. IsFiniteSet(Closed(F, b))
  <2>1. IsFiniteSet(0 .. b - 1)
    BY FS_Interval
  <2>. QED
    BY <1>2, <2>1, FS_Subset
<1>4. \A c : ValueOf(d, InBucket(F, c)) \in Nat
  <2>1. \A c : InBucket(F, c) \in SUBSET F
    BY DEF InBucket, OnTime
  <2>. QED
    BY <2>1, ValueType
<1>5. Cardinality(Closed(F, b)) \in Nat
  BY <1>3, FS_CardinalityType
<1>6. \A c \in Closed(F, b) : c \in 0 .. b - 1
  BY <1>2
<1>. QED
  BY <1>1, <1>3, <1>4, <1>5, <1>6 DEF Summable, Size

\* A closed bucket is one more of the history. (roll_buckets.)
LEMMA HistoryGrows ==
  ASSUME NEW F, FlowSet(F), NEW d, NEW b, Reaches(F, b)
  PROVE  LET g == History(d, F, b)
             h == History(d, F, b + Window)
             v == ValueOf(d, InBucket(F, b))
         IN /\ Size(h) = Size(g) + 1 /\ Total(h) = Total(g) + v
            /\ Deviation(h) =
                 IF Size(g) = 0 THEN 0
                 ELSE ((Size(g) + 1) * Deviation(g)
                        + (Size(g) * v - Total(g)) * (Size(g) * v - Total(g))) \div Size(g)
<1>. DEFINE g == History(d, F, b)
            h == History(d, F, b + Window)
            v == ValueOf(d, InBucket(F, b))
<1>1. b \in Nat /\ b % Window = 0 /\ Window \in Nat \ {0} /\ b + Window \in Nat
  BY DetectorsAssumption DEF Reaches
<1>2. Closed(F, b + Window) = Closed(F, b) \cup {b} /\ b \notin Closed(F, b)
  <2>1. ASSUME NEW c \in b .. (b + Window - 1), c % Window = 0 PROVE c = b
    <3>1. c \in Nat /\ b <= c /\ c < b + Window
      BY <1>1
    <3>2. b = c - (c % Window)
      BY <1>1, <3>1, Aligned
    <3>. QED
      BY <1>1, <2>1, <3>2
  <2>2. \E f \in OnTime(F) : Bucket(f) <= b
    BY DEF Reaches
  <2>3. \A c \in 0 .. (b + Window - 1) : c \in 0 .. b - 1 \/ c \in b .. (b + Window - 1)
    BY <1>1
  <2>4. \A c \in 0 .. b - 1 : c \in 0 .. (b + Window - 1) /\ c # b
    BY <1>1
  <2>5. b \in 0 .. (b + Window - 1)
    BY <1>1
  <2>. QED
    BY <1>1, <2>1, <2>2, <2>3, <2>4, <2>5 DEF Closed
<1>3. /\ Summable(g) /\ Size(g) \in Nat /\ DOMAIN g = Closed(F, b)
      /\ \A c \in Closed(F, b) : g[c] = ValueOf(d, InBucket(F, c)) /\ g[c] \in Nat
  BY <1>1, HistoryType
<1>4. /\ Summable(h) /\ Size(h) \in Nat /\ DOMAIN h = Closed(F, b + Window)
      /\ \A c \in Closed(F, b + Window) : h[c] = ValueOf(d, InBucket(F, c)) /\ h[c] \in Nat
  BY <1>1, HistoryType
<1>. HIDE DEF g, h, v
<1>5. b \notin DOMAIN g /\ DOMAIN h = DOMAIN g \cup {b} /\ h[b] = v /\ v \in Nat
      /\ \A c \in DOMAIN g : h[c] = g[c]
  BY <1>2, <1>3, <1>4 DEF v
<1>6. /\ Total(h) = Total(g) + v /\ Total(g) \in Int
      /\ Size(h) = Size(g) + 1
  BY <1>3, <1>5, TotalExtend DEF Size
<1>. DEFINE gg == [c \in DOMAIN g |-> g[c] * g[c]]
            hh == [c \in DOMAIN h |-> h[c] * h[c]]
<1>7. Total(hh) = Total(gg) + v * v /\ Total(gg) \in Int
  <2>1. \A c \in DOMAIN g : g[c] * g[c] \in Int
    BY <1>3
  <2>2. Summable(gg)
    BY <1>3, <2>1 DEF Summable
  <2>3. /\ b \notin DOMAIN gg /\ DOMAIN hh = DOMAIN gg \cup {b} /\ hh[b] = v * v /\ v * v \in Int
        /\ \A c \in DOMAIN gg : hh[c] = gg[c]
    BY <1>5
  <2>. HIDE DEF gg, hh
  <2>. QED
    BY <2>2, <2>3, TotalExtend
<1>8. Deviation(g) = Size(g) * Total(gg) - Total(g) * Total(g)
      /\ Deviation(h) = Size(h) * Total(hh) - Total(h) * Total(h)
  BY DEF Deviation
<1>. HIDE DEF gg, hh
<1>9. CASE Size(g) = 0
  <2>1. DOMAIN g = {}
    BY <1>3, <1>9, FS_EmptySet DEF Size, Summable
  <2>2. Total(g) = 0 /\ Total(gg) = 0
    BY <2>1, TotalEmpty DEF gg
  <2>3. Deviation(h) = 0
    BY <1>5, <1>6, <1>7, <1>8, <1>9, <2>2
  <2>. QED
    BY <1>6, <1>9, <2>3 DEF g, h, v
<1>10. CASE Size(g) # 0
  <2>1. Size(g) \in Nat \ {0}
    BY <1>3, <1>10
  <2>2. ((Size(g) + 1) * Deviation(g) + (Size(g) * v - Total(g)) * (Size(g) * v - Total(g))) \div Size(g)
          = (Size(g) + 1) * (Total(gg) + v * v) - (Total(g) + v) * (Total(g) + v)
    <3>. DEFINE n == Size(g)
                S == Total(g)
                Q == Total(gg)
    <3>1. n \in Nat \ {0} /\ v \in Int /\ S \in Int /\ Q \in Int
      BY <1>5, <1>6, <1>7, <2>1
    <3>2. Deviation(g) = n * Q - S * S
      BY <1>8
    <3>. HIDE DEF n, S, Q
    <3>3. ((n + 1) * (n * Q - S * S) + (n * v - S) * (n * v - S)) \div n
            = (n + 1) * (Q + v * v) - (S + v) * (S + v)
      BY <3>1, Welford
    <3>4. ((n + 1) * Deviation(g) + (n * v - S) * (n * v - S)) \div n
            = (n + 1) * (Q + v * v) - (S + v) * (S + v)
      BY <3>2, <3>3, Zenon
    <3>. QED
      BY <3>4, Zenon DEF n, S, Q
  <2>3. Deviation(h) = (Size(g) + 1) * (Total(gg) + v * v) - (Total(g) + v) * (Total(g) + v)
    BY <1>6, <1>7, <1>8
  <2>. QED
    BY <1>6, <1>10, <2>2, <2>3 DEF g, h, v
<1>. QED
  BY <1>9, <1>10

----------------------------------------------------------------------------
(* Rolling the buckets *)

LEMMA OpenType ==
  ASSUME NEW s \in MetricState, NEW b \in Nat
  PROVE  /\ OpenBucket(s, b) \in MetricState /\ OpenBucket(s, b).start = b
         /\ OpenBucket(s, b).value = 0 /\ OpenBucket(s, b).ports = {}
         /\ OpenBucket(s, b).fired = FALSE /\ OpenBucket(s, b).n = s.n
         /\ OpenBucket(s, b).sum = s.sum /\ OpenBucket(s, b).dev = s.dev
  BY DEF OpenBucket, MetricState

LEMMA WelfordType ==
  ASSUME NEW s \in MetricState, NEW v \in Nat
  PROVE  /\ UpdateWelford(s, v) \in MetricState
         /\ UpdateWelford(s, v).n = s.n + 1 /\ UpdateWelford(s, v).sum = s.sum + v
         /\ UpdateWelford(s, v).dev =
              IF s.n = 0 THEN 0
              ELSE ((s.n + 1) * s.dev + (s.n * v - s.sum) * (s.n * v - s.sum)) \div s.n
         /\ UpdateWelford(s, v).start = s.start
<1>. DEFINE dev == IF s.n = 0 THEN 0
                   ELSE ((s.n + 1) * s.dev + (s.n * v - s.sum) * (s.n * v - s.sum)) \div s.n
<1>1. s.n \in Nat /\ s.sum \in Nat /\ s.dev \in Nat
  BY DEF MetricState
<1>2. \A x \in Int : x * x \in Nat
  OBVIOUS
<1>3. dev \in Nat
  <2>1. CASE s.n = 0
    BY <2>1
  <2>2. CASE s.n # 0
    <3>. DEFINE x == s.n * v - s.sum
    <3>1. x \in Int
      BY <1>1
    <3>. HIDE DEF x
    <3>2. x * x \in Nat /\ (s.n + 1) * s.dev \in Nat
      BY <1>1, <1>2, <3>1
    <3>. DEFINE y == (s.n + 1) * s.dev + x * x
    <3>3. y \in Nat
      BY <3>2
    <3>. HIDE DEF y
    <3>4. y \div s.n \in Nat
      BY <1>1, <2>2, <3>3
    <3>. QED
      BY <2>2, <3>4 DEF x, y
  <2>. QED
    BY <2>1, <2>2
<1>4. UpdateWelford(s, v) = [s EXCEPT !.n = s.n + 1, !.sum = s.sum + v, !.dev = dev]
  BY DEF UpdateWelford, MetricState
<1>5. s.n + 1 \in Nat /\ s.sum + v \in Nat
  BY <1>1
<1>. HIDE DEF dev
<1>6. /\ UpdateWelford(s, v) \in MetricState
      /\ UpdateWelford(s, v).n = s.n + 1 /\ UpdateWelford(s, v).sum = s.sum + v
      /\ UpdateWelford(s, v).dev = dev /\ UpdateWelford(s, v).start = s.start
  BY <1>3, <1>4, <1>5 DEF MetricState
<1>. QED
  BY <1>6 DEF dev

LEMMA CloseType ==
  ASSUME NEW s \in MetricState
  PROVE  /\ CloseBucket(s) \in MetricState /\ CloseBucket(s).start = s.start + Window
         /\ CloseBucket(s).value = 0 /\ CloseBucket(s).ports = {} /\ CloseBucket(s).fired = FALSE
         /\ CloseBucket(s).n = s.n + 1 /\ CloseBucket(s).sum = s.sum + s.value
         /\ CloseBucket(s).dev =
              IF s.n = 0 THEN 0
              ELSE ((s.n + 1) * s.dev + (s.n * s.value - s.sum) * (s.n * s.value - s.sum)) \div s.n
<1>1. s.value \in Nat /\ s.start + Window \in Nat
  BY DetectorsAssumption DEF MetricState, NoBucket
<1>. DEFINE u == UpdateWelford(s, s.value)
<1>2. /\ u \in MetricState /\ u.n = s.n + 1 /\ u.sum = s.sum + s.value
      /\ u.dev = IF s.n = 0 THEN 0
                 ELSE ((s.n + 1) * s.dev + (s.n * s.value - s.sum) * (s.n * s.value - s.sum)) \div s.n
  BY <1>1, WelfordType
<1>. DEFINE b == s.start + Window
            c == OpenBucket(u, b)
<1>3. CloseBucket(s) = c
  BY DEF CloseBucket
<1>. HIDE DEF u, b
<1>4. /\ c \in MetricState /\ c.start = b /\ c.value = 0 /\ c.ports = {} /\ c.fired = FALSE
      /\ c.n = u.n /\ c.sum = u.sum /\ c.dev = u.dev
  <2>1. b \in Nat
    BY <1>1 DEF b
  <2>. QED
    BY <1>2, <2>1, OpenType
<1>. HIDE DEF c
<1>. QED
  BY <1>2, <1>3, <1>4 DEF b

\* A bucket no flow is in.
LEMMA EmptyBucket ==
  ASSUME NEW d, NEW F, NEW b, InBucket(F, b) = {}
  PROVE  ValueOf(d, InBucket(F, b)) = 0 /\ PortsOf(d, InBucket(F, b)) = {}
<1>1. Cardinality({}) = 0
  BY FS_EmptySet
<1>2. {g.port : g \in {}} = {}
  OBVIOUS
<1>. QED
  BY <1>1, <1>2 DEF ValueOf, PortsOf

\* Closing a bucket tells the same flows, one window on. (roll_buckets.)
LEMMA Close ==
  ASSUME NEW F, FlowSet(F), NEW d, NEW s, NEW b, Has(d, F, s, b), Reaches(F, b)
  PROVE  Has(d, F, CloseBucket(s), b + Window) /\ Reaches(F, b + Window)
<1>1. b \in Nat /\ Window \in Nat \ {0} /\ s \in MetricState /\ s.start = b
  BY DetectorsAssumption DEF Reaches, Has
<1>2. \A f \in F : Bucket(f) \in Nat /\ Bucket(f) <= b
  BY BucketFacts DEF Reaches, FlowSet
<1>3. Reaches(F, b + Window)
  <2>1. (b + Window) % Window = 0
    BY <1>1, Aligned DEF Reaches
  <2>2. \A f \in F : Bucket(f) <= b + Window
    BY <1>1, <1>2
  <2>3. OnTime(F) \in SUBSET F
    BY DEF OnTime
  <2>4. \E f \in OnTime(F) : Bucket(f) <= b + Window
    BY <2>2, <2>3 DEF Reaches
  <2>. QED
    BY <1>1, <2>1, <2>2, <2>4 DEF Reaches
<1>4. InBucket(F, b + Window) = {}
  BY <1>1, <1>2 DEF InBucket, OnTime
<1>5. /\ ValueOf(d, InBucket(F, b + Window)) = 0 /\ PortsOf(d, InBucket(F, b + Window)) = {}
  BY <1>4, EmptyBucket
<1>. DEFINE g == History(d, F, b)
            h == History(d, F, b + Window)
            v == ValueOf(d, InBucket(F, b))
<1>6. /\ Size(h) = Size(g) + 1 /\ Total(h) = Total(g) + v
      /\ Deviation(h) =
           IF Size(g) = 0 THEN 0
           ELSE ((Size(g) + 1) * Deviation(g)
                  + (Size(g) * v - Total(g)) * (Size(g) * v - Total(g))) \div Size(g)
  BY HistoryGrows
<1>7. s.value = v /\ s.n = Size(g) /\ s.sum = Total(g) /\ s.dev = Deviation(g)
  BY DEF Has
<1>. DEFINE c == CloseBucket(s)
<1>8. /\ c \in MetricState /\ c.start = b + Window
      /\ c.value = 0 /\ c.ports = {} /\ c.fired = FALSE
      /\ c.n = s.n + 1 /\ c.sum = s.sum + s.value
      /\ c.dev =
           IF s.n = 0 THEN 0
           ELSE ((s.n + 1) * s.dev + (s.n * s.value - s.sum) * (s.n * s.value - s.sum)) \div s.n
  BY <1>1, CloseType
<1>. HIDE DEF g, h, v, c
<1>9. c.n = Size(h) /\ c.sum = Total(h)
  BY <1>6, <1>7, <1>8
<1>10. c.dev = Deviation(h)
  BY <1>6, <1>7, <1>8, Zenon
<1>11. IsFiniteSet(c.ports)
  BY <1>8, FS_EmptySet
<1>. QED
  BY <1>3, <1>4, <1>5, <1>8, <1>9, <1>10, <1>11 DEF Has, c, h

\* The recursion of roll_buckets ends.
LEMMA RollRule ==
  ASSUME NEW ts \in Nat
  PROVE  \E f \in [MetricState -> MetricState] :
           /\ \A r \in MetricState :
                f[r] = IF r.start + Window <= ts THEN f[CloseBucket(r)] ELSE r
           /\ \A s \in MetricState :
                RollBuckets(s, ts) =
                  IF s.start = NoBucket THEN OpenBucket(s, BucketStart(ts)) ELSE f[s]
<1>. DEFINE Rule(f) == f = [r \in MetricState |->
                              IF r.start + Window <= ts THEN f[CloseBucket(r)] ELSE r]
            Rolled == CHOOSE f : Rule(f)
            D == MetricState
            size == [r \in D |-> IF r.start + Window <= ts THEN ts - r.start ELSE 0]
            stop == {r \in D : ~(r.start + Window <= ts)}
            next == [r \in D \ stop |-> CloseBucket(r)]
            base == [r \in stop |-> r]
            step == [p \in (D \ stop) \X D |-> p[2]]
<1>1. Window \in Nat \ {0} /\ \A r \in D : r.start \in Int
  BY DetectorsAssumption DEF MetricState, NoBucket
<1>2. \A r \in D : CloseBucket(r) \in D /\ CloseBucket(r).start = r.start + Window
  BY CloseType
<1>3. Recursion(D, D, size, stop, next, base, step)
  <2>1. size \in [D -> Nat]
    BY <1>1
  <2>2. ASSUME NEW r \in D \ stop PROVE size[next[r]] < size[r]
    BY <1>1, <1>2
  <2>3. stop \in SUBSET D /\ next \in [D \ stop -> D] /\ base \in [stop -> D]
        /\ step \in [(D \ stop) \X D -> D]
    BY <1>2
  <2>. HIDE DEF size, stop, next, base, step, D
  <2>. QED
    BY <2>1, <2>2, <2>3 DEF Recursion
<1>4. \E f \in [D -> D] : \A r \in D :
        f[r] = IF r \in stop THEN base[r] ELSE step[<<r, f[next[r]]>>]
  <2>. HIDE DEF size, stop, next, base, step, D
  <2>. QED
    BY <1>3, RecursionExists
<1>5. PICK f \in [D -> D] : \A r \in D :
        f[r] = IF r \in stop THEN base[r] ELSE step[<<r, f[next[r]]>>]
  BY <1>4
<1>6. \A r \in D : f[r] = IF r.start + Window <= ts THEN f[CloseBucket(r)] ELSE r
  <2>. SUFFICES ASSUME NEW r \in D
                PROVE  f[r] = IF r.start + Window <= ts THEN f[CloseBucket(r)] ELSE r
    OBVIOUS
  <2>1. CASE r \in stop
    BY <1>5, <2>1
  <2>2. CASE r \notin stop
    <3>1. next[r] = CloseBucket(r) /\ CloseBucket(r) \in D
      BY <1>2, <2>2
    <3>2. <<r, f[CloseBucket(r)]>> \in (D \ stop) \X D
      BY <1>5, <2>2, <3>1
    <3>. QED
      BY <1>5, <2>2, <3>1, <3>2
  <2>. QED
    BY <2>1, <2>2
<1>7. \E g : Rule(g)
  BY <1>5, <1>6
<1>8. Rule(Rolled)
  BY <1>7
<1>9. \A s \in D : RollBuckets(s, ts) =
                     IF s.start = NoBucket THEN OpenBucket(s, BucketStart(ts)) ELSE Rolled[s]
  BY DEF RollBuckets
<1>. HIDE DEF Rolled
<1>10. \A r \in D : Rolled[r] = IF r.start + Window <= ts THEN Rolled[CloseBucket(r)] ELSE r
  BY <1>8
<1>11. \A r \in D : f[r] = Rolled[r]
  <2>1. SameRecursion(D, size, stop, next, f, Rolled)
    <3>1. \A r \in stop : f[r] = Rolled[r]
      BY <1>6, <1>10
    <3>2. \A r \in D \ stop : f[next[r]] = Rolled[next[r]] => f[r] = Rolled[r]
      BY <1>6, <1>10
    <3>. HIDE DEF size, stop, next, base, step, D
    <3>. QED
      BY <1>3, <3>1, <3>2 DEF Recursion, SameRecursion
  <2>. HIDE DEF size, stop, next, base, step, D
  <2>. QED
    BY <2>1, RecursionUnique
<1>. QED
  BY <1>5, <1>6, <1>9, <1>11

\* Rolled up to the bucket of a time, a state tells the same flows. (roll_buckets.)
LEMMA Roll ==
  ASSUME NEW F, FlowSet(F), NEW d, NEW s, NEW b, Has(d, F, s, b), Reaches(F, b),
         NEW ts \in Nat, b <= ts
  PROVE  Has(d, F, RollBuckets(s, ts), BucketStart(ts)) /\ Reaches(F, BucketStart(ts))
<1>1. PICK f \in [MetricState -> MetricState] :
        /\ \A r \in MetricState :
             f[r] = IF r.start + Window <= ts THEN f[CloseBucket(r)] ELSE r
        /\ \A r \in MetricState :
             RollBuckets(r, ts) =
               IF r.start = NoBucket THEN OpenBucket(r, BucketStart(ts)) ELSE f[r]
  BY RollRule
<1>2. Window \in Nat \ {0}
  BY DetectorsAssumption
<1>. DEFINE Goal(r) == Has(d, F, f[r], BucketStart(ts)) /\ Reaches(F, BucketStart(ts))
            From(k, r, c) == Has(d, F, r, c) /\ Reaches(F, c) /\ c <= ts /\ ts - c <= k
            S == {k \in Nat : \A r, c : From(k, r, c) => Goal(r)}
<1>3. ASSUME NEW r, NEW c, Has(d, F, r, c), Reaches(F, c), c <= ts, ~(c + Window <= ts)
      PROVE  Goal(r)
  <2>1. c \in Nat /\ c % Window = 0 /\ r \in MetricState /\ r.start = c
    BY <1>3 DEF Has, Reaches
  <2>2. c = BucketStart(ts)
    <3>1. c <= ts /\ ts < c + Window
      BY <1>2, <1>3, <2>1
    <3>2. c = ts - (ts % Window)
      BY <1>2, <2>1, <3>1, Aligned
    <3>. QED
      BY <3>2 DEF BucketStart
  <2>3. f[r] = r
    BY <1>1, <1>3, <2>1
  <2>. QED
    BY <1>3, <2>2, <2>3
<1>4. 0 \in S
  <2>. SUFFICES ASSUME NEW r, NEW c, From(0, r, c) PROVE Goal(r)
    OBVIOUS
  <2>1. c \in Nat
    BY DEF Reaches
  <2>. HIDE DEF Goal
  <2>. QED
    BY <1>2, <1>3, <2>1
<1>5. ASSUME NEW k \in S PROVE k + 1 \in S
  <2>. SUFFICES ASSUME NEW r, NEW c, From(k + 1, r, c) PROVE Goal(r)
    OBVIOUS
  <2>1. c \in Nat /\ r \in MetricState /\ r.start = c
    BY DEF Reaches, Has
  <2>2. CASE ~(c + Window <= ts)
    <3>. HIDE DEF Goal
    <3>. QED
      BY <1>3, <2>2
  <2>3. CASE c + Window <= ts
    <3>1. Has(d, F, CloseBucket(r), c + Window) /\ Reaches(F, c + Window)
      BY Close
    <3>2. ts - (c + Window) <= k
      BY <1>2, <2>1
    <3>3. Goal(CloseBucket(r))
      <4>. HIDE DEF Goal
      <4>. QED
        BY <2>3, <3>1, <3>2
    <3>4. f[r] = f[CloseBucket(r)]
      BY <1>1, <2>1, <2>3
    <3>. QED
      BY <3>3, <3>4
  <2>. QED
    BY <2>2, <2>3
<1>6. S = Nat
  <2>1. S \in SUBSET Nat
    OBVIOUS
  <2>. HIDE DEF S
  <2>. QED
    BY <1>4, <1>5, <2>1, NatSetInduction
<1>7. b \in Nat /\ s \in MetricState /\ s.start = b
  BY DEF Reaches, Has
<1>8. Goal(s)
  <2>1. ts - b \in S
    BY <1>6, <1>7
  <2>2. From(ts - b, s, b)
    BY <1>7
  <2>. HIDE DEF Goal, From
  <2>. QED
    BY <2>1, <2>2
<1>9. RollBuckets(s, ts) = f[s]
  BY <1>1, <1>7 DEF NoBucket
<1>. QED
  BY <1>8, <1>9

\* The first flow of an entity opens its bucket.
LEMMA RollFresh ==
  ASSUME NEW d, NEW ts \in Nat
  PROVE  Has(d, {}, RollBuckets(Fresh, ts), BucketStart(ts))
<1>. DEFINE b == BucketStart(ts)
            s == RollBuckets(Fresh, ts)
<1>1. b \in Nat
  BY DetectorsAssumption, Aligned DEF BucketStart
<1>2. Fresh \in MetricState /\ s = OpenBucket(Fresh, b)
  BY DEF Fresh, MetricState, RollBuckets, NoBucket
<1>. HIDE DEF b, s
<1>3. /\ s \in MetricState /\ s.start = b /\ s.value = 0 /\ s.ports = {} /\ s.fired = FALSE
      /\ s.n = 0 /\ s.sum = 0 /\ s.dev = 0
  <2>1. Fresh.n = 0 /\ Fresh.sum = 0 /\ Fresh.dev = 0
    BY DEF Fresh
  <2>. QED
    BY <1>1, <1>2, <2>1, OpenType
<1>4. OnTime({}) = {} /\ InBucket({}, b) = {} /\ Closed({}, b) = {}
  BY DEF OnTime, InBucket, Closed
<1>. DEFINE h == History(d, {}, b)
            hh == [c \in DOMAIN h |-> h[c] * h[c]]
<1>5. DOMAIN h = {} /\ DOMAIN hh = {}
  BY <1>4 DEF History
<1>6. Total(h) = 0 /\ Total(hh) = 0 /\ Size(h) = 0
  <2>. HIDE DEF h, hh
  <2>. QED
    BY <1>5, TotalEmpty, FS_EmptySet DEF Size
<1>7. Deviation(h) = Size(h) * Total(hh) - Total(h) * Total(h)
  BY DEF Deviation
<1>. HIDE DEF hh
<1>8. Deviation(h) = 0
  BY <1>6, <1>7
<1>9. ValueOf(d, InBucket({}, b)) = 0 /\ PortsOf(d, InBucket({}, b)) = {}
  BY <1>4, EmptyBucket
<1>10. IsFiniteSet(s.ports)
  BY <1>3, FS_EmptySet
<1>. QED
  BY <1>3, <1>4, <1>6, <1>8, <1>9, <1>10 DEF Has, s, b

----------------------------------------------------------------------------
(* One event *)

\* x is the flow that comes after those of F.
Comes(F, x) ==
  LET G == F \cup {x}
  IN FlowSet(G) /\ x \notin F /\ \A f \in F : f.id < x.id

LEMMA ComesFacts ==
  ASSUME NEW F, NEW x, Comes(F, x)
  PROVE  LET G == F \cup {x}
         IN /\ Extends(F, G) /\ FlowSet(G) /\ FlowSet(F) /\ x \in Flow /\ x \in G /\ x \notin F
            /\ \A g \in G : g = x \/ g.id < x.id
            /\ \A g \in G : g.id \in Nat /\ Bucket(g) \in Nat
<1>. DEFINE G == F \cup {x}
<1>1. Extends(F, G) /\ FlowSet(G) /\ x \notin F /\ x \in G /\ \A g \in G : g = x \/ g.id < x.id
  BY DEF Comes, Extends
<1>2. G \in SUBSET Flow
  BY <1>1 DEF FlowSet
<1>3. FlowSet(F)
  BY <1>1, OnTimeStable
<1>4. \A g \in G : g.id \in Nat /\ Bucket(g) \in Nat
  BY <1>2, BucketFacts
<1>. QED
  BY <1>1, <1>2, <1>3, <1>4

\* c tells F with x in its live bucket, and no verdict on x yet.
Counts(d, F, x, c) ==
  LET G == F \cup {x}
      b == Bucket(x)
  IN /\ c \in MetricState /\ IsFiniteSet(c.ports) /\ c.start = b
     /\ c.value = ValueOf(d, InBucket(G, b)) /\ c.ports = PortsOf(d, InBucket(G, b))
     /\ c.n = Size(History(d, G, b)) /\ c.sum = Total(History(d, G, b))
     /\ c.dev = Deviation(History(d, G, b))
     /\ c.fired <=> \E f \in InBucket(G, b) \ {x} : Anomalous(d, G, f)
     /\ x \in InBucket(G, b)

LEMMA CountCounts ==
  ASSUME NEW F, NEW x, Comes(F, x), NEW d \in Detector, NEW s, Has(d, F, s, Bucket(x)),
         \A f \in F : Bucket(f) <= Bucket(x)
  PROVE  Counts(d, F, x, Count(d, s, x))
<1>. DEFINE G == F \cup {x}
            b == Bucket(x)
            c == Count(d, s, x)
            old == InBucket(F, b)
<1>1. /\ Extends(F, G) /\ FlowSet(G) /\ FlowSet(F) /\ x \in Flow /\ x \in G /\ x \notin F
      /\ \A g \in G : g = x \/ g.id < x.id
      /\ \A g \in G : g.id \in Nat /\ Bucket(g) \in Nat
  BY ComesFacts
<1>. HIDE DEF G
<1>2. x \in OnTime(G)
  BY <1>1 DEF OnTime, G
<1>3. \A f \in F : f \in OnTime(F) <=> f \in OnTime(G)
  BY <1>1, OnTimeStable
<1>4. InBucket(G, b) = old \cup {x} /\ x \notin old /\ old \in SUBSET F
  <2>1. old \in SUBSET F
    BY DEF InBucket, OnTime
  <2>2. ASSUME NEW g PROVE g \in InBucket(G, b) <=> g \in old \/ g = x
    BY <1>1, <1>2, <1>3 DEF InBucket, OnTime, G
  <2>. QED
    BY <1>1, <2>1, <2>2
<1>5. History(d, G, b) = History(d, F, b)
  <2>1. \A g \in OnTime(G) : g \in F \/ Bucket(g) = b
    BY DEF OnTime, G
  <2>2. ASSUME NEW e \in 0 .. b - 1 PROVE InBucket(G, e) = InBucket(F, e)
    <3>1. b \in Nat /\ e # b
      BY <1>1
    <3>. QED
      BY <1>3, <2>1, <3>1 DEF InBucket, OnTime
  <2>3. Closed(G, b) = Closed(F, b)
    <3>1. ASSUME NEW e \in 0 .. b - 1
          PROVE  (\E g \in OnTime(G) : Bucket(g) <= e) <=> (\E g \in OnTime(F) : Bucket(g) <= e)
      <4>1. b \in Nat /\ ~(b <= e)
        BY <1>1
      <4>. QED
        BY <1>3, <2>1, <4>1 DEF OnTime
    <3>. QED
      BY <3>1 DEF Closed
  <2>4. \A e \in Closed(G, b) : ValueOf(d, InBucket(G, e)) = ValueOf(d, InBucket(F, e))
    BY <2>2 DEF Closed
  <2>. QED
    BY <2>3, <2>4 DEF History
<1>6. /\ s \in MetricState /\ IsFiniteSet(s.ports) /\ s.start = b
      /\ s.value = ValueOf(d, old) /\ s.ports = PortsOf(d, old)
      /\ s.n = Size(History(d, F, b)) /\ s.sum = Total(History(d, F, b))
      /\ s.dev = Deviation(History(d, F, b))
      /\ s.fired <=> \E f \in old : Anomalous(d, F, f)
  BY DEF Has
<1>7. x.port \in Nat
  BY <1>1, BucketFacts
<1>8. /\ c \in MetricState /\ IsFiniteSet(c.ports) /\ c.value = ValueOf(d, old \cup {x})
      /\ c.ports = PortsOf(d, old \cup {x})
  <2>1. CASE d = "rate_deviation"
    <3>1. c = [s EXCEPT !.value = s.value + 1]
      BY <2>1 DEF Count, MetricState
    <3>2. IsFiniteSet(old)
      BY <1>1, <1>4, ValueType
    <3>3. Cardinality(old \cup {x}) = Cardinality(old) + 1
      BY <1>4, <3>2, FS_AddElement
    <3>4. s.value = Cardinality(old) /\ s.value \in Nat
      BY <1>6, <2>1 DEF ValueOf, MetricState
    <3>5. c.value = s.value + 1 /\ c.ports = s.ports /\ c \in MetricState
      BY <1>6, <3>1, <3>4 DEF MetricState
    <3>6. s.ports = {} /\ PortsOf(d, old \cup {x}) = {}
      BY <1>6, <2>1 DEF PortsOf
    <3>7. ValueOf(d, old \cup {x}) = Cardinality(old \cup {x})
      BY <2>1 DEF ValueOf
    <3>. HIDE DEF c, old
    <3>. QED
      BY <1>6, <3>3, <3>4, <3>5, <3>6, <3>7
  <2>2. CASE d # "rate_deviation"
    <3>. DEFINE P == s.ports \cup {x.port}
    <3>1. c = [s EXCEPT !.ports = P, !.value = Cardinality(P)]
      BY <2>2 DEF Count, MetricState
    <3>2. IsFiniteSet(P) /\ Cardinality(P) \in Nat
      BY <1>6, FS_AddElement, FS_CardinalityType
    <3>3. P = {g.port : g \in old \cup {x}}
      BY <1>6, <2>2 DEF PortsOf
    <3>4. P \in SUBSET Nat
      BY <1>6, <1>7 DEF MetricState
    <3>. HIDE DEF P, old, c
    <3>5. c.ports = P /\ c.value = Cardinality(P) /\ c \in MetricState
      BY <1>6, <3>1, <3>2, <3>4 DEF MetricState
    <3>. QED
      BY <2>2, <3>2, <3>3, <3>5 DEF ValueOf, PortsOf
  <2>. QED
    BY <2>1, <2>2
<1>9. c.start = s.start /\ c.n = s.n /\ c.sum = s.sum /\ c.dev = s.dev /\ c.fired = s.fired
  BY <1>6 DEF Count, MetricState
<1>10. s.fired <=> \E f \in InBucket(G, b) \ {x} : Anomalous(d, G, f)
  <2>1. \A f \in old : Anomalous(d, F, f) <=> Anomalous(d, G, f)
    BY <1>1, <1>4, AnomalousStable
  <2>. HIDE DEF old
  <2>. QED
    BY <1>4, <1>6, <2>1
<1>11. x \in InBucket(G, b)
  BY <1>4
<1>. HIDE DEF c, old, b
<1>12. /\ c \in MetricState /\ IsFiniteSet(c.ports) /\ c.start = b
       /\ c.value = ValueOf(d, InBucket(G, b)) /\ c.ports = PortsOf(d, InBucket(G, b))
       /\ c.n = Size(History(d, G, b)) /\ c.sum = Total(History(d, G, b))
       /\ c.dev = Deviation(History(d, G, b))
       /\ c.fired <=> \E f \in InBucket(G, b) \ {x} : Anomalous(d, G, f)
       /\ x \in InBucket(G, b)
  BY <1>4, <1>5, <1>6, <1>8, <1>9, <1>10, <1>11
<1>. QED
  BY <1>12 DEF Counts, G, b, c

\* The verdict of a detector on a counted event is the definition's.
\* (RateDeviationDetector.process, PortVelocityDetector.process.)
LEMMA CountedJudged ==
  ASSUME NEW F, NEW x, Comes(F, x), NEW d \in Detector, NEW c, Counts(d, F, x, c)
  PROVE  LET G == F \cup {x}
         IN /\ Triggers(d, c) <=> Anomalous(d, G, x)
            /\ ~c.fired /\ Triggers(d, c) <=> FirstAnomalous(d, G, x)
            /\ ~c.fired /\ Triggers(d, c) => Has(d, G, [c EXCEPT !.fired = TRUE], Bucket(x))
            /\ ~(~c.fired /\ Triggers(d, c)) => Has(d, G, c, Bucket(x))
<1>. DEFINE G == F \cup {x}
            b == Bucket(x)
            h == History(d, G, b)
<1>1. /\ Extends(F, G) /\ FlowSet(G) /\ FlowSet(F) /\ x \in Flow /\ x \in G /\ x \notin F
      /\ \A g \in G : g = x \/ g.id < x.id
      /\ \A g \in G : g.id \in Nat /\ Bucket(g) \in Nat
  BY ComesFacts
<1>. HIDE DEF G
<1>2. /\ c \in MetricState /\ IsFiniteSet(c.ports) /\ c.start = b
      /\ c.value = ValueOf(d, InBucket(G, b)) /\ c.ports = PortsOf(d, InBucket(G, b))
      /\ c.n = Size(h) /\ c.sum = Total(h) /\ c.dev = Deviation(h)
      /\ c.fired <=> \E f \in InBucket(G, b) \ {x} : Anomalous(d, G, f)
      /\ x \in InBucket(G, b)
  BY DEF Counts, G
<1>3. {g \in InBucket(G, b) : g.id <= x.id} = InBucket(G, b)
  BY <1>1 DEF InBucket, OnTime
<1>. DEFINE v == ValueOf(d, InBucket(G, b))
            y == Size(h) * v - Total(h)
<1>4. Anomalous(d, G, x) <=>
        IF d = "port_velocity" THEN v > Threshold
        ELSE /\ Size(h) >= MinHistory /\ y > 0
             /\ y * y * (Size(h) - 1) >= ZTrigger * ZTrigger * Size(h) * Deviation(h)
  <2>1. x \in OnTime(G)
    BY <1>2 DEF InBucket
  <2>. QED
    BY <1>3, <2>1, Zenon DEF Anomalous
<1>5. Triggers(d, c) <=> Anomalous(d, G, x)
  <2>1. Excess(c) = y
    BY <1>2, Zenon DEF Excess
  <2>2. c.value = v
    BY <1>2
  <2>. HIDE DEF y, v, h
  <2>3. CASE d = "rate_deviation"
    <3>1. d # "port_velocity"
      BY <2>3
    <3>2. Anomalous(d, G, x) <=>
            /\ Size(h) >= MinHistory /\ y > 0
            /\ y * y * (Size(h) - 1) >= ZTrigger * ZTrigger * Size(h) * Deviation(h)
      BY <1>4, <3>1, Zenon
    <3>3. Triggers(d, c) <=> c.n >= MinHistory /\ ZTriggers(c)
      BY <2>3, Zenon DEF Triggers
    <3>4. ZTriggers(c) <=>
            y > 0 /\ y * y * (Size(h) - 1) >= ZTrigger * ZTrigger * Size(h) * Deviation(h)
      BY <1>2, <2>1, Zenon DEF ZTriggers
    <3>. QED
      BY <1>2, <3>2, <3>3, <3>4, Zenon
  <2>4. CASE d = "port_velocity"
    BY <1>4, <2>2, <2>4 DEF Triggers
  <2>. QED
    BY <2>3, <2>4 DEF Detector
<1>6. ~c.fired /\ Triggers(d, c) <=> FirstAnomalous(d, G, x)
  <2>1. \A g \in InBucket(G, b) : g.id < x.id <=> g # x
    BY <1>1 DEF InBucket, OnTime
  <2>2. (\A g \in InBucket(G, b) : g.id < x.id => ~Anomalous(d, G, g)) <=> ~c.fired
    BY <1>2, <2>1
  <2>. QED
    BY <1>5, <2>2 DEF FirstAnomalous
<1>7. c.fired \in BOOLEAN
  BY <1>2 DEF MetricState
<1>8. ASSUME ~c.fired /\ Triggers(d, c) PROVE Has(d, G, [c EXCEPT !.fired = TRUE], b)
  <2>. DEFINE e == [c EXCEPT !.fired = TRUE]
  <2>1. /\ e \in MetricState /\ e.ports = c.ports /\ e.start = c.start /\ e.value = c.value
        /\ e.n = c.n /\ e.sum = c.sum /\ e.dev = c.dev /\ e.fired = TRUE
    BY <1>2 DEF MetricState
  <2>. HIDE DEF e, h
  <2>2. \E f \in InBucket(G, b) : Anomalous(d, G, f)
    BY <1>2, <1>5, <1>8
  <2>. QED
    BY <1>2, <2>1, <2>2 DEF Has, e, h
<1>9. ASSUME ~(~c.fired /\ Triggers(d, c)) PROVE Has(d, G, c, b)
  <2>1. c.fired <=> \E f \in InBucket(G, b) : Anomalous(d, G, f)
    <3>1. Anomalous(d, G, x) => c.fired
      BY <1>5, <1>7, <1>9
    <3>. QED
      BY <1>2, <3>1
  <2>. QED
    BY <1>2, <2>1 DEF Has
<1>. QED
  BY <1>5, <1>6, <1>8, <1>9 DEF G

\* s is the state that the flows F define.
Tells(d, F, s) ==
  IF F = {} THEN s = Fresh
  ELSE Has(d, F, s, s.start) /\ Reaches(F, s.start) /\ \E f \in OnTime(F) : Bucket(f) = s.start

\* p is what a detector has of x after what it had, q, of the flows before.
Absorbs(d, F, x, q, p) ==
  /\ p \in Progress /\ Tells(d, F \cup {x}, p.state)
  /\ p.fires = IF FirstAnomalous(d, F \cup {x}, x) THEN q.fires \cup {x.id} ELSE q.fires

LEMMA TellsType ==
  ASSUME NEW d, NEW F, NEW s, Tells(d, F, s)
  PROVE  s \in MetricState
<1>1. Fresh \in MetricState
  BY DEF Fresh, MetricState, NoBucket
<1>. QED
  BY <1>1 DEF Tells, Has

\* An event whose bucket is closed changes nothing, of the definition either.
LEMMA LateTells ==
  ASSUME NEW F, NEW x, Comes(F, x), NEW d, NEW s, Tells(d, F, s), Late(s, x)
  PROVE  Tells(d, F \cup {x}, s) /\ ~FirstAnomalous(d, F \cup {x}, x)
<1>. DEFINE G == F \cup {x}
            b == s.start
<1>1. /\ Extends(F, G) /\ FlowSet(G) /\ FlowSet(F) /\ x \in Flow /\ x \in G /\ x \notin F
      /\ \A g \in G : g = x \/ g.id < x.id
      /\ \A g \in G : g.id \in Nat /\ Bucket(g) \in Nat
  BY ComesFacts
<1>2. F # {} /\ Bucket(x) < b /\ Bucket(x) \in Nat
  BY <1>1, BucketFacts DEF Late, Tells, Fresh
<1>3. Has(d, F, s, b) /\ Reaches(F, b) /\ \E f \in OnTime(F) : Bucket(f) = b
  BY <1>2 DEF Tells
<1>. HIDE DEF G
<1>4. x \notin OnTime(G)
  <2>1. PICK f \in OnTime(F) : Bucket(f) = b
    BY <1>3
  <2>2. f \in G /\ f.id < x.id /\ ~(Bucket(f) <= Bucket(x))
    BY <1>1, <1>2, <2>1 DEF OnTime, G
  <2>. QED
    BY <2>2 DEF OnTime
<1>5. OnTime(G) = OnTime(F)
  <2>1. \A f \in F : f \in OnTime(F) <=> f \in OnTime(G)
    BY <1>1, OnTimeStable
  <2>. QED
    BY <1>4, <2>1 DEF OnTime, G
<1>6. \A c : InBucket(G, c) = InBucket(F, c)
  BY <1>5 DEF InBucket
<1>7. History(d, G, b) = History(d, F, b)
  BY <1>5, <1>6 DEF History, Closed
<1>8. \A f \in InBucket(F, b) : Anomalous(d, F, f) <=> Anomalous(d, G, f)
  <2>1. \A f \in InBucket(F, b) : f \in F
    BY DEF InBucket, OnTime
  <2>. QED
    BY <1>1, <2>1, AnomalousStable
<1>9. Has(d, G, s, b)
  BY <1>3, <1>6, <1>7, <1>8 DEF Has
<1>10. Reaches(G, b)
  <2>1. b \in Nat
    BY <1>3 DEF Reaches
  <2>. QED
    BY <1>2, <1>3, <1>5, <2>1 DEF Reaches, G
<1>11. G # {}
  BY <1>1
<1>12. ~FirstAnomalous(d, G, x)
  BY <1>4 DEF FirstAnomalous, Anomalous
<1>. QED
  BY <1>3, <1>5, <1>9, <1>10, <1>11, <1>12 DEF Tells, G

\* An event on time is counted in its bucket.
LEMMA OnTimeCounts ==
  ASSUME NEW F, NEW x, Comes(F, x), NEW d \in Detector, NEW s, Tells(d, F, s), ~Late(s, x)
  PROVE  Counts(d, F, x, Counted(d, s, x)) /\ \A f \in F : Bucket(f) <= Bucket(x)
<1>. DEFINE r == RollBuckets(s, x.ts)
<1>1. x \in Flow /\ FlowSet(F)
  BY ComesFacts
<1>2. x.ts \in Nat /\ Bucket(x) = BucketStart(x.ts) /\ Bucket(x) \in Nat /\ Bucket(x) <= x.ts
  BY <1>1, BucketFacts
<1>3. Has(d, F, r, Bucket(x)) /\ \A f \in F : Bucket(f) <= Bucket(x)
  <2>1. CASE F = {}
    BY <1>2, <2>1, RollFresh DEF Tells
  <2>2. CASE F # {}
    <3>. DEFINE b == s.start
    <3>1. Has(d, F, s, b) /\ Reaches(F, b)
      BY <2>2 DEF Tells
    <3>2. b \in Nat /\ b # NoBucket
      BY <3>1 DEF Reaches, NoBucket
    <3>3. b <= Bucket(x)
      BY <1>2, <3>2 DEF Late
    <3>4. b <= x.ts
      BY <1>2, <3>2, <3>3
    <3>. HIDE DEF b, r
    <3>5. Has(d, F, r, BucketStart(x.ts)) /\ Reaches(F, BucketStart(x.ts))
      BY <1>1, <1>2, <3>1, <3>4, Roll DEF r
    <3>. QED
      BY <1>2, <3>5 DEF Reaches
  <2>. QED
    BY <2>1, <2>2
<1>. HIDE DEF r
<1>4. Counts(d, F, x, Count(d, r, x))
  BY <1>3, CountCounts
<1>. QED
  BY <1>3, <1>4 DEF Counted, r

\* What a detector makes of one more event. (process.)
LEMMA OneEvent ==
  ASSUME NEW F, NEW x, Comes(F, x), NEW d \in Detector, NEW q \in Progress, Tells(d, F, q.state)
  PROVE  Absorbs(d, F, x, q, Absorb(d, x)[q])
<1>. DEFINE G == F \cup {x}
            s == q.state
            c == Counted(d, s, x)
            p == Absorb(d, x)[q]
<1>1. s \in MetricState /\ q.fires \in SUBSET Nat /\ q.infinite \in BOOLEAN
  BY DEF Progress
<1>2. p = IF Late(s, x) THEN q ELSE Judge(d, x, q)[c]
  BY DEF Absorb
<1>3. CASE Late(s, x)
  <2>1. Tells(d, G, s) /\ ~FirstAnomalous(d, G, x)
    BY <1>3, LateTells
  <2>2. p = q
    BY <1>2, <1>3
  <2>. HIDE DEF p
  <2>3. Absorbs(d, F, x, q, p)
    BY <2>1, <2>2 DEF Absorbs
  <2>. QED
    BY <2>3 DEF p
<1>4. CASE ~Late(s, x)
  <2>1. Counts(d, F, x, c) /\ \A f \in F : Bucket(f) <= Bucket(x)
    BY <1>4, OnTimeCounts
  <2>. HIDE DEF c, p
  <2>2. c \in MetricState /\ x \in InBucket(G, Bucket(x))
    BY <2>1 DEF Counts
  <2>3. x \in Flow /\ x.id \in Nat /\ Bucket(x) \in Nat /\ Bucket(x) % Window = 0
    BY ComesFacts, BucketFacts
  <2>4. Reaches(G, Bucket(x)) /\ \E f \in OnTime(G) : Bucket(f) = Bucket(x)
    <3>1. x \in OnTime(G)
      BY <2>2 DEF InBucket
    <3>. QED
      BY <2>1, <2>3, <3>1 DEF Reaches
  <2>5. p = IF ~c.fired /\ Triggers(d, c)
            THEN [state |-> [c EXCEPT !.fired = TRUE], fires |-> q.fires \cup {x.id},
                  infinite |-> q.infinite \/ InfiniteZ(c)]
            ELSE [q EXCEPT !.state = c]
    BY <1>2, <1>4, <2>2 DEF Judge
  <2>6. ~c.fired /\ Triggers(d, c) <=> FirstAnomalous(d, G, x)
    BY <2>1, CountedJudged
  <2>7. ASSUME NEW e, Has(d, G, e, Bucket(x)) PROVE Tells(d, G, e) /\ e \in MetricState
    <3>1. e.start = Bucket(x) /\ e \in MetricState
      BY <2>7 DEF Has
    <3>2. G # {}
      OBVIOUS
    <3>. QED
      BY <2>4, <2>7, <3>1, <3>2 DEF Tells
  <2>8. CASE ~c.fired /\ Triggers(d, c)
    <3>. DEFINE e == [c EXCEPT !.fired = TRUE]
                i == q.infinite \/ InfiniteZ(c)
    <3>1. Has(d, G, e, Bucket(x))
      BY <2>1, <2>8, CountedJudged
    <3>2. i \in BOOLEAN
      OBVIOUS
    <3>. HIDE DEF e, i
    <3>3. p = [state |-> e, fires |-> q.fires \cup {x.id}, infinite |-> i]
      BY <2>5, <2>8 DEF e, i
    <3>4. p.state = e /\ p.fires = q.fires \cup {x.id} /\ p \in Progress
      BY <1>1, <2>3, <2>7, <3>1, <3>2, <3>3 DEF Progress
    <3>. QED
      BY <2>6, <2>7, <2>8, <3>1, <3>4 DEF Absorbs, p
  <2>9. CASE ~(~c.fired /\ Triggers(d, c))
    <3>1. Has(d, G, c, Bucket(x))
      BY <2>1, <2>9, CountedJudged
    <3>2. p = [q EXCEPT !.state = c]
      BY <2>5, <2>9
    <3>3. p.state = c /\ p.fires = q.fires /\ p \in Progress
      BY <1>1, <2>2, <3>2 DEF Progress
    <3>. QED
      BY <2>6, <2>7, <2>9, <3>1, <3>3 DEF Absorbs, p
  <2>. QED
    BY <2>8, <2>9
<1>. QED
  BY <1>3, <1>4

----------------------------------------------------------------------------
(* A batch of events *)

\* The flow of the largest id, as Process takes it.
IsLast(E, x) == x \in E /\ \A y \in E : y.id <= x.id
Last(E) == CHOOSE x \in E : \A y \in E : y.id <= x.id

LEMMA LastIs ==
  ASSUME NEW E, FlowSet(E), E # {}
  PROVE  IsLast(E, Last(E))
<1>. DEFINE N == {n \in Nat : \A e : FlowSet(e) /\ Cardinality(e) = n /\ e # {} =>
                                 \E x : IsLast(e, x)}
<1>1. 0 \in N
  BY FS_EmptySet DEF FlowSet
<1>2. ASSUME NEW n \in N PROVE n + 1 \in N
  <2>. SUFFICES ASSUME NEW e, FlowSet(e), Cardinality(e) = n + 1, e # {}
                PROVE  \E x : IsLast(e, x)
    OBVIOUS
  <2>1. PICK z \in e : TRUE
    OBVIOUS
  <2>2. FlowSet(e \ {z})
    BY FS_Subset DEF FlowSet
  <2>3. Cardinality(e \ {z}) = n
    <3>1. Cardinality(e \ {z}) = Cardinality(e) - 1
      BY FS_RemoveElement DEF FlowSet
    <3>. QED
      BY <3>1
  <2>4. \A y \in e : y.id \in Nat
    BY DEF FlowSet, Flow
  <2>5. CASE e \ {z} = {}
    <3>1. IsLast(e, z)
      BY <2>1, <2>4, <2>5 DEF IsLast
    <3>. QED
      BY <3>1
  <2>6. CASE e \ {z} # {}
    <3>1. PICK x : IsLast(e \ {z}, x)
      BY <2>2, <2>3, <2>6
    <3>2. x \in e /\ \A y \in e : y = z \/ y.id <= x.id
      BY <3>1 DEF IsLast
    <3>3. x.id \in Nat /\ z.id \in Nat
      BY <2>1, <2>4, <3>2
    <3>4. CASE z.id <= x.id
      <4>1. IsLast(e, x)
        BY <3>2, <3>4 DEF IsLast
      <4>. QED
        BY <4>1
    <3>5. CASE x.id <= z.id
      <4>1. \A y \in e : y.id <= z.id
        BY <2>4, <3>2, <3>3, <3>5
      <4>2. IsLast(e, z)
        BY <2>1, <4>1 DEF IsLast
      <4>. QED
        BY <4>2
    <3>. QED
      BY <3>3, <3>4, <3>5
  <2>. QED
    BY <2>5, <2>6
<1>3. N = Nat
  <2>1. N \in SUBSET Nat
    OBVIOUS
  <2>. HIDE DEF N
  <2>. QED
    BY <1>1, <1>2, <2>1, NatSetInduction
<1>4. Cardinality(E) \in Nat
  BY FS_CardinalityType DEF FlowSet
<1>5. \E x : IsLast(E, x)
  BY <1>3, <1>4
<1>. QED
  BY <1>5 DEF IsLast, Last

\* The flows of E come after those of F.
After(F, E) == FlowSet(F \cup E) /\ \A f \in F, x \in E : f.id < x.id

\* p is what a detector makes of the flows of E, when it had those of F.
Made(d, F, E, p) ==
  /\ p \in Progress /\ Tells(d, F \cup E, p.state)
  /\ p.fires = {x.id : x \in {x \in E : FirstAnomalous(d, F \cup E, x)}}

\* One flow more.
LEMMA MadeStep ==
  ASSUME NEW F, NEW E, After(F, E), E # {}, NEW d \in Detector,
         NEW q, Made(d, F, E \ {Last(E)}, q)
  PROVE  Made(d, F, E, Absorb(d, Last(E))[q]) /\ Last(E) \in E
<1>. DEFINE x == Last(E)
            B == E \ {x}
            H == F \cup B
            G == F \cup E
            p == Absorb(d, x)[q]
<1>1. FlowSet(E) /\ FlowSet(G)
  BY FS_Subset DEF After, FlowSet
<1>2. x \in E /\ \A y \in E : y.id <= x.id
  BY <1>1, LastIs DEF IsLast
<1>. HIDE DEF x
<1>3. H \cup {x} = G
  BY <1>2
<1>4. \A y \in G : y.id \in Nat
  BY <1>1 DEF FlowSet, Flow
<1>5. \A y \in H : y.id < x.id
  <2>1. \A y \in B : y.id # x.id
    BY <1>1, <1>2 DEF FlowSet
  <2>2. \A y \in B : y.id < x.id
    BY <1>2, <1>4, <2>1
  <2>3. \A y \in F : y.id < x.id
    BY <1>2 DEF After
  <2>. QED
    BY <2>2, <2>3
<1>6. x \notin H
  BY <1>2, <1>4, <1>5
<1>. HIDE DEF G
<1>7. Comes(H, x)
  BY <1>1, <1>3, <1>5, <1>6 DEF Comes
<1>8. q \in Progress /\ Tells(d, H, q.state)
      /\ q.fires = {y.id : y \in {y \in B : FirstAnomalous(d, H, y)}}
  BY DEF Made, x
<1>. HIDE DEF H
<1>9. Absorbs(d, H, x, q, p)
  BY <1>7, <1>8, OneEvent
<1>10. /\ p \in Progress /\ Tells(d, G, p.state)
       /\ p.fires = IF FirstAnomalous(d, G, x) THEN q.fires \cup {x.id} ELSE q.fires
  BY <1>3, <1>9 DEF Absorbs
<1>11. \A y \in H : FirstAnomalous(d, H, y) <=> FirstAnomalous(d, G, y)
  <2>1. Extends(H, G)
    BY <1>3, <1>5 DEF Extends
  <2>. QED
    BY <1>1, <2>1, AnomalousStable
<1>12. q.fires = {y.id : y \in {y \in B : FirstAnomalous(d, G, y)}}
  <2>1. B \subseteq H
    BY DEF H
  <2>2. {y \in B : FirstAnomalous(d, H, y)} = {y \in B : FirstAnomalous(d, G, y)}
    BY <1>11, <2>1
  <2>. QED
    BY <1>8, <2>2
<1>. HIDE DEF p
<1>13. p.fires = {y.id : y \in {y \in E : FirstAnomalous(d, G, y)}}
  <2>1. CASE FirstAnomalous(d, G, x)
    <3>1. {y \in E : FirstAnomalous(d, G, y)} = {y \in B : FirstAnomalous(d, G, y)} \cup {x}
      BY <1>2, <2>1
    <3>. QED
      BY <1>10, <1>12, <2>1, <3>1
  <2>2. CASE ~FirstAnomalous(d, G, x)
    <3>1. {y \in E : FirstAnomalous(d, G, y)} = {y \in B : FirstAnomalous(d, G, y)}
      BY <1>2, <2>2
    <3>. QED
      BY <1>10, <1>12, <2>2, <3>1
  <2>. QED
    BY <2>1, <2>2
<1>14. Made(d, F, E, p)
  BY <1>10, <1>13 DEF Made, G
<1>. QED
  BY <1>2, <1>14 DEF p, x

\* Process makes of a batch what the definition says of its flows after the
\* earlier ones. (process.)
LEMMA ProcessMakes ==
  ASSUME NEW F, NEW E, After(F, E), NEW d \in Detector, NEW s, Tells(d, F, s)
  PROVE  Made(d, F, E, Process(d, s, E))
<1>. DEFINE D == SUBSET E
            none == [state |-> s, fires |-> {}, infinite |-> FALSE]
            Rule(f) == f = [e \in D |-> IF e = {} THEN none ELSE Absorb(d, Last(e))[f[e \ {Last(e)}]]]
            Upto == CHOOSE f : Rule(f)
            size == [e \in D |-> Cardinality(e)]
            stop == {{}}
            next == [e \in D \ stop |-> e \ {Last(e)}]
            base == [e \in stop |-> none]
            sound(e, q) == IF Absorb(d, Last(e))[q] \in Progress THEN Absorb(d, Last(e))[q] ELSE none
            step == [p \in (D \ stop) \X Progress |-> sound(p[1], p[2])]
<1>1. none \in Progress /\ Made(d, F, {}, none)
  <2>1. s \in MetricState
    BY TellsType
  <2>2. none \in Progress
    BY <2>1 DEF Progress
  <2>3. F \cup {} = F /\ {x.id : x \in {x \in {} : FirstAnomalous(d, F \cup {}, x)}} = {}
    OBVIOUS
  <2>. QED
    BY <2>2, <2>3 DEF Made
<1>. HIDE DEF none
<1>2. ASSUME NEW e \in D PROVE After(F, e) /\ FlowSet(e) /\ IsFiniteSet(e) /\ Cardinality(e) \in Nat
  <2>1. e \in SUBSET (F \cup E) /\ F \cup e \in SUBSET (F \cup E)
    OBVIOUS
  <2>2. IsFiniteSet(e) /\ IsFiniteSet(F \cup e)
    BY <2>1, FS_Subset DEF After, FlowSet
  <2>. QED
    BY <2>1, <2>2, FS_CardinalityType DEF After, FlowSet
<1>3. ASSUME NEW e \in D, e # {}
      PROVE  /\ Last(e) \in e /\ e \ {Last(e)} \in D
             /\ Cardinality(e \ {Last(e)}) < Cardinality(e)
             /\ Cardinality(e \ {Last(e)}) = Cardinality(e) - 1
  <2>1. Last(e) \in e
    BY <1>2, <1>3, LastIs DEF IsLast
  <2>2. Cardinality(e \ {Last(e)}) = Cardinality(e) - 1
    BY <1>2, <2>1, FS_RemoveElement
  <2>. QED
    BY <1>2, <2>1, <2>2
<1>4. Recursion(D, Progress, size, stop, next, base, step)
  <2>1. size \in [D -> Nat]
    BY <1>2
  <2>2. \A e \in D \ stop : size[next[e]] < size[e]
    BY <1>3
  <2>3. stop \in SUBSET D /\ next \in [D \ stop -> D]
    BY <1>3
  <2>4. base \in [stop -> Progress] /\ step \in [(D \ stop) \X Progress -> Progress]
    BY <1>1
  <2>. HIDE DEF size, stop, next, base, step, D
  <2>. QED
    BY <2>1, <2>2, <2>3, <2>4 DEF Recursion
<1>5. \E f \in [D -> Progress] : \A e \in D :
        f[e] = IF e \in stop THEN base[e] ELSE step[<<e, f[next[e]]>>]
  <2>. HIDE DEF size, stop, next, base, step, D
  <2>. QED
    BY <1>4, RecursionExists
<1>6. PICK f \in [D -> Progress] : \A e \in D :
        f[e] = IF e \in stop THEN base[e] ELSE step[<<e, f[next[e]]>>]
  BY <1>5
<1>7. f[{}] = none
  BY <1>6
<1>8. ASSUME NEW e \in D, e # {} PROVE f[e] = sound(e, f[e \ {Last(e)}])
  <2>1. next[e] = e \ {Last(e)} /\ next[e] \in D
    BY <1>3, <1>8
  <2>2. <<e, f[next[e]]>> \in (D \ stop) \X Progress
    BY <1>6, <1>8, <2>1
  <2>3. f[e] = step[<<e, f[next[e]]>>]
    BY <1>6, <1>8
  <2>. HIDE DEF sound
  <2>. QED
    BY <2>1, <2>2, <2>3
<1>. DEFINE N == {n \in Nat : \A e \in D : Cardinality(e) = n => Made(d, F, e, f[e])}
<1>9. 0 \in N
  <2>1. \A e \in D : Cardinality(e) = 0 => e = {}
    BY <1>2, FS_EmptySet
  <2>. QED
    BY <1>1, <1>7, <2>1
<1>10. ASSUME NEW n \in N PROVE n + 1 \in N
  <2>. SUFFICES ASSUME NEW e \in D, Cardinality(e) = n + 1 PROVE Made(d, F, e, f[e])
    OBVIOUS
  <2>1. e # {}
    BY FS_EmptySet
  <2>2. Cardinality(e \ {Last(e)}) = n /\ e \ {Last(e)} \in D
    BY <1>3, <2>1
  <2>3. Made(d, F, e \ {Last(e)}, f[e \ {Last(e)}])
    BY <2>2
  <2>4. Made(d, F, e, Absorb(d, Last(e))[f[e \ {Last(e)}]])
    BY <1>2, <2>1, <2>3, MadeStep
  <2>5. Absorb(d, Last(e))[f[e \ {Last(e)}]] \in Progress
    BY <2>4 DEF Made
  <2>6. f[e] = Absorb(d, Last(e))[f[e \ {Last(e)}]]
    BY <1>8, <2>1, <2>5
  <2>. QED
    BY <2>4, <2>6
<1>11. \A e \in D : Made(d, F, e, f[e])
  <2>1. N = Nat
    <3>1. N \in SUBSET Nat
      OBVIOUS
    <3>. HIDE DEF N
    <3>. QED
      BY <1>9, <1>10, <3>1, NatSetInduction
  <2>. QED
    BY <1>2, <2>1
<1>12. ASSUME NEW e \in D, e # {} PROVE f[e] = Absorb(d, Last(e))[f[e \ {Last(e)}]]
  <2>1. Made(d, F, e \ {Last(e)}, f[e \ {Last(e)}])
    BY <1>3, <1>11, <1>12
  <2>2. Made(d, F, e, Absorb(d, Last(e))[f[e \ {Last(e)}]])
    BY <1>2, <1>12, <2>1, MadeStep
  <2>3. Absorb(d, Last(e))[f[e \ {Last(e)}]] \in Progress
    BY <2>2 DEF Made
  <2>. QED
    BY <1>8, <1>12, <2>3
<1>13. Rule(f)
  BY <1>6, <1>7, <1>12
<1>14. Rule(Upto)
  BY <1>13
<1>15. Process(d, s, E) = Upto[E]
  BY DEF Process, none, Last
<1>. HIDE DEF Upto
<1>16. \A e \in D : f[e] = Upto[e]
  <2>1. SameRecursion(D, size, stop, next, f, Upto)
    <3>1. \A e \in stop : f[e] = Upto[e]
      BY <1>7, <1>14
    <3>2. \A e \in D \ stop : f[next[e]] = Upto[next[e]] => f[e] = Upto[e]
      <4>1. \A e \in D : e # {} => Upto[e] = Absorb(d, Last(e))[Upto[e \ {Last(e)}]]
        BY <1>14
      <4>. QED
        BY <1>12, <4>1
    <3>. HIDE DEF size, stop, next, base, step, D
    <3>. QED
      BY <1>4, <3>1, <3>2 DEF Recursion, SameRecursion
  <2>. HIDE DEF size, stop, next, base, step, D
  <2>. QED
    BY <2>1, RecursionUnique
<1>17. E \in D
  OBVIOUS
<1>. QED
  BY <1>11, <1>15, <1>16, <1>17

\* A bounded non-empty set of naturals has a largest element, which is its Max.
\* (CursorAfter takes the Max of a batch.)
LEMMA LargestElement ==
  ASSUME NEW n \in Nat, NEW S \in SUBSET (1 .. n), S # {}
  PROVE  Max(S) \in S /\ \A x \in S : x <= Max(S)
<1>. DEFINE T == {n - x : x \in S}
<1>1. T \in SUBSET Nat /\ T # {}
  <2>1. \A x \in S : n - x \in Nat
    OBVIOUS
  <2>. QED
    BY <2>1
<1>2. PICK t \in T : \A u \in T : t <= u
  <2>. HIDE DEF T
  <2>. QED
    BY <1>1, LeastOf
<1>3. PICK m \in S : t = n - m
  OBVIOUS
<1>4. \A x \in S : m >= x
  BY <1>2, <1>3
<1>. QED
  BY <1>4 DEF Max

----------------------------------------------------------------------------
(* The worker's tables *)

LEMMA EntityIsNat == \A e \in Entity : e \in Nat
<1>1. \A k \in EventKind : k.entity \in Nat
  BY DetectionAssumption
<1>. QED
  BY <1>1 DEF Entity

\* The flow of event i.
FlowAt(i) == [id |-> i, entity |-> events[i].ev.entity, ts |-> events[i].ev.ts,
              port |-> events[i].ev.port]

LEMMA FlowsFacts ==
  ASSUME events \in Seq(EventRow), NEW S \in SUBSET DOMAIN events, NEW e \in Entity
  PROVE  /\ FlowSet(FlowsOf(S, e))
         /\ \A f \in FlowsOf(S, e) : f.id \in S /\ events[f.id].ev.entity = e
<1>. DEFINE F == FlowsOf(S, e)
            I == IdsOf(S, e)
            g == [i \in I |-> FlowAt(i)]
<1>1. \A i \in I : i \in S /\ events[i].ev.entity = e
  BY DEF IdsOf
<1>2. F = {FlowAt(i) : i \in I}
  BY <1>1 DEF FlowsOf, FlowAt
<1>3. \A i \in S : i \in Nat /\ events[i].ev \in EventKind
  <2>1. \A i \in S : i \in Nat /\ events[i] \in EventRow
    OBVIOUS
  <2>. QED
    BY <2>1 DEF EventRow
<1>4. \A i \in S : /\ events[i].ev.entity \in Nat /\ events[i].ev.ts \in Nat
                   /\ events[i].ev.port \in Nat
  BY <1>3, DetectionAssumption
<1>5. \A i \in S : FlowAt(i) \in Flow /\ FlowAt(i).id = i
  BY <1>3, <1>4 DEF FlowAt, Flow
<1>6. IsFiniteSet(I)
  <2>1. Len(events) \in Nat /\ DOMAIN events = 1 .. Len(events)
    OBVIOUS
  <2>2. IsFiniteSet(1 .. Len(events))
    BY <2>1, FS_Interval
  <2>3. I \in SUBSET (1 .. Len(events))
    BY <1>1, <2>1
  <2>. QED
    BY <2>2, <2>3, FS_Subset
<1>. HIDE DEF F, I
<1>7. IsFiniteSet(F)
  <2>1. g \in [I -> F] /\ \A f \in F : \E i \in I : g[i] = f
    BY <1>2
  <2>. HIDE DEF g
  <2>2. g \in Surjection(I, F)
    BY <2>1 DEF Surjection, Range
  <2>. QED
    BY <1>6, <2>2, FS_Surjection
<1>8. \A f \in F : f \in Flow /\ f.id \in I /\ f = FlowAt(f.id)
  BY <1>1, <1>2, <1>5
<1>9. \A f, h \in F : f.id = h.id => f = h
  BY <1>8
<1>10. F \in SUBSET Flow
  BY <1>8
<1>11. FlowSet(F)
  BY <1>7, <1>9, <1>10 DEF FlowSet
<1>. QED
  BY <1>1, <1>8, <1>11 DEF F

LEMMA FlowsJoin ==
  ASSUME NEW S, NEW T, NEW e
  PROVE  FlowsOf(S \cup T, e) = FlowsOf(S, e) \cup FlowsOf(T, e)
  BY DEF FlowsOf, IdsOf

LEMMA FlowsNone ==
  ASSUME NEW S, NEW e, \A i \in S : events[i].ev.entity # e
  PROVE  FlowsOf(S, e) = {}
  BY DEF FlowsOf, IdsOf

\* What is passed is behind the cursor, what a tick holds is beyond it.
Order ==
  /\ \A i \in passed : i <= cursor
  /\ \A i \in batch : cursor < i
  /\ passed \subseteq Visible

Telling ==
  \A d \in Detector, e \in Entity : Tells(d, Saved(d, e), metrics[d][e])

\* Of the type invariant, what a tick works on.
TablesOK ==
  /\ events \in Seq(EventRow) /\ Len(events) <= MaxEvents
  /\ detections \subseteq DetectionRow
  /\ metrics \in [Detector -> [Entity -> MetricState]]
  /\ cursor \in 0 .. Len(events)
  /\ batch \subseteq Visible
  /\ passed \cup overtaken \subseteq DOMAIN events
  /\ \A d \in Detector : saved[d] \cup dropped[d] \subseteq passed

LEMMA BatchComesAfter ==
  ASSUME TablesOK, Order, NEW d \in Detector, NEW e \in Entity
  PROVE  /\ FlowSet(Saved(d, e)) /\ FlowSet(FlowsOf(batch, e))
         /\ After(Saved(d, e), FlowsOf(batch, e)) /\ After(Saved(d, e), {})
         /\ \A f \in Saved(d, e) : f.id \in saved[d] /\ f.id \in passed /\ f.id \notin batch
         /\ \A f \in FlowsOf(batch, e) : f.id \in batch /\ f.id \notin passed
<1>1. /\ saved[d] \in SUBSET DOMAIN events /\ batch \in SUBSET DOMAIN events
      /\ saved[d] \cup batch \in SUBSET DOMAIN events
      /\ saved[d] \in SUBSET passed /\ events \in Seq(EventRow)
  BY DEF TablesOK, Visible
<1>2. \A i \in DOMAIN events : i \in Nat
  BY <1>1
<1>3. cursor \in Nat
  BY <1>1 DEF TablesOK
<1>4. \A i \in passed, j \in batch : i < j
  <2>1. \A i \in passed : i \in Nat
    BY <1>2 DEF TablesOK
  <2>2. \A i \in batch : i \in Nat
    BY <1>1, <1>2
  <2>. QED
    BY <1>3, <2>1, <2>2 DEF Order
<1>5. FlowSet(Saved(d, e)) /\ \A f \in Saved(d, e) : f.id \in saved[d]
  BY <1>1, FlowsFacts DEF Saved
<1>6. FlowSet(FlowsOf(batch, e)) /\ \A f \in FlowsOf(batch, e) : f.id \in batch
  BY <1>1, FlowsFacts
<1>7. FlowSet(Saved(d, e) \cup FlowsOf(batch, e))
  <2>1. FlowSet(FlowsOf(saved[d] \cup batch, e))
    BY <1>1, FlowsFacts
  <2>2. FlowsOf(saved[d] \cup batch, e) = FlowsOf(saved[d], e) \cup FlowsOf(batch, e)
    BY FlowsJoin
  <2>. QED
    BY <2>1, <2>2, Zenon DEF Saved
<1>8. \A f \in Saved(d, e) : f.id \in passed
  BY <1>1, <1>5
<1>9. \A i \in batch : i \notin passed
  BY <1>2, <1>4, <1>1
<1>10. After(Saved(d, e), FlowsOf(batch, e))
  BY <1>4, <1>6, <1>7, <1>8 DEF After
<1>11. After(Saved(d, e), {})
  <2>1. Saved(d, e) \cup {} = Saved(d, e)
    OBVIOUS
  <2>. QED
    BY <1>5, <2>1 DEF After
<1>. QED
  BY <1>5, <1>6, <1>8, <1>9, <1>10, <1>11

\* What a detector makes of a batch.
LEMMA OutcomeMade ==
  ASSUME TablesOK, Order, Telling, NEW d \in Detector, NEW e \in Entity
  PROVE  Made(d, Saved(d, e), FlowsOf(batch, e), Outcome(batch, d, e))
<1>1. After(Saved(d, e), FlowsOf(batch, e))
  BY BatchComesAfter
<1>2. Tells(d, Saved(d, e), metrics[d][e])
  BY DEF Telling
<1>. QED
  BY <1>1, <1>2, ProcessMakes DEF Outcome

----------------------------------------------------------------------------
(* Steps that leave metrics and detections alone *)

\* What the properties are about.
Truth == Telling /\ DetectionsExact

LEMMA SavedKept ==
  ASSUME TablesOK, saved' = saved,
         \A i \in DOMAIN events : i \in DOMAIN events' /\ events'[i].ev = events[i].ev
  PROVE  \A d \in Detector, e \in Entity : Saved(d, e)' = Saved(d, e)
<1>. SUFFICES ASSUME NEW d \in Detector, NEW e \in Entity
              PROVE  Saved(d, e)' = Saved(d, e)
  OBVIOUS
<1>1. \A i \in saved[d] : events'[i].ev = events[i].ev
  BY DEF TablesOK
<1>2. IdsOf(saved[d], e)' = IdsOf(saved[d], e)
  BY <1>1 DEF IdsOf
<1>3. \A i \in IdsOf(saved[d], e) : events'[i].ev = events[i].ev
  BY <1>1 DEF IdsOf
<1>. QED
  BY <1>2, <1>3 DEF Saved, FlowsOf

LEMMA TruthKept ==
  ASSUME TablesOK, Truth, UNCHANGED <<detections, metrics, saved, dropped>>,
         \A i \in DOMAIN events : i \in DOMAIN events' /\ events'[i].ev = events[i].ev
  PROVE  Truth'
<1>1. \A d \in Detector, e \in Entity : Saved(d, e)' = Saved(d, e)
  BY SavedKept
<1>2. Telling'
  <2>. SUFFICES ASSUME NEW d \in Detector, NEW e \in Entity
                PROVE  Tells(d, Saved(d, e)', metrics'[d][e])
    BY DEF Telling
  <2>1. Tells(d, Saved(d, e), metrics[d][e])
    BY DEF Truth, Telling
  <2>2. Saved(d, e)' = Saved(d, e) /\ metrics'[d][e] = metrics[d][e]
    BY <1>1
  <2>. QED
    BY <2>1, <2>2
<1>3. DetectionsExact'
  <2>. SUFFICES ASSUME NEW d \in Detector, NEW e \in Entity
                PROVE  {o.event : o \in {o \in detections' : o.detector = d /\ o.entity = e}}
                         = {f.id : f \in {f \in Saved(d, e)' :
                              f.id \notin dropped'[d] /\ FirstAnomalous(d, Saved(d, e)', f)}}
    BY DEF DetectionsExact
  <2>1. {o.event : o \in {o \in detections : o.detector = d /\ o.entity = e}}
           = {f.id : f \in {f \in Saved(d, e) :
                f.id \notin dropped[d] /\ FirstAnomalous(d, Saved(d, e), f)}}
    BY DEF Truth, DetectionsExact
  <2>2. Saved(d, e)' = Saved(d, e)
    BY <1>1
  <2>. QED
    BY <2>1, <2>2
<1>. QED
  BY <1>2, <1>3 DEF Truth

Counters ==
  /\ failures \in 0 .. MaxFailures /\ crashes \in 0 .. MaxCrashes
  /\ pc \in {"idle", "open"} /\ (batch # {} <=> pc = "open")

DetInv == TablesOK /\ Counters /\ Order /\ Truth

LEMMA DetInvType == DetInv => TypeOK
  BY DEF DetInv, TablesOK, Counters, TypeOK

LEMMA InitDet == Init => DetInv
<1>. SUFFICES ASSUME Init PROVE DetInv
  OBVIOUS
<1>1. Fresh \in MetricState
  BY DEF Fresh, MetricState, NoBucket
<1>2. {MaxEvents, MaxFailures, MaxCrashes} \subseteq Nat
  BY DetectionAssumption
<1>3. TablesOK
  <2>1. events \in Seq(EventRow) /\ Len(events) = 0 /\ cursor = 0
    BY DEF Init
  <2>2. metrics \in [Detector -> [Entity -> MetricState]]
    BY <1>1 DEF Init
  <2>3. detections = {} /\ batch = {} /\ passed = {} /\ overtaken = {}
        /\ \A d \in Detector : saved[d] = {} /\ dropped[d] = {}
    BY DEF Init
  <2>. QED
    BY <1>2, <2>1, <2>2, <2>3 DEF TablesOK
<1>4. Counters /\ Order
  BY <1>2 DEF Init, Counters, Order
<1>5. \A d \in Detector, e \in Entity : Saved(d, e) = {} /\ metrics[d][e] = Fresh
  BY DEF Init, Saved, FlowsOf, IdsOf
<1>6. Telling
  BY <1>5 DEF Telling, Tells
<1>7. DetectionsExact
  <2>1. detections = {}
    BY DEF Init
  <2>. QED
    BY <1>5, <2>1 DEF DetectionsExact
<1>. QED
  BY <1>3, <1>4, <1>6, <1>7 DEF DetInv, Truth

LEMMA InsertDet ==
  ASSUME DetInv, NEW w \in Writer, InsertEvent(w)
  PROVE  DetInv'
<1>. USE DEF DetInv
<1>1. PICK k \in EventKind : events' = Append(events, [ev |-> k, tx |-> w])
  BY DEF InsertEvent
<1>2. [ev |-> k, tx |-> w] \in EventRow
  BY DEF EventRow
<1>3. events \in Seq(EventRow) /\ Len(events) \in Nat /\ DOMAIN events = 1 .. Len(events)
  BY DEF TablesOK
<1>4. /\ Len(events') = Len(events) + 1 /\ events' \in Seq(EventRow)
      /\ DOMAIN events' = 1 .. Len(events) + 1
      /\ \A i \in 1 .. Len(events) : events'[i] = events[i]
  BY <1>1, <1>2, <1>3
<1>5. Len(events') <= MaxEvents
  <2>1. Len(events) < MaxEvents /\ MaxEvents \in Nat
    BY DetectionAssumption DEF InsertEvent
  <2>. QED
    BY <1>3, <1>4, <2>1
<1>6. UNCHANGED <<detections, metrics, cursor, pc, batch, failures, crashes, overtaken,
                  passed, saved, dropped>>
  BY DEF InsertEvent, tables, history
<1>7. \A i \in DOMAIN events : i \in DOMAIN events' /\ events'[i] = events[i]
  BY <1>3, <1>4
<1>8. Visible \subseteq Visible'
  BY <1>7 DEF Visible
<1>9. TablesOK'
  <2>1. cursor \in 0 .. Len(events')
    BY <1>3, <1>4 DEF TablesOK
  <2>2. passed \cup overtaken \subseteq DOMAIN events'
    BY <1>7 DEF TablesOK
  <2>. QED
    BY <1>4, <1>5, <1>6, <1>8, <2>1, <2>2 DEF TablesOK
<1>10. Counters' /\ Order'
  BY <1>6, <1>8 DEF Counters, Order
<1>11. Truth'
  BY <1>6, <1>7, TruthKept
<1>. QED
  BY <1>9, <1>10, <1>11

LEMMA EndInsertDet ==
  ASSUME DetInv, NEW w \in Writer, EndInsert(w)
  PROVE  DetInv'
<1>. USE DEF DetInv
<1>1. PICK end \in {"committed", "gone"} :
        events' = [i \in DOMAIN events |->
                     IF events[i].tx = w THEN [events[i] EXCEPT !.tx = end] ELSE events[i]]
  BY DEF EndInsert
<1>2. events \in Seq(EventRow) /\ Len(events) \in Nat /\ DOMAIN events = 1 .. Len(events)
  BY DEF TablesOK
<1>3. \A i \in DOMAIN events : events[i] \in EventRow
  BY <1>2
<1>4. w # "committed"
  BY DetectionAssumption
<1>5. \A i \in DOMAIN events :
        /\ events'[i] \in EventRow /\ events'[i].ev = events[i].ev
        /\ events[i].tx = "committed" => events'[i].tx = "committed"
  BY <1>1, <1>3, <1>4 DEF EventRow
<1>6. events' \in Seq(EventRow) /\ Len(events') = Len(events) /\ DOMAIN events' = DOMAIN events
  BY <1>1, <1>2, <1>5
<1>7. UNCHANGED <<detections, metrics, cursor, pc, batch, failures, crashes, overtaken,
                  passed, saved, dropped>>
  BY DEF EndInsert, tables, history
<1>8. Visible \subseteq Visible'
  BY <1>5, <1>6 DEF Visible
<1>9. TablesOK'
  BY <1>6, <1>7, <1>8 DEF TablesOK
<1>10. Counters' /\ Order'
  BY <1>7, <1>8 DEF Counters, Order
<1>11. Truth'
  BY <1>5, <1>6, <1>7, TruthKept
<1>. QED
  BY <1>9, <1>10, <1>11

LEMMA FetchDet == DetInv /\ Fetch => DetInv'
<1>. SUFFICES ASSUME DetInv, Fetch PROVE DetInv'
  OBVIOUS
<1>. USE DEF DetInv
<1>1. /\ UNCHANGED <<events, detections, metrics, cursor, failures, crashes, passed, saved, dropped>>
      /\ pc' = "open" /\ batch' = NextBatch /\ NextBatch # {}
      /\ overtaken' = overtaken \cup
           {i \in DOMAIN events : events[i].tx \in Writer /\ i < Max(NextBatch)}
  BY DEF Fetch, tables, history
<1>2. NextBatch \subseteq Visible /\ \A i \in NextBatch : cursor < i
  <2>1. cursor \in Nat /\ \A i \in Visible : i \in Nat
    BY DEF TablesOK, Visible
  <2>. QED
    BY <2>1 DEF NextBatch
<1>3. TablesOK'
  BY <1>1, <1>2 DEF TablesOK, Visible
<1>4. Counters' /\ Order'
  BY <1>1, <1>2 DEF Counters, Order, Visible
<1>5. Truth'
  BY <1>1, TruthKept
<1>. QED
  BY <1>3, <1>4, <1>5

LEMMA RollbackDet == DetInv /\ (Refused \/ Crash) => DetInv'
<1>. SUFFICES ASSUME DetInv, Refused \/ Crash PROVE DetInv'
  OBVIOUS
<1>. USE DEF DetInv
<1>1. /\ UNCHANGED <<events, detections, metrics, cursor, failures, passed, saved, dropped, overtaken>>
      /\ pc' = "idle" /\ batch' = {}
      /\ crashes' = crashes \/ (crashes < MaxCrashes /\ crashes' = crashes + 1)
  BY DEF Refused, Crash, tables, history
<1>2. TablesOK'
  BY <1>1 DEF TablesOK, Visible
<1>3. Counters' /\ Order'
  <2>1. MaxCrashes \in Nat
    BY DetectionAssumption
  <2>. QED
    BY <1>1, <2>1 DEF Counters, Order, Visible
<1>4. Truth'
  BY <1>1, TruthKept
<1>. QED
  BY <1>2, <1>3, <1>4

LEMMA StutterDet == DetInv /\ UNCHANGED vars => DetInv'
<1>. SUFFICES ASSUME DetInv, UNCHANGED vars PROVE DetInv'
  OBVIOUS
<1>. USE DEF DetInv
<1>1. UNCHANGED <<events, detections, metrics, cursor, pc, batch, failures, crashes, overtaken,
                  passed, saved, dropped>>
  BY DEF vars, tables, history
<1>2. TablesOK' /\ Counters' /\ Order'
  BY <1>1 DEF TablesOK, Counters, Order, Visible
<1>3. Truth'
  BY <1>1, TruthKept
<1>. QED
  BY <1>2, <1>3

----------------------------------------------------------------------------
(* The commit of a tick *)

\* What Commit writes, when the detectors raise at stop.
Writes(stop) ==
  /\ stop \in [Detector -> {{}} \cup {{e} : e \in Stops(batch)}]
  /\ detections' = Recorded(Found(batch, stop))
  /\ metrics' = [d \in Detector |-> [e \in Entity |->
       IF e \in Finished(batch, stop[d]) THEN Outcome(batch, d, e).state ELSE metrics[d][e]]]
  /\ saved' = [d \in Detector |-> saved[d] \cup
       UNION {IdsOf(batch, e) : e \in Finished(batch, stop[d])}]
  /\ dropped' = [d \in Detector |-> dropped[d] \cup IF stop[d] = {} THEN {} ELSE batch]
  /\ cursor' = Max(batch) /\ passed' = passed \cup batch /\ batch' = {}
  /\ UNCHANGED <<events, overtaken>>

\* The flows whose effect on d and e the tick saves.
New(stop, d, e) == IF e \in Finished(batch, stop[d]) THEN FlowsOf(batch, e) ELSE {}

LEMMA SavedGrows ==
  ASSUME NEW stop, Writes(stop), NEW d \in Detector, NEW e \in Entity
  PROVE  Saved(d, e)' = Saved(d, e) \cup New(stop, d, e)
<1>. DEFINE U == UNION {IdsOf(batch, x) : x \in Finished(batch, stop[d])}
<1>1. Saved(d, e)' = FlowsOf(saved[d] \cup U, e)
  <2>1. saved'[d] = saved[d] \cup U /\ events' = events
    BY DEF Writes
  <2>2. Saved(d, e)' = FlowsOf(saved'[d], e)
    BY <2>1 DEF Saved, FlowsOf, IdsOf
  <2>. QED
    BY <2>1, <2>2
<1>2. FlowsOf(saved[d] \cup U, e) = Saved(d, e) \cup FlowsOf(U, e)
  <2>. HIDE DEF U
  <2>1. FlowsOf(saved[d] \cup U, e) = FlowsOf(saved[d], e) \cup FlowsOf(U, e)
    BY FlowsJoin
  <2>. QED
    BY <2>1, Zenon DEF Saved
<1>3. FlowsOf(U, e) = New(stop, d, e)
  <2>1. CASE e \in Finished(batch, stop[d])
    <3>1. IdsOf(U, e) = IdsOf(batch, e)
      BY <2>1 DEF IdsOf
    <3>. QED
      BY <2>1, <3>1 DEF New, FlowsOf
  <2>2. CASE e \notin Finished(batch, stop[d])
    <3>1. \A i \in U : events[i].ev.entity # e
      BY <2>2 DEF IdsOf
    <3>. HIDE DEF U
    <3>2. FlowsOf(U, e) = {}
      BY <3>1, FlowsNone
    <3>. QED
      BY <2>2, <3>2 DEF New
  <2>. QED
    BY <2>1, <2>2
<1>. QED
  BY <1>1, <1>2, <1>3

\* A detector that does not raise finishes every entity.
LEMMA NewOfBatch ==
  ASSUME TablesOK, NEW stop, Writes(stop), NEW d \in Detector, stop[d] = {}, NEW e \in Entity
  PROVE  New(stop, d, e) = FlowsOf(batch, e)
<1>1. CASE e \in Stops(batch)
  BY <1>1 DEF New, Finished
<1>2. CASE e \notin Stops(batch)
  <2>1. \A i \in batch : events[i].ev.entity # e
    BY <1>2 DEF Stops
  <2>2. FlowsOf(batch, e) = {}
    BY <2>1, FlowsNone
  <2>. QED
    BY <2>2 DEF New
<1>. QED
  BY <1>1, <1>2

LEMMA CommitTelling ==
  ASSUME TablesOK, Order, Truth, NEW stop, Writes(stop)
  PROVE  Telling'
<1>. SUFFICES ASSUME NEW d \in Detector, NEW e \in Entity
              PROVE  Tells(d, Saved(d, e)', metrics'[d][e])
  BY DEF Telling
<1>1. Saved(d, e)' = Saved(d, e) \cup New(stop, d, e)
  BY SavedGrows
<1>2. metrics'[d][e] = IF e \in Finished(batch, stop[d]) THEN Outcome(batch, d, e).state
                       ELSE metrics[d][e]
  BY DEF Writes
<1>3. CASE e \in Finished(batch, stop[d])
  <2>1. Tells(d, Saved(d, e) \cup FlowsOf(batch, e), Outcome(batch, d, e).state)
    BY OutcomeMade DEF Made, Truth
  <2>. QED
    BY <1>1, <1>2, <1>3, <2>1 DEF New
<1>4. CASE e \notin Finished(batch, stop[d])
  <2>1. Tells(d, Saved(d, e), metrics[d][e])
    BY DEF Truth, Telling
  <2>2. Saved(d, e) \cup {} = Saved(d, e)
    OBVIOUS
  <2>. QED
    BY <1>1, <1>2, <1>4, <2>1, <2>2 DEF New
<1>. QED
  BY <1>3, <1>4

\* Nothing that was found is recorded already.
LEMMA AllRecorded ==
  ASSUME TablesOK, Order, Truth, NEW stop, Writes(stop)
  PROVE  /\ detections' = detections \cup Found(batch, stop)
         /\ \A a \in Found(batch, stop) : a \in DetectionRow /\ a.event \in batch
         /\ \A d \in Detector, e \in Entity : \A i :
              [event |-> i, entity |-> e, detector |-> d] \in Found(batch, stop)
                <=> stop[d] = {} /\ i \in Outcome(batch, d, e).fires
<1>1. ASSUME NEW d \in Detector, NEW e \in Entity, NEW i \in Outcome(batch, d, e).fires
      PROVE  i \in batch /\ i \in 1 .. MaxEvents
  <2>1. Made(d, Saved(d, e), FlowsOf(batch, e), Outcome(batch, d, e))
    BY OutcomeMade DEF Truth
  <2>2. i \in {x.id : x \in FlowsOf(batch, e)}
    BY <2>1 DEF Made
  <2>3. i \in batch
    BY <2>2, BatchComesAfter
  <2>4. batch \subseteq 1 .. Len(events) /\ Len(events) \in Nat /\ Len(events) <= MaxEvents
    BY DEF TablesOK, Visible
  <2>5. MaxEvents \in Nat
    BY DetectionAssumption
  <2>. QED
    BY <2>3, <2>4, <2>5
<1>2. \A d : \A a \in Alarms(batch, d) : \E e \in Entity : \E i \in Outcome(batch, d, e).fires :
        a = [event |-> i, entity |-> e, detector |-> d]
  BY DEF Alarms
<1>3. \A d \in Detector : d \in Raising(stop) <=> stop[d] # {}
  BY DEF Raising
<1>4. \A a \in Found(batch, stop) : \E d \in Detector \ Raising(stop) : a \in Alarms(batch, d)
  BY DEF Found
<1>5. \A a \in Found(batch, stop) : a \in DetectionRow /\ a.event \in batch
  <2>. SUFFICES ASSUME NEW a \in Found(batch, stop)
                PROVE  a \in DetectionRow /\ a.event \in batch
    OBVIOUS
  <2>1. PICK d \in Detector : a \in Alarms(batch, d)
    BY <1>4
  <2>2. PICK e \in Entity : \E i \in Outcome(batch, d, e).fires :
          a = [event |-> i, entity |-> e, detector |-> d]
    BY <1>2, <2>1
  <2>3. PICK i \in Outcome(batch, d, e).fires : a = [event |-> i, entity |-> e, detector |-> d]
    BY <2>2
  <2>4. i \in batch /\ i \in 1 .. MaxEvents
    BY <1>1
  <2>. QED
    BY <2>3, <2>4 DEF DetectionRow
<1>6. ASSUME NEW d \in Detector, NEW e \in Entity, NEW i
      PROVE  [event |-> i, entity |-> e, detector |-> d] \in Found(batch, stop)
               <=> stop[d] = {} /\ i \in Outcome(batch, d, e).fires
  <2>. DEFINE a == [event |-> i, entity |-> e, detector |-> d]
  <2>1. ASSUME a \in Found(batch, stop)
        PROVE  stop[d] = {} /\ i \in Outcome(batch, d, e).fires
    <3>1. PICK c \in Detector \ Raising(stop) : a \in Alarms(batch, c)
      BY <1>4, <2>1
    <3>2. PICK x \in Entity : \E j \in Outcome(batch, c, x).fires :
            a = [event |-> j, entity |-> x, detector |-> c]
      BY <1>2, <3>1
    <3>3. PICK j \in Outcome(batch, c, x).fires : a = [event |-> j, entity |-> x, detector |-> c]
      BY <3>2
    <3>4. j = i /\ x = e /\ c = d
      BY <3>3
    <3>. QED
      BY <1>3, <3>1, <3>3, <3>4
  <2>2. ASSUME stop[d] = {}, i \in Outcome(batch, d, e).fires
        PROVE  a \in Found(batch, stop)
    <3>1. a \in Alarms(batch, d)
      BY <2>2 DEF Alarms
    <3>2. d \in Detector \ Raising(stop)
      BY <1>3, <2>2
    <3>. QED
      BY <3>1, <3>2 DEF Found
  <2>. QED
    BY <2>1, <2>2
<1>7. \A o \in detections : o.event \in passed
  <2>. SUFFICES ASSUME NEW o \in detections PROVE o.event \in passed
    OBVIOUS
  <2>1. o.detector \in Detector /\ o.entity \in Entity
    BY DEF TablesOK, DetectionRow
  <2>. DEFINE d == o.detector
              e == o.entity
  <2>2. o.event \in {x.event : x \in {x \in detections : x.detector = d /\ x.entity = e}}
    OBVIOUS
  <2>3. o.event \in {f.id : f \in {f \in Saved(d, e) :
           f.id \notin dropped[d] /\ FirstAnomalous(d, Saved(d, e), f)}}
    BY <2>1, <2>2 DEF Truth, DetectionsExact
  <2>. QED
    BY <2>1, <2>3, BatchComesAfter
<1>8. \A i \in batch : i \notin passed
  <2>1. \A i \in passed : i \in Nat /\ i <= cursor /\ cursor \in Nat
    BY DEF TablesOK, Order, Visible
  <2>. QED
    BY <2>1 DEF Order
<1>9. detections' = detections \cup Found(batch, stop)
  <2>1. \A a \in Found(batch, stop) : \A o \in detections :
          <<o.event, o.detector>> # <<a.event, a.detector>>
    BY <1>5, <1>7, <1>8
  <2>2. {a \in Found(batch, stop) : \A o \in detections :
          <<o.event, o.detector>> # <<a.event, a.detector>>} = Found(batch, stop)
    BY <2>1
  <2>3. detections' = Recorded(Found(batch, stop))
    BY DEF Writes
  <2>. QED
    BY <2>2, <2>3 DEF Recorded
<1>. QED
  BY <1>5, <1>6, <1>9

LEMMA CommitExact ==
  ASSUME TablesOK, Order, Truth, NEW stop, Writes(stop)
  PROVE  DetectionsExact'
<1>. SUFFICES ASSUME NEW d \in Detector, NEW e \in Entity
              PROVE  {o.event : o \in {o \in detections' : o.detector = d /\ o.entity = e}}
                       = {f.id : f \in {f \in Saved(d, e)' :
                            f.id \notin dropped'[d] /\ FirstAnomalous(d, Saved(d, e)', f)}}
  BY DEF DetectionsExact
<1>. DEFINE F == Saved(d, e)
            E == FlowsOf(batch, e)
            X == New(stop, d, e)
            G == F \cup X
            Of(t) == {o.event : o \in {o \in t : o.detector = d /\ o.entity = e}}
            found == {i \in Outcome(batch, d, e).fires : stop[d] = {}}
<1>1. /\ FlowSet(F) /\ FlowSet(E) /\ After(F, E)
      /\ \A f \in F : f.id \in passed /\ f.id \notin batch
      /\ \A f \in E : f.id \in batch /\ f.id \notin passed
  BY BatchComesAfter
<1>2. Of(detections) = {f.id : f \in {f \in F : f.id \notin dropped[d] /\ FirstAnomalous(d, F, f)}}
  BY DEF Truth, DetectionsExact
<1>3. Saved(d, e)' = G
  BY SavedGrows
<1>4. dropped'[d] = dropped[d] \cup IF stop[d] = {} THEN {} ELSE batch
  BY DEF Writes
<1>5. dropped[d] \subseteq passed
  BY DEF TablesOK
<1>6. X \subseteq E
  BY DEF New
<1>7. FlowSet(G) /\ Extends(F, G)
  <2>1. G \in SUBSET (F \cup E)
    BY <1>6
  <2>2. FlowSet(G)
    BY <1>1, <2>1, FS_Subset DEF After, FlowSet
  <2>3. Extends(F, G)
    BY <1>1, <1>6 DEF After, Extends
  <2>. QED
    BY <2>2, <2>3
<1>8. \A f \in F : FirstAnomalous(d, F, f) <=> FirstAnomalous(d, G, f)
  BY <1>7, AnomalousStable
<1>9. found = {f.id : f \in {f \in X : f.id \notin dropped'[d] /\ FirstAnomalous(d, G, f)}}
  <2>1. CASE stop[d] = {}
    <3>1. X = E
      BY <2>1, NewOfBatch
    <3>2. Outcome(batch, d, e).fires = {f.id : f \in {f \in E : FirstAnomalous(d, F \cup E, f)}}
      BY OutcomeMade DEF Made, Truth
    <3>3. \A f \in E : f.id \notin dropped'[d]
      BY <1>1, <1>4, <1>5, <2>1
    <3>4. {f \in X : f.id \notin dropped'[d] /\ FirstAnomalous(d, G, f)}
            = {f \in E : FirstAnomalous(d, F \cup E, f)}
      <4>. HIDE DEF E, F, X
      <4>. QED
        BY <3>1, <3>3
    <3>. QED
      BY <2>1, <3>2, <3>4
  <2>2. CASE stop[d] # {}
    <3>1. \A f \in X : f.id \in dropped'[d]
      BY <1>1, <1>4, <1>6, <2>2
    <3>. QED
      BY <2>2, <3>1
  <2>. QED
    BY <2>1, <2>2
<1>10. {f \in F : f.id \notin dropped[d] /\ FirstAnomalous(d, F, f)}
         = {f \in F : f.id \notin dropped'[d] /\ FirstAnomalous(d, G, f)}
  <2>1. \A f \in F : f.id \in dropped[d] <=> f.id \in dropped'[d]
    BY <1>1, <1>4
  <2>. QED
    BY <1>8, <2>1
<1>11. Of(detections') = Of(detections) \cup found
  <2>1. /\ detections' = detections \cup Found(batch, stop)
        /\ \A a \in Found(batch, stop) : a \in DetectionRow
        /\ \A i : [event |-> i, entity |-> e, detector |-> d] \in Found(batch, stop)
             <=> stop[d] = {} /\ i \in Outcome(batch, d, e).fires
    BY AllRecorded
  <2>2. Of(Found(batch, stop)) = found
    <3>1. \A a \in Found(batch, stop) :
            a = [event |-> a.event, entity |-> a.entity, detector |-> a.detector]
      BY <2>1 DEF DetectionRow
    <3>2. ASSUME NEW i \in Of(Found(batch, stop)) PROVE i \in found
      <4>1. PICK a \in Found(batch, stop) : a.detector = d /\ a.entity = e /\ a.event = i
        OBVIOUS
      <4>2. a = [event |-> i, entity |-> e, detector |-> d]
        BY <3>1, <4>1
      <4>. QED
        BY <2>1, <4>1, <4>2
    <3>3. ASSUME NEW i \in found PROVE i \in Of(Found(batch, stop))
      <4>. DEFINE a == [event |-> i, entity |-> e, detector |-> d]
      <4>1. a \in Found(batch, stop)
        BY <2>1
      <4>2. a.detector = d /\ a.entity = e /\ a.event = i
        OBVIOUS
      <4>. QED
        BY <4>1, <4>2
    <3>. QED
      BY <3>2, <3>3
  <2>3. Of(detections \cup Found(batch, stop)) = Of(detections) \cup Of(Found(batch, stop))
    OBVIOUS
  <2>. QED
    BY <2>1, <2>2, <2>3
<1>12. {f.id : f \in {f \in G : f.id \notin dropped'[d] /\ FirstAnomalous(d, G, f)}}
         = {f.id : f \in {f \in F : f.id \notin dropped'[d] /\ FirstAnomalous(d, G, f)}}
           \cup {f.id : f \in {f \in X : f.id \notin dropped'[d] /\ FirstAnomalous(d, G, f)}}
  <2>. DEFINE Q(f) == f.id \notin dropped'[d] /\ FirstAnomalous(d, G, f)
  <2>. HIDE DEF Q, F, X
  <2>1. {f.id : f \in {f \in G : Q(f)}} = {f.id : f \in {f \in F : Q(f)}} \cup {f.id : f \in {f \in X : Q(f)}}
    OBVIOUS
  <2>. QED
    BY <2>1 DEF Q
<1>. HIDE DEF F, E, X, found
<1>. QED
  BY <1>2, <1>3, <1>9, <1>10, <1>11, <1>12

LEMMA CommitDet ==
  ASSUME DetInv, Commit
  PROVE  DetInv'
<1>. USE DEF DetInv
<1>1. PICK stop \in [Detector -> {{}} \cup {{e} : e \in Stops(batch)}] :
        /\ failures' = failures + Cardinality(Raising(stop))
        /\ failures' <= MaxFailures
        /\ detections' = Recorded(Found(batch, stop))
        /\ metrics' = [d \in Detector |-> [e \in Entity |->
             IF e \in Finished(batch, stop[d]) THEN Outcome(batch, d, e).state ELSE metrics[d][e]]]
        /\ saved' = [d \in Detector |-> saved[d] \cup
             UNION {IdsOf(batch, e) : e \in Finished(batch, stop[d])}]
        /\ dropped' = [d \in Detector |-> dropped[d] \cup
             IF stop[d] = {} THEN {} ELSE batch]
  BY DEF Commit
<1>2. /\ pc = "open" /\ pc' = "idle" /\ batch' = {} /\ UNCHANGED <<events, crashes, overtaken>>
      /\ cursor' = Max(batch) /\ passed' = passed \cup batch
  BY DEF Commit, CursorAfter
<1>3. Writes(stop)
  BY <1>1, <1>2 DEF Writes
<1>4. Max(batch) \in 1 .. Len(events) /\ Max(batch) \in batch /\ \A i \in batch : i <= Max(batch)
  <2>1. batch \in SUBSET (1 .. Len(events)) /\ Len(events) \in Nat
    BY DEF TablesOK, Visible
  <2>2. batch # {}
    BY <1>2 DEF Counters
  <2>. QED
    BY <2>1, <2>2, LargestElement
<1>5. TablesOK'
  <2>1. detections' \subseteq DetectionRow
    BY <1>3, AllRecorded DEF TablesOK
  <2>2. metrics' \in [Detector -> [Entity -> MetricState]]
    <3>1. ASSUME NEW d \in Detector, NEW e \in Entity
          PROVE  Outcome(batch, d, e).state \in MetricState /\ metrics[d][e] \in MetricState
      <4>1. Outcome(batch, d, e) \in Progress
        BY OutcomeMade DEF Made, Truth
      <4>. QED
        BY <4>1 DEF Progress, TablesOK
    <3>. QED
      BY <1>1, <3>1
  <2>3. cursor' \in 0 .. Len(events)
    BY <1>2, <1>4
  <2>4. batch \subseteq DOMAIN events
    BY DEF TablesOK, Visible
  <2>5. \A d \in Detector : saved'[d] \cup dropped'[d] \subseteq passed'
    <3>1. \A e : IdsOf(batch, e) \subseteq batch
      BY DEF IdsOf
    <3>. QED
      BY <1>1, <1>2, <3>1 DEF TablesOK
  <2>. QED
    BY <1>2, <2>1, <2>2, <2>3, <2>4, <2>5 DEF TablesOK
<1>6. Counters'
  <2>1. IsFiniteSet(Detector)
    <3>1. Detector = ({} \cup {"rate_deviation"}) \cup {"port_velocity"}
      BY DEF Detector
    <3>2. IsFiniteSet({} \cup {"rate_deviation"})
      BY FS_EmptySet, FS_AddElement
    <3>. QED
      BY <3>1, <3>2, FS_AddElement
  <2>2. Raising(stop) \in SUBSET Detector
    BY DEF Raising
  <2>3. Cardinality(Raising(stop)) \in Nat
    BY <2>1, <2>2, FS_Subset, FS_CardinalityType
  <2>4. MaxFailures \in Nat
    BY DetectionAssumption
  <2>. QED
    BY <1>1, <1>2, <2>3, <2>4 DEF Counters
<1>7. Order'
  <2>1. \A i \in passed : i <= cursor /\ i \in Nat
    BY DEF Order, TablesOK, Visible
  <2>2. cursor < Max(batch) /\ cursor \in Nat /\ Max(batch) \in Nat
    BY <1>4 DEF Order, TablesOK
  <2>3. \A i \in passed \cup batch : i <= Max(batch)
    BY <1>4, <2>1, <2>2
  <2>4. Visible' = Visible
    BY <1>2 DEF Visible
  <2>. QED
    BY <1>2, <2>3, <2>4 DEF Order, TablesOK
<1>8. Truth'
  BY <1>3, CommitTelling, CommitExact DEF Truth
<1>. QED
  BY <1>5, <1>6, <1>7, <1>8

LEMMA NextDet == DetInv /\ [Next]_vars => DetInv'
<1>. SUFFICES ASSUME DetInv, [Next]_vars PROVE DetInv'
  OBVIOUS
<1>1. ASSUME NEW w \in Writer, InsertEvent(w) PROVE DetInv'
  BY <1>1, InsertDet
<1>2. ASSUME NEW w \in Writer, EndInsert(w) PROVE DetInv'
  BY <1>2, EndInsertDet
<1>3. CASE Fetch
  BY <1>3, FetchDet
<1>4. CASE Commit
  BY <1>4, CommitDet
<1>5. CASE Refused \/ Crash
  BY <1>5, RollbackDet
<1>6. CASE Idle \/ UNCHANGED vars
  BY <1>6, StutterDet DEF Idle
<1>. QED
  BY <1>1, <1>2, <1>3, <1>4, <1>5, <1>6 DEF Next

\* The tables keep their types: in particular a commit moves the cursor to an event
\* there is, and what a detector saved or lost was in a committed tick. (The schema of
\* persistence/models.py; tick.)
THEOREM TypesCorrect == Spec => []TypeOK
<1>1. DetInv => TypeOK
  BY DetInvType
<1>. QED
  BY <1>1, InitDet, NextDet, PTL DEF Spec

LEMMA TellingSaysMetrics == TablesOK /\ Order /\ Telling => MetricsTellEvents
<1>. SUFFICES ASSUME TablesOK, Order, Telling, NEW d \in Detector, NEW e \in Entity
              PROVE  LET s == metrics[d][e]
                         F == Saved(d, e)
                         h == History(d, F, s.start)
                         live == InBucket(F, s.start)
                     IN IF F = {} THEN s = Fresh
                        ELSE /\ s.start = Max({Bucket(f) : f \in OnTime(F)})
                             /\ s.value = ValueOf(d, live)
                             /\ <<s.n, s.sum, s.dev>> = <<Size(h), Total(h), Deviation(h)>>
                             /\ s.fired <=> \E f \in live : Anomalous(d, F, f)
  BY DEF MetricsTellEvents
<1>. DEFINE s == metrics[d][e]
            F == Saved(d, e)
<1>1. Tells(d, F, s)
  BY DEF Telling
<1>. HIDE DEF s, F
<1>2. CASE F = {}
  BY <1>1, <1>2 DEF Tells, s, F
<1>3. CASE F # {}
  <2>1. /\ Has(d, F, s, s.start) /\ Reaches(F, s.start)
        /\ \E f \in OnTime(F) : Bucket(f) = s.start
    BY <1>1, <1>3 DEF Tells
  <2>2. s.start = Max({Bucket(f) : f \in OnTime(F)})
    <3>. DEFINE B == {Bucket(f) : f \in OnTime(F)}
    <3>1. \A f \in OnTime(F) : f \in F /\ Bucket(f) \in Nat
      <4>1. FlowSet(F)
        BY BatchComesAfter DEF F
      <4>. QED
        BY <4>1, BucketFacts DEF FlowSet, OnTime
    <3>2. s.start \in B /\ s.start \in Nat
      BY <2>1 DEF Reaches
    <3>3. \A b \in B : b \in Nat /\ b <= s.start
      BY <2>1, <3>1 DEF Reaches
    <3>. HIDE DEF B
    <3>4. \A b \in B : (\A c \in B : b >= c) => b = s.start
      BY <3>2, <3>3
    <3>5. s.start \in B /\ \A c \in B : s.start >= c
      BY <3>2, <3>3
    <3>. QED
      BY <3>4, <3>5 DEF Max, B
  <2>. QED
    BY <1>3, <2>1, <2>2 DEF Has, s, F
<1>. QED
  BY <1>2, <1>3

\* The metric state of an entity is the one that its saved events define, in whatever
\* batches they were processed: live bucket, mean and variance of the buckets before
\* with the empty ones, fired flag. For every window, trigger, history and threshold,
\* any events, normalizers, batch size, raising detectors and crashes. (process,
\* roll_buckets, update_welford, _load and _save.)
THEOREM MetricsTellEventsHolds == Spec => []MetricsTellEvents
<1>1. DetInv => MetricsTellEvents
  BY TellingSaysMetrics DEF DetInv, Truth
<1>. QED
  BY <1>1, InitDet, NextDet, PTL DEF Spec

\* The detections of an entity are on exactly the first anomalous event of each of its
\* buckets, save those of a call that raised. (process: fired; record_detections; the
\* try of tick.)
THEOREM DetectionsExactHolds == Spec => []DetectionsExact
<1>1. DetInv => DetectionsExact
  BY DEF DetInv, Truth
<1>. QED
  BY <1>1, InitDet, NextDet, PTL DEF Spec

----------------------------------------------------------------------------
(* The cursor *)

\* What is used of the events table.
EventsOK == events \in Seq(EventRow) /\ cursor \in 0 .. Len(events)

\* A batch is the first visible events beyond the cursor, without holes.
\* (_fetch_batch: order_by, limit.)
LEMMA BatchIsPrefix ==
  ASSUME EventsOK, NextBatch # {}
  PROVE  /\ Max(NextBatch) \in NextBatch
         /\ NextBatch \subseteq Visible
         /\ \A i \in Visible : cursor < i /\ i <= Max(NextBatch) => i \in NextBatch
<1> DEFINE Ahead(m) == {j \in Visible : cursor < j /\ j < m}
<1>1. Visible \subseteq 1 .. Len(events) /\ Len(events) \in Nat /\ cursor \in Nat
  BY DEF EventsOK, Visible
<1>2. NextBatch \subseteq Visible
  BY DEF NextBatch
<1>3. Max(NextBatch) \in NextBatch
  BY <1>1, <1>2, LargestElement
<1>4. BatchSize \in Nat
  BY DetectionAssumption
<1>5. ASSUME NEW i \in Visible, cursor < i, i <= Max(NextBatch)
      PROVE  i \in NextBatch
  <2>1. Ahead(i) \subseteq Ahead(Max(NextBatch))
    <3>1. i \in Nat /\ Max(NextBatch) \in Nat /\ \A j \in Visible : j \in Nat
      <4>1. \A j \in Visible : j \in 1 .. Len(events)
        BY <1>1
      <4>2. Max(NextBatch) \in Visible
        BY <1>2, <1>3
      <4>3. \A j \in 1 .. Len(events) : j \in Nat
        BY <1>1
      <4> QED BY <4>1, <4>2, <4>3
    <3>2. \A j \in Visible : j < i => j < Max(NextBatch)
      BY <1>5, <3>1
    <3> QED BY <3>2
  <2>2. IsFiniteSet(Ahead(Max(NextBatch))) /\ IsFiniteSet(Ahead(i))
    <3>1. IsFiniteSet(1 .. Len(events))
      BY <1>1, FS_Interval
    <3>2. Ahead(i) \in SUBSET (1 .. Len(events))
      BY <1>1
    <3>3. Ahead(Max(NextBatch)) \in SUBSET (1 .. Len(events))
      BY <1>1
    <3> HIDE DEF Ahead
    <3> QED BY <3>1, <3>2, <3>3, FS_Subset
  <2>3. Cardinality(Ahead(i)) <= Cardinality(Ahead(Max(NextBatch)))
    BY <2>1, <2>2, FS_Subset
  <2>4. Cardinality(Ahead(i)) \in Nat /\ Cardinality(Ahead(Max(NextBatch))) \in Nat
    BY <2>2, FS_CardinalityType
  <2>5. Cardinality(Ahead(Max(NextBatch))) < BatchSize
    BY <1>3 DEF NextBatch
  <2>6. Cardinality(Ahead(i)) < BatchSize
    BY <1>4, <2>3, <2>4, <2>5
  <2> QED BY <1>5, <2>6 DEF NextBatch
<1> QED BY <1>2, <1>3, <1>5

\* Rows up to an id that are or may become visible are in a set.
Accounted(low, high, ids) ==
  \A i \in DOMAIN events : low < i /\ i <= high /\ events[i].tx # "gone" => i \in ids

TickOK ==
  /\ pc \in {"idle", "open"}
  /\ batch \subseteq Visible
  /\ pc = "open" => batch # {}

\* Behind the cursor, and in a tick behind the end of its batch, there are only
\* events of committed ticks, or of this one, and overtaken ones.
Swept ==
  /\ Accounted(0, cursor, passed \cup overtaken)
  /\ pc = "open" => Accounted(cursor, Max(batch), batch \cup overtaken)

CursorInv == EventsOK /\ TickOK /\ Swept

LEMMA InitCursor == Init => CursorInv
  BY DEF Init, CursorInv, EventsOK, TickOK, Swept, Accounted, Visible

LEMMA BatchMax ==
  ASSUME EventsOK, TickOK, pc = "open"
  PROVE  Max(batch) \in 1 .. Len(events) /\ Max(batch) \in batch
<1>1. batch \in SUBSET (1 .. Len(events)) /\ Len(events) \in Nat
  BY DEF EventsOK, TickOK, Visible
<1> QED BY <1>1, LargestElement DEF TickOK

LEMMA InsertCursor ==
  ASSUME CursorInv, NEW w \in Writer, InsertEvent(w)
  PROVE  CursorInv'
<1> USE DEF CursorInv
<1>1. PICK k \in EventKind : events' = Append(events, [ev |-> k, tx |-> w])
  BY DEF InsertEvent
<1>2. [ev |-> k, tx |-> w] \in EventRow
  BY DEF EventRow
<1>3. /\ Len(events') = Len(events) + 1 /\ events' \in Seq(EventRow)
      /\ DOMAIN events' = 1 .. Len(events) + 1
      /\ \A i \in 1 .. Len(events) : events'[i] = events[i]
  BY <1>1, <1>2 DEF EventsOK
<1>4. UNCHANGED <<cursor, pc, batch, passed, overtaken>>
  BY DEF InsertEvent, tables, history
<1>5. Len(events) \in Nat /\ DOMAIN events = 1 .. Len(events)
  BY DEF EventsOK
<1>6. EventsOK'
  BY <1>3, <1>4, <1>5 DEF EventsOK
<1>7. TickOK'
  BY <1>3, <1>4, <1>5 DEF TickOK, Visible
<1>8. Swept'
  <2>1. Accounted(0, cursor, passed \cup overtaken)'
    BY <1>3, <1>4, <1>5 DEF Swept, Accounted, EventsOK
  <2>2. ASSUME pc = "open" PROVE Accounted(cursor, Max(batch), batch \cup overtaken)'
    BY <1>3, <1>4, <1>5, <2>2, BatchMax DEF Swept, Accounted
  <2> QED BY <1>4, <2>1, <2>2 DEF Swept
<1> QED BY <1>6, <1>7, <1>8

LEMMA EndInsertCursor ==
  ASSUME CursorInv, NEW w \in Writer, EndInsert(w)
  PROVE  CursorInv'
<1> USE DEF CursorInv
<1>1. PICK end \in {"committed", "gone"} :
        events' = [i \in DOMAIN events |->
                     IF events[i].tx = w THEN [events[i] EXCEPT !.tx = end] ELSE events[i]]
  BY DEF EndInsert
<1>2. UNCHANGED <<cursor, pc, batch, passed, overtaken>>
  BY DEF EndInsert, tables, history
<1>3. w # "committed" /\ w # "gone"
  BY DetectionAssumption
<1>4. Len(events) \in Nat /\ DOMAIN events = 1 .. Len(events)
  BY DEF EventsOK
<1>5. \A i \in DOMAIN events : events[i] \in EventRow
  BY DEF EventsOK
<1>6. \A i \in DOMAIN events : events'[i] \in EventRow
  BY <1>1, <1>5 DEF EventRow
<1>7. events' \in Seq(EventRow) /\ Len(events') = Len(events) /\ DOMAIN events' = DOMAIN events
  BY <1>1, <1>4, <1>6
<1>8. \A i \in DOMAIN events :
        /\ events'[i].tx # "gone" => events[i].tx # "gone"
        /\ events[i].tx = "committed" => events'[i].tx = "committed"
  BY <1>1, <1>3, <1>5 DEF EventRow
<1>9. EventsOK' /\ TickOK'
  BY <1>2, <1>7, <1>8 DEF EventsOK, TickOK, Visible
<1>10. Swept'
  BY <1>2, <1>7, <1>8 DEF Swept, Accounted
<1> QED BY <1>9, <1>10

LEMMA FetchCursor == CursorInv /\ Fetch => CursorInv'
<1> SUFFICES ASSUME CursorInv, Fetch PROVE CursorInv'
  OBVIOUS
<1> USE DEF CursorInv
<1>1. /\ Max(NextBatch) \in NextBatch /\ NextBatch \subseteq Visible
      /\ \A i \in Visible : cursor < i /\ i <= Max(NextBatch) => i \in NextBatch
  BY BatchIsPrefix DEF Fetch
<1>2. /\ UNCHANGED <<events, cursor, passed>> /\ pc' = "open" /\ batch' = NextBatch
      /\ overtaken' = overtaken \cup
           {i \in DOMAIN events : events[i].tx \in Writer /\ i < Max(NextBatch)}
  BY DEF Fetch, tables, history
<1>3. EventsOK' /\ TickOK'
  BY <1>1, <1>2 DEF EventsOK, TickOK, Visible
<1>4. Accounted(0, cursor, passed \cup overtaken)'
  BY <1>2 DEF Swept, Accounted
<1>5. ASSUME NEW i \in DOMAIN events, cursor < i, i <= Max(NextBatch), events[i].tx # "gone"
      PROVE  i \in NextBatch \cup overtaken'
  <2>1. CASE events[i].tx = "committed"
    BY <1>1, <1>5, <2>1 DEF Visible
  <2>2. CASE events[i].tx # "committed"
    <3>1. events[i].tx \in Writer
      <4>1. events[i] \in EventRow
        BY <1>5 DEF EventsOK
      <4>2. events[i].tx \in Writer \cup {"committed", "gone"}
        BY <4>1 DEF EventRow
      <4> QED BY <1>5, <2>2, <4>2
    <3>2. i # Max(NextBatch)
      BY <1>1, <2>2 DEF Visible
    <3>3. i \in Nat /\ Max(NextBatch) \in Nat
      BY <1>1, <1>5 DEF Visible, EventsOK
    <3> QED BY <1>2, <1>5, <3>1, <3>2, <3>3
  <2> QED BY <2>1, <2>2
<1>6. Accounted(cursor, Max(batch), batch \cup overtaken)'
  BY <1>2, <1>5 DEF Accounted
<1> QED BY <1>3, <1>4, <1>6 DEF Swept

LEMMA CommitCursor == CursorInv /\ Commit => CursorInv'
<1> SUFFICES ASSUME CursorInv, Commit PROVE CursorInv'
  OBVIOUS
<1> USE DEF CursorInv
<1>1. /\ pc = "open" /\ pc' = "idle" /\ batch' = {} /\ UNCHANGED <<events, overtaken>>
      /\ cursor' = Max(batch) /\ passed' = passed \cup batch
  BY DEF Commit, CursorAfter
<1>2. Max(batch) \in 1 .. Len(events)
  BY <1>1, BatchMax
<1>3. EventsOK' /\ TickOK'
  BY <1>1, <1>2 DEF EventsOK, TickOK
<1>4. ASSUME NEW i \in DOMAIN events, 0 < i, i <= Max(batch), events[i].tx # "gone"
      PROVE  i \in passed' \cup overtaken'
  <2>1. i \in Nat /\ cursor \in Nat
    BY <1>4 DEF EventsOK
  <2>2. CASE i <= cursor
    BY <1>1, <1>4, <2>2 DEF Swept, Accounted
  <2>3. CASE cursor < i
    BY <1>1, <1>4, <2>3 DEF Swept, Accounted
  <2> QED BY <2>1, <2>2, <2>3
<1>5. Swept'
  BY <1>1, <1>4 DEF Swept, Accounted
<1> QED BY <1>3, <1>5

LEMMA RollbackCursor == CursorInv /\ (Refused \/ Crash) => CursorInv'
  BY DEF CursorInv, EventsOK, TickOK, Swept, Accounted, Refused, Crash, Visible,
         tables, history

LEMMA StutterCursor == CursorInv /\ UNCHANGED vars => CursorInv'
  BY DEF CursorInv, EventsOK, TickOK, Swept, Accounted, Visible, vars, tables, history

LEMMA NextCursor == CursorInv /\ [Next]_vars => CursorInv'
<1> SUFFICES ASSUME CursorInv, [Next]_vars PROVE CursorInv'
  OBVIOUS
<1>1. ASSUME NEW w \in Writer, InsertEvent(w) PROVE CursorInv'
  BY <1>1, InsertCursor
<1>2. ASSUME NEW w \in Writer, EndInsert(w) PROVE CursorInv'
  BY <1>2, EndInsertCursor
<1>3. CASE Fetch
  BY <1>3, FetchCursor
<1>4. CASE Commit
  BY <1>4, CommitCursor
<1>5. CASE Refused \/ Crash
  BY <1>5, RollbackCursor
<1>6. CASE Idle \/ UNCHANGED vars
  BY <1>6, StutterCursor DEF Idle
<1> QED BY <1>1, <1>2, <1>3, <1>4, <1>5, <1>6 DEF Next

\* The cursor passes no committed event that no committed tick has processed,
\* except those overtaken while their normalizer had yet to commit: for any number
\* of normalizers, any batch size and any crashes. (_fetch_batch and set_cursor.)
THEOREM CursorPassesSeenHolds == Spec => []CursorPassesSeen
<1>1. CursorInv => CursorPassesSeen
  BY DEF CursorInv, EventsOK, Swept, Accounted, CursorPassesSeen, Visible
<1> QED BY <1>1, InitCursor, NextCursor, PTL DEF Spec


=============================================================================
