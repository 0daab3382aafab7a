---------------------------- MODULE ARSFS_proofs ----------------------------
(***************************************************************************)
(* Theorems about ARSFS, for any names, any contents, any size of the      *)
(* directory, the disk, a page and a sector.                               *)
(***************************************************************************)
EXTENDS ARSFS, IterationTheorems, FiniteSetTheorems, SequenceTheorems

Place == Page \cup {FREE_OR_DEL, EOF_PG}
Links(m) == m.nextPg \in [Page -> Place]

-----------------------------------------------------------------------------
(***************************************************************************)
(* Chains of pages.                                                        *)
(***************************************************************************)

\* A walk along the links stays in the table or ends in a mark.
LEMMA NthFacts ==
  ASSUME NEW m, Links(m), NEW s \in Place
  PROVE  /\ Nth(m, s, 0) = s
         /\ \A k \in Nat : Nth(m, s, k) \in Place /\ Nth(m, s, k + 1) = Jump(m)[Nth(m, s, k)]
<1> DEFINE F == Jump(m)
<1>1. \A h \in Place : F[h] \in Place BY DEF Jump, Links, Place
<1> HIDE DEF F
<1>2. /\ \A n \in Nat : Iterate(F, s)[n] \in Place
      /\ Iterate(F, s)[0] = s
      /\ \A n \in Nat : Iterate(F, s)[n + 1] = F[Iterate(F, s)[n]]
  BY <1>1, IterateFacts
<1> QED BY <1>2 DEF Nth, F

\* One link: from a page to the next place, from a mark nowhere.
LEMMA JumpIs ==
  ASSUME NEW m, NEW a \in Place
  PROVE  Jump(m)[a] = IF a \in Page THEN m.nextPg[a] ELSE a
  BY DEF Jump, Place

\* A walk that has come to a mark stays there.
LEMMA Stays ==
  ASSUME NEW m, Links(m), NEW s \in Place, NEW k \in Nat, Nth(m, s, k) \notin Page,
         NEW l \in Nat, k <= l
  PROVE  Nth(m, s, l) = Nth(m, s, k)
<1> DEFINE S == {n \in Nat : k <= n => Nth(m, s, n) = Nth(m, s, k)}
<1>1. 0 \in S OBVIOUS
<1>2. ASSUME NEW n \in Nat, n \in S PROVE n + 1 \in S
  <2>1. CASE k <= n
    <3>1. Nth(m, s, n) = Nth(m, s, k) BY <1>2, <2>1
    <3>2. Nth(m, s, n + 1) = Nth(m, s, n) BY <3>1, NthFacts, JumpIs, SMTT(30)
    <3> QED BY <3>1, <3>2
  <2>2. CASE ~(k <= n)
    <3>1. k <= n + 1 => k = n + 1 BY <2>2
    <3> QED BY <3>1
  <2> QED BY <2>1, <2>2
<1> HIDE DEF S
<1>3. Nat \subseteq S BY <1>1, <1>2, SetInduction
<1> QED BY <1>3 DEF S

\* Every chain has at most all the pages.
LEMMA ChainFacts ==
  ASSUME NEW m, Links(m), NEW s \in Place
  PROVE  /\ Chain(m, s) \subseteq Page /\ IsFiniteSet(Chain(m, s))
         /\ s \in Page => s \in Chain(m, s)
         /\ s \notin Page => Chain(m, s) = {} /\ Nth(m, s, BMP) = s
         /\ \A k \in 0 .. BMP : Nth(m, s, k) \in Page => Nth(m, s, k) \in Chain(m, s)
         /\ \A p \in Chain(m, s) : \E k \in 0 .. BMP : p = Nth(m, s, k)
<1>1. Chain(m, s) \subseteq Page BY DEF Chain
<1>2. IsFiniteSet(Page) BY GeometryAssumption, FS_Interval DEF Page
<1>3. IsFiniteSet(Chain(m, s)) BY <1>1, <1>2, FS_Subset
<1>4. 0 \in 0 .. BMP /\ BMP \in 0 .. BMP BY GeometryAssumption
<1>5. s \in Page => s \in Chain(m, s) BY <1>4, NthFacts DEF Chain
<1>6. ASSUME s \notin Page PROVE \A k \in 0 .. BMP : Nth(m, s, k) = s
  <2>1. Nth(m, s, 0) = s BY NthFacts
  <2> QED BY <1>6, <2>1, Stays
<1>7. s \notin Page => Chain(m, s) = {} BY <1>6 DEF Chain
<1> QED BY <1>1, <1>3, <1>4, <1>5, <1>6, <1>7 DEF Chain

\* A chain that ends leads through no free page, and from each page of it to another
\* or to the end.
LEMMA EndedChain ==
  ASSUME NEW m, Links(m), NEW s \in Place, Nth(m, s, BMP) = EOF_PG, NEW p \in Chain(m, s)
  PROVE  m.nextPg[p] \in Chain(m, s) \cup {EOF_PG} /\ m.nextPg[p] # FREE_OR_DEL
<1>1. PICK k \in 0 .. BMP : p = Nth(m, s, k) BY ChainFacts
<1>2. p \in Page BY ChainFacts
<1>3. k # BMP BY <1>1, <1>2, MarkAssumption
<1>4. k \in Nat /\ k + 1 \in 0 .. BMP /\ k + 1 \in Nat /\ BMP \in Nat /\ k + 1 <= BMP
  BY <1>3, GeometryAssumption
<1>5. Nth(m, s, k + 1) = m.nextPg[p] BY <1>1, <1>2, <1>4, NthFacts, JumpIs, SMTT(30)
<1>6. CASE m.nextPg[p] \in Page
  BY <1>4, <1>5, <1>6, ChainFacts, MarkAssumption
<1>7. CASE m.nextPg[p] \notin Page
  <2>1. Nth(m, s, BMP) = Nth(m, s, k + 1) BY <1>4, <1>5, <1>7, Stays
  <2> QED BY <1>5, <2>1, MarkAssumption
<1> QED BY <1>6, <1>7

\* Links that are cut off at pages of a chain only shorten it.
LEMMA CutChain ==
  ASSUME NEW m, NEW r, Links(m), Links(r), NEW s \in Place,
         \A p \in Chain(m, s) : r.nextPg[p] \in {m.nextPg[p], EOF_PG}
  PROVE  \A k \in 0 .. BMP : Nth(r, s, k) \in {Nth(m, s, k), EOF_PG}
<1> DEFINE S == {k \in Nat : k <= BMP => Nth(r, s, k) \in {Nth(m, s, k), EOF_PG}}
<1>1. 0 \in S BY NthFacts
<1>2. ASSUME NEW k \in Nat, k \in S PROVE k + 1 \in S
  <2> SUFFICES ASSUME k + 1 <= BMP PROVE Nth(r, s, k + 1) \in {Nth(m, s, k + 1), EOF_PG}
    OBVIOUS
  <2> DEFINE a == Nth(m, s, k)
             b == Nth(r, s, k)
  <2>1. k \in 0 .. BMP /\ b \in {a, EOF_PG} BY <1>2, GeometryAssumption
  <2>2. a \in Place /\ b \in Place /\ Nth(m, s, k + 1) = Jump(m)[a] /\ Nth(r, s, k + 1) = Jump(r)[b]
    BY NthFacts
  <2>3. a \in Page => a \in Chain(m, s) BY <2>1, ChainFacts
  <2> HIDE DEF a, b
  <2>4. CASE b = EOF_PG BY <2>2, <2>4, JumpIs, MarkAssumption
  <2>5. CASE b = a BY <2>2, <2>3, <2>5, JumpIs
  <2> QED BY <2>1, <2>4, <2>5
<1> HIDE DEF S
<1>3. Nat \subseteq S BY <1>1, <1>2, SetInduction
<1> QED BY <1>3, GeometryAssumption DEF S

\* A chain whose links are left alone is the chain it was.
LEMMA SameChain ==
  ASSUME NEW m, NEW r, Links(m), Links(r), NEW s \in Place,
         \A p \in Chain(m, s) : r.nextPg[p] = m.nextPg[p]
  PROVE  /\ \A k \in 0 .. BMP : Nth(r, s, k) = Nth(m, s, k)
         /\ Chain(r, s) = Chain(m, s) /\ Nth(r, s, BMP) = Nth(m, s, BMP)
<1> DEFINE S == {k \in Nat : k <= BMP => Nth(r, s, k) = Nth(m, s, k)}
<1>1. 0 \in S BY NthFacts
<1>2. ASSUME NEW k \in Nat, k \in S PROVE k + 1 \in S
  <2> SUFFICES ASSUME k + 1 <= BMP PROVE Nth(r, s, k + 1) = Nth(m, s, k + 1) OBVIOUS
  <2> DEFINE a == Nth(m, s, k)
  <2>1. k \in 0 .. BMP /\ Nth(r, s, k) = a BY <1>2, GeometryAssumption
  <2>2. a \in Place /\ Nth(m, s, k + 1) = Jump(m)[a] BY NthFacts
  <2>3. Nth(r, s, k + 1) = Jump(r)[Nth(r, s, k)] BY NthFacts
  <2>4. a \in Page => a \in Chain(m, s) BY <2>1, ChainFacts
  <2> HIDE DEF a
  <2> QED BY <2>1, <2>2, <2>3, <2>4, JumpIs
<1> HIDE DEF S
<1>3. Nat \subseteq S BY <1>1, <1>2, SetInduction
<1>4. \A k \in 0 .. BMP : Nth(r, s, k) = Nth(m, s, k) BY <1>3, GeometryAssumption DEF S
<1>5. BMP \in 0 .. BMP BY GeometryAssumption
<1> QED BY <1>4, <1>5 DEF Chain

\* The pages pg[1] .. pg[g], each linked to the next.
Linked(m, g, pg) ==
  /\ Links(m) /\ g \in Nat \ {0} /\ pg \in [1 .. g -> Page]
  /\ \A j, k \in 1 .. g : j # k => pg[j] # pg[k]
  /\ \A k \in 1 .. g : m.nextPg[pg[k]] = IF k = g THEN EOF_PG ELSE pg[k + 1]

\* A chain that is built of the pages pg[1], pg[2], ... pg[g].
LEMMA NewChain ==
  ASSUME NEW m, NEW g, NEW pg, Linked(m, g, pg)
  PROVE  /\ g <= BMP /\ Nth(m, pg[1], BMP) = EOF_PG
         /\ \A k \in 1 .. g : Nth(m, pg[1], k - 1) = pg[k]
         /\ Chain(m, pg[1]) = {pg[k] : k \in 1 .. g}
         /\ Cardinality(Chain(m, pg[1])) = g
<1> USE DEF Linked
<1> DEFINE s == pg[1]
           T == {pg[k] : k \in 1 .. g}
<1>1. pg[1] \in Page /\ s \in Place BY DEF Place
<1>2. IsFiniteSet(Page) /\ Cardinality(Page) = BMP
  BY GeometryAssumption, FS_Interval DEF Page
<1>3. pg \in Bijection(1 .. g, T)
  BY DEF Bijection, Injection, Surjection, IsInjective
<1>4. IsFiniteSet(1 .. g) /\ Cardinality(1 .. g) = g BY FS_Interval
<1>5. IsFiniteSet(T) /\ Cardinality(T) = g
  <2>1. ExistsBijection(1 .. g, T) BY <1>3 DEF ExistsBijection
  <2> HIDE DEF T
  <2> QED BY <1>4, <2>1, FS_Bijection
<1>6. g <= BMP
  <2>1. T \subseteq Page OBVIOUS
  <2> HIDE DEF T
  <2> QED BY <1>2, <1>5, <2>1, FS_Subset
<1> DEFINE S == {n \in Nat : n < g => Nth(m, s, n) = pg[n + 1]}
<1>7. 0 \in S BY <1>1, NthFacts
<1>8. ASSUME NEW n \in Nat, n \in S PROVE n + 1 \in S
  <2> SUFFICES ASSUME n + 1 < g PROVE Nth(m, s, n + 1) = pg[n + 2] OBVIOUS
  <2>1. Nth(m, s, n) = pg[n + 1] /\ n + 1 \in 1 .. g /\ n + 1 # g BY <1>8
  <2>2. Nth(m, s, n + 1) = Jump(m)[Nth(m, s, n)] BY <1>1, NthFacts
  <2>3. pg[n + 1] \in Page /\ pg[n + 1] \in Place BY <2>1 DEF Place
  <2>4. Jump(m)[pg[n + 1]] = m.nextPg[pg[n + 1]] BY <2>3, JumpIs
  <2>5. m.nextPg[pg[n + 1]] = pg[n + 2] BY <2>1
  <2> QED BY <2>1, <2>2, <2>4, <2>5
<1> HIDE DEF S
<1>9. Nat \subseteq S BY <1>7, <1>8, SetInduction
<1>10. \A k \in 1 .. g : Nth(m, s, k - 1) = pg[k] BY <1>9 DEF S
<1>11. Nth(m, s, g) = EOF_PG
  <2>1. Nth(m, s, g - 1) = pg[g] /\ g - 1 \in Nat BY <1>10
  <2>2. Nth(m, s, g) = Jump(m)[Nth(m, s, g - 1)]
    <3>1. (g - 1) + 1 = g OBVIOUS
    <3> QED BY <1>1, <2>1, <3>1, NthFacts, SMTT(30)
  <2>3. pg[g] \in Page /\ pg[g] \in Place BY DEF Place
  <2>4. Jump(m)[pg[g]] = m.nextPg[pg[g]] BY <2>3, JumpIs
  <2> QED BY <2>1, <2>2, <2>4
<1>12. \A k \in Nat : g <= k => Nth(m, s, k) = EOF_PG
  <2>1. Nth(m, s, g) \notin Page BY <1>11, MarkAssumption
  <2> HIDE DEF s
  <2> QED BY <1>1, <1>11, <2>1, Stays
<1>13. Nth(m, s, BMP) = EOF_PG BY <1>6, <1>12, GeometryAssumption
<1>14. Chain(m, s) = T
  <2>1. ASSUME NEW p \in Chain(m, s) PROVE p \in T
    <3>1. PICK k \in 0 .. BMP : p = Nth(m, s, k) BY <1>1, ChainFacts
    <3>2. p \in Page BY <1>1, ChainFacts
    <3>3. k < g BY <1>12, <3>1, <3>2, MarkAssumption
    <3>4. k + 1 \in 1 .. g /\ p = pg[k + 1] BY <1>10, <3>1, <3>3
    <3> QED BY <3>4
  <2>2. ASSUME NEW k \in 1 .. g PROVE pg[k] \in Chain(m, s)
    <3>1. k - 1 \in 0 .. BMP /\ Nth(m, s, k - 1) = pg[k] /\ pg[k] \in Page
      BY <1>6, <1>10, GeometryAssumption
    <3> QED BY <1>1, <3>1, ChainFacts
  <2> QED BY <2>1, <2>2
<1> QED BY <1>5, <1>6, <1>10, <1>13, <1>14

-----------------------------------------------------------------------------
(***************************************************************************)
(* Choices.                                                                *)
(***************************************************************************)

\* Page numbers can be put in order.
Increasing(f, S) ==
  /\ f \in [1 .. Cardinality(S) -> S]
  /\ \A j, k \in DOMAIN f : j < k => f[j] < f[k]

LEMMA Orderable ==
  ASSUME NEW n \in Nat, NEW S, S \subseteq 0 .. n - 1
  PROVE  IsFiniteSet(S) /\ \E f : Increasing(f, S)
<1> DEFINE Good(T) == IsFiniteSet(T) /\ \E f : Increasing(f, T)
           N == {b \in Nat : \A T \in SUBSET (0 .. b - 1) : Good(T)}
<1>1. 0 \in N
  <2> SUFFICES ASSUME NEW T \in SUBSET (0 .. 0 - 1) PROVE Good(T) OBVIOUS
  <2>1. T = {} /\ 1 .. 0 = {} OBVIOUS
  <2>2. IsFiniteSet(T) /\ Cardinality(T) = 0 BY <2>1, FS_EmptySet
  <2> DEFINE f == [i \in 1 .. 0 |-> 0]
  <2>3. Increasing(f, T) BY <2>1, <2>2 DEF Increasing
  <2> HIDE DEF f
  <2> QED BY <2>2, <2>3
<1>2. ASSUME NEW b \in Nat, b \in N PROVE b + 1 \in N
  <2> SUFFICES ASSUME NEW T \in SUBSET (0 .. b) PROVE Good(T) OBVIOUS
  <2>1. CASE b \notin T
    <3>1. T \subseteq 0 .. b - 1 BY <2>1
    <3> QED BY <1>2, <3>1
  <2>2. CASE b \in T
    <3> DEFINE U == T \ {b}
               c == Cardinality(U)
    <3>1. U \subseteq 0 .. b - 1 OBVIOUS
    <3>2. Good(U) BY <1>2, <3>1
    <3>3. IsFiniteSet(U) /\ c \in Nat BY <3>2, FS_CardinalityType
    <3>4. T = U \cup {b} /\ b \notin U BY <2>2
    <3>5. IsFiniteSet(T) /\ Cardinality(T) = c + 1
      <4> HIDE DEF U
      <4> QED BY <3>3, <3>4, FS_AddElement
    <3>6. PICK f : Increasing(f, U) BY <3>2
    <3> HIDE DEF c
    <3>7. f \in [1 .. c -> U] /\ \A j, k \in 1 .. c : j < k => f[j] < f[k]
      BY <3>6 DEF Increasing, c
    <3> DEFINE g == [i \in 1 .. c + 1 |-> IF i = c + 1 THEN b ELSE f[i]]
    <3>8. \A i \in 1 .. c + 1 : IF i = c + 1 THEN g[i] = b ELSE i \in 1 .. c /\ g[i] = f[i]
      BY <3>3
    <3>9. g \in [1 .. c + 1 -> T]
      <4>1. \A i \in 1 .. c + 1 : g[i] \in T BY <3>4, <3>7, <3>8
      <4> QED BY <4>1
    <3> HIDE DEF g
    <3>10. ASSUME NEW j \in 1 .. c + 1, NEW k \in 1 .. c + 1, j < k PROVE g[j] < g[k]
      <4>1. j \in 1 .. c /\ g[j] = f[j] /\ f[j] \in U BY <3>3, <3>7, <3>8, <3>10
      <4>2. f[j] < b
        <5>1. f[j] \in 0 .. b - 1 BY <3>1, <4>1
        <5> QED BY <5>1
      <4>3. CASE k = c + 1 BY <3>8, <4>1, <4>2, <4>3
      <4>4. CASE k # c + 1 BY <3>7, <3>8, <3>10, <4>1, <4>4
      <4> QED BY <4>3, <4>4
    <3>11. Increasing(g, T) BY <3>5, <3>9, <3>10 DEF Increasing
    <3> QED BY <3>5, <3>11
  <2> QED BY <2>1, <2>2
<1> HIDE DEF N, Good
<1>3. Nat \subseteq N BY <1>1, <1>2, SetInduction
<1>4. Good(S) BY <1>3 DEF N
<1> QED BY <1>4 DEF Good

\* The pages that pgAlloc returns: all the free ones, each once.
LEMMA AscendingIs ==
  ASSUME NEW S, S \subseteq Page
  PROVE  LET f == Ascending(S) IN
         /\ Cardinality(S) \in Nat /\ f \in [1 .. Cardinality(S) -> S]
         /\ f \in Seq(S) /\ Len(f) = Cardinality(S)
         /\ \A j, k \in 1 .. Cardinality(S) : j # k => f[j] # f[k]
<1> DEFINE f == Ascending(S)
           c == Cardinality(S)
<1>1. IsFiniteSet(S) /\ \E g : Increasing(g, S)
  <2>1. S \subseteq 0 .. BMP - 1 BY DEF Page
  <2> QED BY <2>1, Orderable, GeometryAssumption
<1>2. c \in Nat BY <1>1, FS_CardinalityType
<1>3. Increasing(f, S) BY <1>1 DEF Ascending, Increasing
<1> HIDE DEF f
<1>4. f \in [1 .. c -> S] /\ \A j, k \in 1 .. c : j < k => f[j] < f[k]
  BY <1>3 DEF Increasing
<1>5. f \in Seq(S) /\ Len(f) = c BY <1>2, <1>4
<1> HIDE DEF c
<1>6. ASSUME NEW j \in 1 .. c, NEW k \in 1 .. c, j # k PROVE f[j] # f[k]
  <2>1. f[j] \in Page /\ f[k] \in Page BY <1>4
  <2>2. f[j] \in Int /\ f[k] \in Int BY <2>1, GeometryAssumption DEF Page
  <2>3. j < k \/ k < j BY <1>2, <1>6
  <2> QED BY <1>4, <2>2, <2>3
<1> QED BY <1>2, <1>4, <1>5, <1>6 DEF f, c

\* First fit: an interval of free pages with none free below it is what comes first.
LEMMA FirstFit ==
  ASSUME NEW S, S \subseteq Page, NEW a \in Nat, NEW c \in Nat,
         \A x \in S : a <= x, \A j \in 1 .. c : a + j - 1 \in S
  PROVE  c <= Cardinality(S) /\ \A j \in 1 .. c : Ascending(S)[j] = a + j - 1
<1> DEFINE f == Ascending(S)
           l == Cardinality(S)
<1>1. S \subseteq 0 .. BMP - 1 BY DEF Page
<1>2. IsFiniteSet(S) /\ \E g : Increasing(g, S) BY <1>1, Orderable, GeometryAssumption
<1>3. Increasing(f, S) BY <1>2 DEF Ascending, Increasing
<1>4. l \in Nat /\ S \subseteq Nat BY <1>1, <1>2, FS_CardinalityType, GeometryAssumption
<1> HIDE DEF f
<1>5. f \in [1 .. l -> S] /\ \A j, k \in 1 .. l : j < k => f[j] < f[k]
  BY <1>3 DEF Increasing
<1> HIDE DEF l
<1>6. \A j, k \in 1 .. l : j # k => f[j] # f[k]
  <2> SUFFICES ASSUME NEW j \in 1 .. l, NEW k \in 1 .. l, j # k PROVE f[j] # f[k] OBVIOUS
  <2>1. f[j] \in S /\ f[k] \in S BY <1>5
  <2>2. f[j] \in Nat /\ f[k] \in Nat BY <1>4, <2>1
  <2>3. j < k \/ k < j BY <1>4
  <2> QED BY <1>5, <2>2, <2>3
<1>7. \A x \in S : \E k \in 1 .. l : f[k] = x
  <2>1. IsFiniteSet(1 .. l) /\ Cardinality(1 .. l) = l BY <1>4, FS_Interval
  <2>2. f \in Injection(1 .. l, S) BY <1>5, <1>6 DEF Injection, IsInjective
  <2>3. f \in Surjection(1 .. l, S) BY <1>2, <2>1, <2>2, FS_Injection DEF l
  <2> QED BY <2>3 DEF Surjection
<1> DEFINE T == {j \in Nat : \A k \in 1 .. j : k <= c => k <= l /\ f[k] = a + k - 1}
<1>8. 0 \in T OBVIOUS
<1>9. ASSUME NEW n \in Nat, n \in T PROVE n + 1 \in T
  <2> SUFFICES ASSUME n + 1 <= c PROVE n + 1 <= l /\ f[n + 1] = a + n
    <3>1. \A k \in 1 .. n + 1 : k \in 1 .. n \/ k = n + 1 OBVIOUS
    <3> QED BY <1>9, <3>1
  <2>1. \A k \in 1 .. n : k <= l /\ f[k] = a + k - 1 BY <1>9
  <2>2. PICK k \in 1 .. l : f[k] = a + n
    <3>1. n + 1 \in 1 .. c /\ a + (n + 1) - 1 = a + n OBVIOUS
    <3>2. a + n \in S BY <3>1
    <3> QED BY <1>7, <3>2
  <2>3. n + 1 <= k
    <3>1. ASSUME k <= n PROVE FALSE
      <4>1. k \in 1 .. n BY <1>4, <3>1
      <4>2. f[k] = a + k - 1 BY <2>1, <4>1
      <4> QED BY <2>2, <3>1, <4>1, <4>2
    <3> QED BY <1>4, <3>1
  <2>4. n + 1 \in 1 .. l BY <1>4, <2>3
  <2>5. f[n + 1] \in Nat /\ f[n + 1] \in S /\ f[n + 1] <= a + n /\ a <= f[n + 1]
    <3>1. f[n + 1] \in S /\ f[n + 1] \in Nat BY <1>4, <1>5, <2>4
    <3>2. n + 1 = k \/ n + 1 < k BY <1>4, <2>3
    <3>3. f[n + 1] <= a + n BY <1>5, <2>2, <2>4, <3>1, <3>2
    <3> QED BY <3>1, <3>3
  <2>6. ASSUME f[n + 1] < a + n PROVE FALSE
    <3> DEFINE i == f[n + 1] - a + 1
    <3>1. i \in 1 .. n /\ a + i - 1 = f[n + 1] BY <2>5, <2>6
    <3> HIDE DEF i
    <3>2. f[i] = f[n + 1] /\ i <= l BY <2>1, <3>1
    <3>3. i \in 1 .. l /\ i # n + 1 BY <1>4, <3>1, <3>2
    <3> QED BY <1>6, <2>4, <3>2, <3>3
  <2> QED BY <1>4, <2>4, <2>5, <2>6
<1> HIDE DEF T
<1>10. c \in T BY <1>8, <1>9, SetInduction
<1>11. \A k \in 1 .. c : k <= l /\ f[k] = a + k - 1 BY <1>10 DEF T
<1>12. c <= l
  <2>1. CASE c = 0 BY <1>4, <2>1
  <2>2. CASE c # 0
    <3>1. c \in 1 .. c BY <2>2
    <3> QED BY <1>11, <3>1
  <2> QED BY <2>1, <2>2
<1> QED BY <1>11, <1>12 DEF f, l

\* The first of some directory entries.
LEMMA LeastSlot ==
  ASSUME NEW S, S \subseteq Slot, S # {} PROVE Least(S) \in S /\ \A y \in S : Least(S) <= y
<1>1. S \subseteq Nat BY DEF Slot
<1>2. \E x \in S : \A y \in S : x <= y BY <1>1, LeastNat
<1> QED BY <1>2 DEF Least

\* arsfs_find: an entry in use with that name, or none.
LEMMA FindIs ==
  ASSUME NEW m, NEW n
  PROVE  IF Hits(m, n) = {} THEN arsfs_find(m, n) = -1
         ELSE /\ arsfs_find(m, n) \in Slot /\ arsfs_find(m, n) # -1
              /\ arsfs_find(m, n) \in InUse(m)
              /\ m.fcb[arsfs_find(m, n)].fileName = n
<1>1. CASE Hits(m, n) = {} BY <1>1 DEF arsfs_find
<1>2. CASE Hits(m, n) # {}
  <2>1. Hits(m, n) \subseteq Slot BY DEF Hits, InUse
  <2>2. arsfs_find(m, n) \in Hits(m, n) BY <1>2, <2>1, LeastSlot DEF arsfs_find
  <2> QED BY <1>2, <2>1, <2>2 DEF Hits, Slot
<1> QED BY <1>1, <1>2

-----------------------------------------------------------------------------
(***************************************************************************)
(* The order of the directory and of the links.  A directory that was cut  *)
(* short when it was programmed is in order but not exact: entries may     *)
(* have lost their names, files some of their pages, and pages may belong  *)
(* to no file and not be free.                                             *)
(***************************************************************************)
Order(m, exact) ==
  /\ m \in Metadata
  /\ \A i, j \in InUse(m) : i # j =>
       /\ exact \/ m.fcb[i].fileName # NONE => m.fcb[i].fileName # m.fcb[j].fileName
       /\ ChainOf(m, i) \cap ChainOf(m, j) = {}
  /\ \A i \in InUse(m) :
       /\ Nth(m, m.fcb[i].start, BMP) = EOF_PG
       /\ m.fcb[i].size >= 0 => Cardinality(ChainOf(m, i)) <= pgCount(m.fcb[i].size)
       /\ exact => Cardinality(ChainOf(m, i)) = pgCount(m.fcb[i].size)
  /\ exact => FreePages(m) = Page \ UNION {ChainOf(m, i) : i \in InUse(m)}

\* What the type says about an entry.
LEMMA EntryFacts ==
  ASSUME NEW m \in Metadata
  PROVE  /\ Links(m) /\ m.fcb \in [Slot -> FcbType] /\ InUse(m) \subseteq Slot
         /\ \A i \in Slot : /\ m.fcb[i] \in FcbType /\ m.fcb[i].start \in Place
                            /\ m.fcb[i].fileName \in Name \cup {NONE} /\ m.fcb[i].size \in Int
  BY DEF Metadata, FcbType, Links, Place, InUse

\* Pages are counted in natural numbers.
LEMMA CountIs == \A n \in Int : pgCount(n) \in Nat
<1> SUFFICES ASSUME NEW n \in Int, n > 0 PROVE (n + PG - 1) \div PG \in Nat BY DEF pgCount
<1>1. PG \in Nat /\ PG > 0 /\ n + PG - 1 \in Nat BY GeometryAssumption
<1> QED BY <1>1

\* An entry that keeps its first page, with links left alone, keeps its chain.
LEMMA KeptChain ==
  ASSUME NEW m \in Metadata, NEW r \in Metadata, NEW i \in Slot, NEW j \in Slot,
         r.fcb[j].start = m.fcb[i].start,
         \A p \in ChainOf(m, i) : r.nextPg[p] = m.nextPg[p]
  PROVE  /\ ChainOf(r, j) = ChainOf(m, i)
         /\ \A k \in 0 .. BMP : Nth(r, r.fcb[j].start, k) = Nth(m, m.fcb[i].start, k)
         /\ Nth(r, r.fcb[j].start, BMP) = Nth(m, m.fcb[i].start, BMP)
  BY EntryFacts, SameChain DEF ChainOf

\* An entry of an empty file.
LEMMA EmptyChain ==
  ASSUME NEW m \in Metadata, NEW i \in Slot, m.fcb[i].start = EOF_PG
  PROVE  ChainOf(m, i) = {} /\ Nth(m, m.fcb[i].start, BMP) = EOF_PG
         /\ Cardinality(ChainOf(m, i)) = 0 /\ pgCount(0) = 0
<1>1. EOF_PG \in Place /\ EOF_PG \notin Page BY MarkAssumption DEF Place
<1> QED BY <1>1, EntryFacts, ChainFacts, FS_EmptySet DEF ChainOf, pgCount

\* The chain of an entry is a set of pages.
LEMMA ChainOfFacts ==
  ASSUME NEW m \in Metadata, NEW i \in Slot
  PROVE  ChainOf(m, i) \subseteq Page /\ IsFiniteSet(ChainOf(m, i))
         /\ Cardinality(ChainOf(m, i)) \in Nat
  BY EntryFacts, ChainFacts, FS_CardinalityType DEF ChainOf

\* Entry j of r is entry i of m, links included.
Kept(m, r, j, i) ==
  /\ i \in InUse(m) /\ r.fcb[j] = m.fcb[i]
  /\ \A p \in ChainOf(m, i) : r.nextPg[p] = m.nextPg[p]

LEMMA KeptSame ==
  ASSUME NEW m \in Metadata, NEW r \in Metadata, NEW j \in InUse(r), Kept(m, r, j, j)
  PROVE  ChainOf(r, j) = ChainOf(m, j) /\ Nth(r, r.fcb[j].start, BMP) = Nth(m, m.fcb[j].start, BMP)
  BY KeptChain DEF Kept, InUse

(***************************************************************************)
(* What every operation does to metadata m: entries are kept or moved (the *)
(* one at j was at f[j]), one of them, x, may be new or rewritten, and no  *)
(* page of its chain is another's.                                         *)
(***************************************************************************)
Fresh(m, exact, r, x, f) ==
  /\ Nth(r, r.fcb[x].start, BMP) = EOF_PG
  /\ Cardinality(ChainOf(r, x)) = pgCount(r.fcb[x].size)
  /\ \A j \in InUse(r) \ {x} :
       /\ ChainOf(r, x) \cap ChainOf(m, f[j]) = {}
       /\ exact \/ r.fcb[x].fileName # NONE => m.fcb[f[j]].fileName # r.fcb[x].fileName
Rearrangement(m, exact, r, x, f) ==
  /\ exact \in BOOLEAN /\ r \in Metadata
  /\ \A j \in InUse(r) \ {x} : Kept(m, r, j, f[j])
  /\ \A j, k \in InUse(r) \ {x} : j # k => f[j] # f[k]
  /\ x \in InUse(r) => Fresh(m, exact, r, x, f)
  /\ exact => FreePages(r) = Page \ UNION {ChainOf(r, j) : j \in InUse(r)}

LEMMA Rearranged ==
  ASSUME NEW m, NEW exact, Order(m, exact), NEW r, NEW x, NEW f,
         Rearrangement(m, exact, r, x, f)
  PROVE  Order(r, exact)
<1> USE DEF Rearrangement, Fresh
<1>1. m \in Metadata BY DEF Order
<1> DEFINE K == InUse(r) \ {x}
<1>2. ASSUME NEW j \in K
      PROVE  /\ f[j] \in InUse(m) /\ r.fcb[j] = m.fcb[f[j]] /\ ChainOf(r, j) = ChainOf(m, f[j])
             /\ Nth(r, r.fcb[j].start, BMP) = Nth(m, m.fcb[f[j]].start, BMP)
  <2>1. Kept(m, r, j, f[j]) OBVIOUS
  <2>2. f[j] \in Slot /\ j \in Slot BY <2>1 DEF Kept, InUse
  <2> QED BY <1>1, <2>1, <2>2, KeptChain DEF Kept
<1>3. ASSUME NEW i \in InUse(r), NEW j \in InUse(r), i # j
      PROVE  /\ exact \/ r.fcb[i].fileName # NONE => r.fcb[i].fileName # r.fcb[j].fileName
             /\ ChainOf(r, i) \cap ChainOf(r, j) = {}
  <2>1. CASE i # x /\ j # x
    <3>1. i \in K /\ j \in K BY <2>1
    <3>2. f[i] \in InUse(m) /\ f[j] \in InUse(m) /\ f[i] # f[j] BY <1>2, <1>3, <3>1
    <3>3. /\ exact \/ m.fcb[f[i]].fileName # NONE => m.fcb[f[i]].fileName # m.fcb[f[j]].fileName
          /\ ChainOf(m, f[i]) \cap ChainOf(m, f[j]) = {}
      BY <3>2 DEF Order
    <3> QED BY <1>2, <3>1, <3>3
  <2>2. CASE i = x /\ j \in K BY <1>2, <2>2
  <2>3. CASE j = x /\ i \in K BY <1>2, <2>3
  <2> QED BY <1>3, <2>1, <2>2, <2>3
<1>4. ASSUME NEW i \in InUse(r)
      PROVE  /\ Nth(r, r.fcb[i].start, BMP) = EOF_PG
             /\ r.fcb[i].size >= 0 => Cardinality(ChainOf(r, i)) <= pgCount(r.fcb[i].size)
             /\ exact => Cardinality(ChainOf(r, i)) = pgCount(r.fcb[i].size)
  <2>1. CASE i = x
    <3>1. r.fcb[x].size \in Int BY <2>1, EntryFacts
    <3>2. pgCount(r.fcb[x].size) \in Nat BY <3>1, CountIs
    <3> QED BY <2>1, <3>2
  <2>2. CASE i \in K BY <1>2, <2>2 DEF Order
  <2> QED BY <2>1, <2>2
<1> QED BY <1>3, <1>4 DEF Order

\* format, and the metadata before the disk is mounted.
LEMMA BlankOrder == Order(Blank, TRUE) /\ Order(Blank, FALSE)
<1>1. Blank \in Metadata BY DEF Blank, Metadata, FcbType, NoFcb
<1>2. InUse(Blank) = {} BY DEF InUse, Blank, NoFcb
<1>3. FreePages(Blank) = Page BY DEF FreePages, Blank
<1> QED BY <1>1, <1>2, <1>3 DEF Order

-----------------------------------------------------------------------------
(***************************************************************************)
(* The operations keep the order.                                          *)
(***************************************************************************)

\* The identity of entries.
Here == [j \in Slot |-> j]

\* An entry whose pages are given back and which is removed or left empty: delFile,
\* and what writeFileAt begins with.
LEMMA EmptiedOrder ==
  ASSUME NEW m, NEW exact \in BOOLEAN, Order(m, exact), NEW i \in InUse(m), NEW g,
         \/ g.start = FREE_OR_DEL
         \/ g.start = EOF_PG /\ g.size = 0 /\ g.fileName = m.fcb[i].fileName,
         NEW r \in Metadata, r.fcb = [m.fcb EXCEPT ![i] = g],
         r.nextPg = pgFreeChain(m, m.fcb[i].start).nextPg
  PROVE  /\ Order(r, exact)
         /\ FreePages(r) = FreePages(m) \cup ChainOf(m, i)
         /\ InUse(r) \ {i} = InUse(m) \ {i}
<1>1. m \in Metadata /\ i \in Slot BY DEF Order, InUse
<1>2. r.fcb[i] = g /\ \A j \in Slot \ {i} : r.fcb[j] = m.fcb[j] BY <1>1, EntryFacts
<1>3. InUse(r) \ {i} = InUse(m) \ {i} BY <1>2 DEF InUse
<1>4. \A p \in Page : r.nextPg[p] = IF p \in ChainOf(m, i) THEN FREE_OR_DEL ELSE m.nextPg[p]
  BY <1>1, EntryFacts DEF pgFreeChain, ChainOf, Metadata
<1>5. ChainOf(m, i) \subseteq Page BY <1>1, ChainOfFacts
<1>6. FreePages(r) = FreePages(m) \cup ChainOf(m, i) BY <1>4, <1>5 DEF FreePages
<1>7. ASSUME NEW j \in InUse(r) \ {i} PROVE Kept(m, r, j, Here[j])
  <2>1. j \in InUse(m) /\ j \in Slot /\ Here[j] = j BY <1>3 DEF InUse, Here
  <2>2. ChainOf(m, j) \subseteq Page /\ ChainOf(m, j) \cap ChainOf(m, i) = {}
    BY <1>1, <2>1, ChainOfFacts DEF Order
  <2> QED BY <1>2, <1>4, <2>1, <2>2 DEF Kept
<1>8. ASSUME i \in InUse(r)
      PROVE  /\ r.fcb[i].start = EOF_PG /\ r.fcb[i].size = 0
             /\ r.fcb[i].fileName = m.fcb[i].fileName
             /\ ChainOf(r, i) = {} /\ Nth(r, r.fcb[i].start, BMP) = EOF_PG
             /\ Cardinality(ChainOf(r, i)) = pgCount(r.fcb[i].size)
  <2>1. g.start = EOF_PG /\ g.size = 0 /\ g.fileName = m.fcb[i].fileName
    BY <1>2, <1>8 DEF InUse
  <2> QED BY <1>1, <1>2, <2>1, EmptyChain, ZenonT(40)
<1>9. ASSUME NEW j \in InUse(r) \ {i} PROVE ChainOf(r, j) = ChainOf(m, j)
  BY <1>1, <1>7, KeptSame DEF Here, InUse
<1>10. ASSUME exact PROVE FreePages(r) = Page \ UNION {ChainOf(r, j) : j \in InUse(r)}
  <2>1. FreePages(m) = Page \ UNION {ChainOf(m, j) : j \in InUse(m)} BY <1>10 DEF Order
  <2>2. UNION {ChainOf(r, j) : j \in InUse(r)} = UNION {ChainOf(m, j) : j \in InUse(m) \ {i}}
    <3>1. UNION {ChainOf(r, j) : j \in InUse(r)} = UNION {ChainOf(r, j) : j \in InUse(r) \ {i}}
      BY <1>8
    <3> QED BY <1>3, <1>9, <3>1
  <2>3. \A j \in InUse(m) \ {i} : ChainOf(m, j) \cap ChainOf(m, i) = {} BY DEF Order
  <2> QED BY <1>5, <1>6, <2>1, <2>2, <2>3
<1>11. \A j, k \in InUse(r) \ {i} : j # k => Here[j] # Here[k] BY DEF Here, InUse
<1>12. ASSUME i \in InUse(r) PROVE Fresh(m, exact, r, i, Here)
  <2>1. ASSUME NEW j \in InUse(r) \ {i}
        PROVE  /\ ChainOf(r, i) \cap ChainOf(m, Here[j]) = {}
               /\ exact \/ r.fcb[i].fileName # NONE =>
                    m.fcb[Here[j]].fileName # r.fcb[i].fileName
    <3>1. j \in InUse(m) /\ j # i /\ Here[j] = j BY <1>3 DEF Here, InUse
    <3>2. exact \/ m.fcb[i].fileName # NONE => m.fcb[i].fileName # m.fcb[j].fileName
      BY <3>1 DEF Order
    <3> QED BY <1>8, <1>12, <3>1, <3>2
  <2> QED BY <1>8, <1>12, <2>1 DEF Fresh
<1>13. Rearrangement(m, exact, r, i, Here) BY <1>7, <1>10, <1>11, <1>12 DEF Rearrangement
<1>14. Order(r, exact) BY <1>13, Rearranged
<1> QED BY <1>3, <1>6, <1>14

\* A new entry of an empty file: createFile, and createFileAt for a name not there.
LEMMA CreatedOrder ==
  ASSUME NEW m, NEW exact \in BOOLEAN, Order(m, exact), NEW n \in Name, Hits(m, n) = {},
         NEW i \in FreeSlots(m)
  PROVE  Order([m EXCEPT !.fcb = [m.fcb EXCEPT ![i] = EmptyFcb(n)]], exact)
<1> DEFINE r == [m EXCEPT !.fcb = [m.fcb EXCEPT ![i] = EmptyFcb(n)]]
<1>1. m \in Metadata /\ i \in Slot /\ i \notin InUse(m) BY DEF Order, FreeSlots
<1>2. /\ r \in Metadata /\ r.nextPg = m.nextPg
      /\ r.fcb[i] = EmptyFcb(n) /\ \A j \in Slot \ {i} : r.fcb[j] = m.fcb[j]
  BY <1>1 DEF EmptyFcb, Metadata, FcbType
<1> HIDE DEF r
<1>3. InUse(r) = InUse(m) \cup {i}
  BY <1>1, <1>2, MarkAssumption DEF InUse, EmptyFcb
<1>4. ChainOf(r, i) = {} /\ Nth(r, r.fcb[i].start, BMP) = EOF_PG
      /\ Cardinality(ChainOf(r, i)) = pgCount(r.fcb[i].size) /\ r.fcb[i].fileName = n
  BY <1>1, <1>2, EmptyChain DEF EmptyFcb
<1>5. ASSUME NEW j \in InUse(r) \ {i}
      PROVE  j \in InUse(m) /\ Kept(m, r, j, j) /\ ChainOf(r, j) = ChainOf(m, j) /\ Here[j] = j
  <2>1. j \in InUse(m) /\ j \in Slot /\ Here[j] = j BY <1>3 DEF InUse, Here
  <2>2. Kept(m, r, j, j) BY <1>2, <2>1 DEF Kept
  <2> QED BY <1>1, <1>2, <2>1, <2>2, KeptSame
<1>6. \A j \in InUse(r) \ {i} : m.fcb[j].fileName # n BY <1>5 DEF Hits
<1>7. exact => FreePages(r) = Page \ UNION {ChainOf(r, j) : j \in InUse(r)}
  <2>1. UNION {ChainOf(r, j) : j \in InUse(r)} = UNION {ChainOf(m, j) : j \in InUse(m)}
    BY <1>1, <1>3, <1>4, <1>5
  <2>2. FreePages(r) = FreePages(m) BY <1>2 DEF FreePages
  <2> QED BY <2>1, <2>2 DEF Order
<1>8. Fresh(m, exact, r, i, Here) BY <1>4, <1>5, <1>6 DEF Fresh
<1>9. Rearrangement(m, exact, r, i, Here)
  BY <1>2, <1>5, <1>7, <1>8 DEF Rearrangement
<1> QED BY <1>9, Rearranged DEF r

\* An entry moved to a free one: createFileAt for a name that is there.
LEMMA MovedOrder ==
  ASSUME NEW m, NEW exact \in BOOLEAN, Order(m, exact), NEW c \in InUse(m),
         NEW i \in FreeSlots(m)
  PROVE  Order([m EXCEPT !.fcb = [m.fcb EXCEPT ![i] = m.fcb[c], ![c] = NoFcb]], exact)
<1> DEFINE r == [m EXCEPT !.fcb = [m.fcb EXCEPT ![i] = m.fcb[c], ![c] = NoFcb]]
           f == [j \in Slot |-> IF j = i THEN c ELSE j]
<1>1. m \in Metadata /\ i \in Slot /\ i \notin InUse(m) /\ c \in Slot /\ c # i
  BY DEF Order, FreeSlots, InUse
<1>2. /\ r \in Metadata /\ r.nextPg = m.nextPg /\ r.fcb[i] = m.fcb[c] /\ r.fcb[c] = NoFcb
      /\ \A j \in Slot \ {i, c} : r.fcb[j] = m.fcb[j]
  <2>1. NoFcb \in FcbType BY DEF NoFcb, FcbType
  <2> DEFINE g == [m.fcb EXCEPT ![i] = m.fcb[c], ![c] = NoFcb]
  <2>2. m.fcb \in [Slot -> FcbType] BY <1>1, EntryFacts
  <2>3. /\ g \in [Slot -> FcbType] /\ g[i] = m.fcb[c] /\ g[c] = NoFcb
        /\ \A j \in Slot \ {i, c} : g[j] = m.fcb[j]
    BY <1>1, <2>1, <2>2
  <2>4. r.fcb = g /\ r.nextPg = m.nextPg /\ r \in Metadata BY <1>1, <2>3 DEF Metadata
  <2> QED BY <2>3, <2>4
<1> HIDE DEF r
<1>3. InUse(r) = (InUse(m) \ {c}) \cup {i}
  BY <1>1, <1>2 DEF InUse, NoFcb
<1>4. /\ \A j \in InUse(r) : f[j] \in InUse(m) /\ r.fcb[j] = m.fcb[f[j]]
      /\ \A j, k \in InUse(r) : j # k => f[j] # f[k]
      /\ \A j \in InUse(m) : \E k \in InUse(r) : f[k] = j
  <2>1. \A j \in InUse(r) : j \in Slot BY DEF InUse
  <2>2. f[i] = c /\ \A j \in Slot \ {i} : f[j] = j BY <1>1
  <2>3. \A j \in InUse(m) : j \in Slot BY DEF InUse
  <2> HIDE DEF f
  <2>4. \A j \in InUse(r) : f[j] \in InUse(m) /\ r.fcb[j] = m.fcb[f[j]]
    BY <1>1, <1>2, <1>3, <2>1, <2>2
  <2>5. \A j, k \in InUse(r) : j # k => f[j] # f[k] BY <1>1, <1>3, <2>1, <2>2
  <2>6. \A j \in InUse(m) : \E k \in InUse(r) : f[k] = j BY <1>1, <1>3, <2>2, <2>3
  <2> QED BY <2>4, <2>5, <2>6
<1> HIDE DEF f
<1>5. ASSUME NEW j \in InUse(r)
      PROVE  Kept(m, r, j, f[j]) /\ ChainOf(r, j) = ChainOf(m, f[j])
  <2>1. Kept(m, r, j, f[j]) BY <1>2, <1>4 DEF Kept
  <2>2. j \in Slot /\ f[j] \in Slot BY <1>4 DEF InUse
  <2> QED BY <1>1, <1>2, <2>1, <2>2, KeptChain DEF Kept
<1>6. exact => FreePages(r) = Page \ UNION {ChainOf(r, j) : j \in InUse(r)}
  <2>1. UNION {ChainOf(r, j) : j \in InUse(r)} = UNION {ChainOf(m, j) : j \in InUse(m)}
    BY <1>4, <1>5
  <2>2. FreePages(r) = FreePages(m) BY <1>2 DEF FreePages
  <2> QED BY <2>1, <2>2 DEF Order
<1>7. -1 \notin InUse(r) BY DEF InUse, Slot
<1>8. Rearrangement(m, exact, r, -1, f)
  BY <1>2, <1>4, <1>5, <1>6, <1>7 DEF Rearrangement
<1> QED BY <1>8, Rearranged DEF r

(***************************************************************************)
(* writeFileAt, as it is in ARSFS: the metadata with the old pages given   *)
(* back, and with d in the first free ones.                                *)
(***************************************************************************)
Gone(m, i) ==
  [pgFreeChain(m, m.fcb[i].start) EXCEPT !.fcb[i].start = EOF_PG, !.fcb[i].size = 0]
Need(d) == pgCount(SizeOf[d])
Filled(g, i, d, pg, got) ==
  LET link  == [k \in 1 .. got |-> IF k = got THEN EOF_PG ELSE pg[k + 1]]
      taken == {pg[k] : k \in 1 .. got}
  IN  [g EXCEPT
         !.nextPg = [p \in Page |-> IF p \in taken
                       THEN link[CHOOSE k \in 1 .. got : pg[k] = p] ELSE @[p]],
         !.fcb[i].start = IF Need(d) = 0 THEN @ ELSE pg[1],
         !.fcb[i].size  = SizeOf[d]]

\* The old pages given back: the file is there, and empty.
LEMMA GoneOrder ==
  ASSUME NEW m, NEW exact \in BOOLEAN, Order(m, exact), NEW i \in InUse(m)
  PROVE  /\ Order(Gone(m, i), exact)
         /\ InUse(Gone(m, i)) = InUse(m)
         /\ FreePages(Gone(m, i)) = FreePages(m) \cup ChainOf(m, i)
         /\ Gone(m, i).fcb[i] = [fileName |-> m.fcb[i].fileName, start |-> EOF_PG, size |-> 0]
         /\ \A j \in Slot \ {i} : Gone(m, i).fcb[j] = m.fcb[j]
         /\ \A p \in Page : Gone(m, i).nextPg[p] =
                              IF p \in ChainOf(m, i) THEN FREE_OR_DEL ELSE m.nextPg[p]
<1> DEFINE g == [fileName |-> m.fcb[i].fileName, start |-> EOF_PG, size |-> 0]
           r == Gone(m, i)
           q == pgFreeChain(m, m.fcb[i].start)
<1>1. m \in Metadata /\ i \in Slot BY DEF Order, InUse
<1>2. m.fcb \in [Slot -> FcbType] /\ m.fcb[i] \in FcbType /\ m.nextPg \in [Page -> Place]
  BY <1>1, EntryFacts DEF Links
<1>3. /\ q.fcb = m.fcb /\ q.nextPg = [p \in Page |-> IF p \in ChainOf(m, i) THEN FREE_OR_DEL
                                                     ELSE m.nextPg[p]]
      /\ q = [fcb |-> q.fcb, nextPg |-> q.nextPg]
  BY <1>1 DEF pgFreeChain, ChainOf, Metadata
<1>4. r = [fcb |-> [m.fcb EXCEPT ![i].start = EOF_PG, ![i].size = 0], nextPg |-> q.nextPg]
  <2> HIDE DEF q
  <2>1. Gone(m, i) = [q EXCEPT !.fcb[i].start = EOF_PG, !.fcb[i].size = 0] BY DEF Gone, q
  <2> QED BY <1>3, <2>1
<1>5. [m.fcb EXCEPT ![i].start = EOF_PG, ![i].size = 0] = [m.fcb EXCEPT ![i] = g]
  BY <1>1, <1>2 DEF FcbType
<1>6. r.fcb = [m.fcb EXCEPT ![i] = g] /\ r.nextPg = q.nextPg BY <1>4, <1>5
<1>7. r \in Metadata
  <2>1. g \in FcbType BY <1>1, EntryFacts DEF FcbType
  <2>2. [m.fcb EXCEPT ![i] = g] \in [Slot -> FcbType] BY <1>2, <2>1
  <2>3. q.nextPg \in [Page -> Place] BY <1>2, <1>3 DEF Place
  <2> QED BY <1>4, <1>5, <2>2, <2>3 DEF Metadata, Place
<1>8. r.fcb[i] = g /\ \A j \in Slot \ {i} : r.fcb[j] = m.fcb[j] BY <1>1, <1>2, <1>6
<1> HIDE DEF r, q
<1>9. i \in InUse(r) BY <1>1, <1>8, MarkAssumption DEF InUse
<1>10. /\ Order(r, exact) /\ FreePages(r) = FreePages(m) \cup ChainOf(m, i)
       /\ InUse(r) \ {i} = InUse(m) \ {i}
  <2>1. /\ g.start = EOF_PG /\ g.size = 0 /\ g.fileName = m.fcb[i].fileName
        /\ r.nextPg = pgFreeChain(m, m.fcb[i].start).nextPg
    BY <1>6 DEF q
  <2> HIDE DEF g
  <2> QED BY <1>6, <1>7, <2>1, EmptiedOrder
<1>11. InUse(r) = InUse(m) BY <1>9, <1>10
<1>12. \A p \in Page : r.nextPg[p] = IF p \in ChainOf(m, i) THEN FREE_OR_DEL ELSE m.nextPg[p]
  BY <1>3, <1>6
<1> QED BY <1>8, <1>10, <1>11, <1>12 DEF r

\* Contents that fit into the free pages of an empty file: the file has a chain of them,
\* in the order in which they are written.
LEMMA FilledOrder ==
  ASSUME NEW g, NEW exact \in BOOLEAN, Order(g, exact), NEW i \in InUse(g),
         g.fcb[i].start = EOF_PG, NEW d \in Data, NEW c \in Nat, Need(d) <= c,
         NEW pg \in [1 .. c -> FreePages(g)],
         \A j, k \in 1 .. c : j # k => pg[j] # pg[k]
  PROVE  LET r == Filled(g, i, d, pg, Need(d)) IN
         /\ Order(r, exact) /\ InUse(r) = InUse(g)
         /\ FreePages(r) = FreePages(g) \ {pg[k] : k \in 1 .. Need(d)}
         /\ \A j \in Slot \ {i} : r.fcb[j] = g.fcb[j]
         /\ r.fcb[i].fileName = g.fcb[i].fileName /\ r.fcb[i].size = SizeOf[d]
         /\ ChainOf(r, i) = {pg[k] : k \in 1 .. Need(d)}
         /\ \A k \in 1 .. Need(d) : Nth(r, r.fcb[i].start, k - 1) = pg[k]
         /\ \A p \in Page \ ChainOf(r, i) : r.nextPg[p] = g.nextPg[p]
<1> DEFINE r == Filled(g, i, d, pg, Need(d))
           n == Need(d)
           T == {pg[k] : k \in 1 .. n}
           start == IF n = 0 THEN g.fcb[i].start ELSE pg[1]
<1>1. g \in Metadata /\ i \in Slot BY DEF Order, InUse
<1>2. g.fcb \in [Slot -> FcbType] /\ g.fcb[i] \in FcbType /\ g.nextPg \in [Page -> Place]
  BY <1>1, EntryFacts DEF Links
<1>3. SizeOf[d] \in Nat /\ n \in Nat BY DataAssumption, CountIs DEF Need
<1>4. /\ 1 .. n \subseteq 1 .. c /\ FreePages(g) \subseteq Page
      /\ pg \in [1 .. c -> Page] /\ T \subseteq FreePages(g)
      /\ \A k \in 1 .. n : pg[k] \in FreePages(g)
  <2>1. 1 .. n \subseteq 1 .. c BY <1>3
  <2> QED BY <2>1 DEF FreePages
<1>5. \A k \in 1 .. n : (CHOOSE l \in 1 .. n : pg[l] = pg[k]) = k BY <1>4
<1> DEFINE N == [p \in Page |-> IF p \in T
                   THEN [k \in 1 .. n |-> IF k = n THEN EOF_PG ELSE pg[k + 1]]
                          [CHOOSE k \in 1 .. n : pg[k] = p]
                   ELSE g.nextPg[p]]
<1>6. ASSUME NEW k \in 1 .. n PROVE N[pg[k]] = IF k = n THEN EOF_PG ELSE pg[k + 1]
  BY <1>4, <1>5
<1>7. \A p \in Page \ T : N[p] = g.nextPg[p] OBVIOUS
<1>8. N \in [Page -> Place]
  <2>1. ASSUME NEW p \in Page PROVE N[p] \in Place
    <3>1. CASE p \in T
      <4>1. PICK k \in 1 .. n : p = pg[k] BY <3>1
      <4>2. k # n => k + 1 \in 1 .. n BY <1>3
      <4> HIDE DEF N
      <4> QED BY <1>4, <1>6, <4>1, <4>2 DEF Place
    <3> QED BY <1>2, <1>7, <3>1
  <2> QED BY <2>1
<1> DEFINE F == [g.fcb EXCEPT ![i].start = start, ![i].size = SizeOf[d]]
<1>9. r = [fcb |-> F, nextPg |-> N]
  <2>1. r = [g EXCEPT !.nextPg = N, !.fcb[i].start = start, !.fcb[i].size = SizeOf[d]]
    BY DEF Filled
  <2>2. g = [fcb |-> g.fcb, nextPg |-> g.nextPg] BY <1>1 DEF Metadata
  <2> HIDE DEF r, N, start
  <2> QED BY <1>1, <1>2, <2>1, <2>2
<1>10. start \in Place BY <1>1, <1>2, <1>3, <1>4, MarkAssumption DEF Place, FcbType
<1>11. /\ F \in [Slot -> FcbType]
       /\ F[i] = [fileName |-> g.fcb[i].fileName, start |-> start, size |-> SizeOf[d]]
       /\ \A j \in Slot \ {i} : F[j] = g.fcb[j]
  <2> HIDE DEF start
  <2> QED BY <1>1, <1>2, <1>3, <1>10 DEF FcbType, Place
<1> HIDE DEF N, F
<1>12. r \in Metadata /\ r.fcb = F /\ r.nextPg = N BY <1>8, <1>9, <1>11 DEF Metadata, Place
<1> HIDE DEF r
<1>13. InUse(r) = InUse(g)
  <2>1. start # FREE_OR_DEL
    BY <1>1, <1>2, <1>3, <1>4, MarkAssumption DEF InUse
  <2> HIDE DEF start
  <2> QED BY <1>1, <1>11, <1>12, <2>1 DEF InUse
<1>14. FreePages(r) = FreePages(g) \ T
  <2>1. ASSUME NEW p \in T PROVE r.nextPg[p] # FREE_OR_DEL
    <3>1. PICK k \in 1 .. n : p = pg[k] BY <2>1
    <3>2. k # n => k + 1 \in 1 .. n BY <1>3
    <3> QED BY <1>4, <1>6, <1>12, <3>1, <3>2, MarkAssumption
  <2>2. \A p \in Page \ T : r.nextPg[p] = g.nextPg[p] BY <1>7, <1>12
  <2> HIDE DEF T
  <2> QED BY <1>4, <2>1, <2>2 DEF FreePages
<1>15. /\ ChainOf(r, i) = T /\ Cardinality(ChainOf(r, i)) = n
       /\ Nth(r, r.fcb[i].start, BMP) = EOF_PG
       /\ \A k \in 1 .. n : Nth(r, r.fcb[i].start, k - 1) = pg[k]
  <2>1. CASE n = 0
    <3>1. T = {} BY <1>3, <2>1
    <3>2. r.fcb[i].start = EOF_PG BY <1>11, <1>12, <2>1
    <3>3. \A k \in 1 .. n : FALSE BY <2>1
    <3> HIDE DEF T, n
    <3> QED BY <1>1, <1>12, <2>1, <3>1, <3>2, <3>3, EmptyChain
  <2>2. CASE n # 0
    <3>1. n \in Nat \ {0} /\ r.fcb[i].start = pg[1] BY <1>3, <1>11, <1>12, <2>2
    <3> DEFINE h == [k \in 1 .. n |-> pg[k]]
    <3>2. h \in [1 .. n -> Page] /\ (\A j, k \in 1 .. n : j # k => h[j] # h[k]) BY <1>4
    <3>3. \A k \in 1 .. n : r.nextPg[h[k]] = IF k = n THEN EOF_PG ELSE h[k + 1]
      BY <1>3, <1>6, <1>12
    <3>4. h[1] = pg[1] /\ {h[k] : k \in 1 .. n} = T /\ \A k \in 1 .. n : h[k] = pg[k] BY <3>1
    <3>5. Links(r) BY <1>12, EntryFacts
    <3> HIDE DEF h, T, n
    <3>6. Linked(r, n, h) BY <3>1, <3>2, <3>3, <3>5 DEF Linked
    <3>7. Nth(r, h[1], BMP) = EOF_PG BY <3>6, NewChain
    <3>8. \A k \in 1 .. n : Nth(r, h[1], k - 1) = h[k] BY <3>6, NewChain
    <3>9. Chain(r, h[1]) = {h[k] : k \in 1 .. n} BY <3>6, NewChain
    <3>10. Cardinality(Chain(r, h[1])) = n BY <3>6, NewChain
    <3> QED BY <3>1, <3>4, <3>7, <3>8, <3>9, <3>10 DEF ChainOf
  <2> QED BY <2>1, <2>2
<1>16. ASSUME NEW j \in InUse(g) PROVE ChainOf(g, j) \cap FreePages(g) = {}
  <2>1. j \in Slot /\ Nth(g, g.fcb[j].start, BMP) = EOF_PG BY DEF Order, InUse
  <2>2. Links(g) /\ g.fcb[j].start \in Place BY <1>1, <2>1, EntryFacts
  <2> QED BY <2>1, <2>2, EndedChain DEF FreePages, ChainOf
<1>17. /\ \A j \in Slot \ {i} : r.fcb[j] = g.fcb[j]
       /\ r.fcb[i].fileName = g.fcb[i].fileName /\ r.fcb[i].size = SizeOf[d]
       /\ \A p \in Page \ T : r.nextPg[p] = g.nextPg[p]
  BY <1>7, <1>11, <1>12
<1> HIDE DEF T
<1>18. ASSUME NEW j \in InUse(r) \ {i}
       PROVE  j \in InUse(g) /\ Kept(g, r, j, j) /\ ChainOf(r, j) = ChainOf(g, j) /\ Here[j] = j
  <2>1. j \in InUse(g) /\ j \in Slot /\ Here[j] = j BY <1>13 DEF InUse, Here
  <2>2. \A p \in ChainOf(g, j) : p \in Page \ T BY <1>1, <1>4, <1>16, <2>1, ChainOfFacts
  <2>3. Kept(g, r, j, j) BY <1>17, <2>1, <2>2 DEF Kept
  <2> QED BY <1>1, <1>12, <2>1, <2>3, KeptSame
<1>19. exact => FreePages(r) = Page \ UNION {ChainOf(r, j) : j \in InUse(r)}
  <2>1. ChainOf(g, i) = {} BY <1>1, EmptyChain
  <2>2. UNION {ChainOf(r, j) : j \in InUse(r)} = T \cup UNION {ChainOf(g, j) : j \in InUse(g)}
    <3>1. \A j \in InUse(r) : ChainOf(r, j) = IF j = i THEN T ELSE ChainOf(g, j) BY <1>15, <1>18
    <3> QED BY <1>13, <2>1, <3>1
  <2> QED BY <1>4, <1>14, <2>2 DEF Order
<1>20. Fresh(g, exact, r, i, Here)
  <2>1. ASSUME NEW j \in InUse(r) \ {i}
        PROVE  /\ ChainOf(r, i) \cap ChainOf(g, Here[j]) = {}
               /\ exact \/ r.fcb[i].fileName # NONE =>
                    g.fcb[Here[j]].fileName # r.fcb[i].fileName
    <3>1. ChainOf(r, i) \cap ChainOf(g, j) = {} BY <1>4, <1>15, <1>16, <1>18
    <3>2. exact \/ g.fcb[i].fileName # NONE => g.fcb[i].fileName # g.fcb[j].fileName
      BY <1>18 DEF Order
    <3> QED BY <1>17, <1>18, <3>1, <3>2
  <2> QED BY <1>15, <1>17, <2>1 DEF Fresh, Need
<1>21. \A j, k \in InUse(r) \ {i} : j # k => Here[j] # Here[k] BY <1>18
<1>22. Rearrangement(g, exact, r, i, Here)
  BY <1>12, <1>18, <1>19, <1>20, <1>21 DEF Rearrangement
<1>23. Order(r, exact) BY <1>22, Rearranged
<1> QED BY <1>13, <1>14, <1>15, <1>17, <1>23 DEF T, r

-----------------------------------------------------------------------------
(***************************************************************************)
(* What an operation on file n does to metadata m, with the pages it is    *)
(* going to write: the entries and the pages of other files stay.          *)
(***************************************************************************)
PageWrite == [page : Page, chunk : Chunk]
Distinct(w) == \A j, k \in 1 .. Len(w) : j # k => w[j].page # w[k].page
Untouched(n, m, r, w) ==
  /\ \A j \in InUse(m) : m.fcb[j].fileName # n =>
       Kept(m, r, j, j) /\ \A k \in 1 .. Len(w) : w[k].page \notin ChainOf(m, j)
  /\ \A j \in InUse(r) : r.fcb[j].fileName # n => j \in InUse(m) /\ r.fcb[j] = m.fcb[j]
Does_orderly(x, n, m, w) ==
  /\ Does(n, m, w) /\ Order(m, x) /\ w \in Seq(PageWrite) /\ Distinct(w)
  /\ n = ALL \/ Untouched(n, meta, m, w)

\* Entries in use are slots, and no page of their chains is free.
LEMMA NotFree ==
  ASSUME NEW m, NEW x, Order(m, x), NEW j \in InUse(m)
  PROVE  j \in Slot /\ m.fcb[j].start \in Place /\ ChainOf(m, j) \subseteq Page
         /\ ChainOf(m, j) \cap FreePages(m) = {}
<1>1. m \in Metadata /\ j \in Slot /\ Nth(m, m.fcb[j].start, BMP) = EOF_PG BY DEF Order, InUse
<1>2. Links(m) /\ m.fcb[j].start \in Place BY <1>1, EntryFacts
<1> QED BY <1>1, <1>2, ChainOfFacts, EndedChain DEF FreePages, ChainOf

\* No write: nothing to be said of pages.
LEMMA NoWrites == <<>> \in Seq(PageWrite) /\ Distinct(<<>>) /\ Len(<<>>) = 0
  BY DEF Distinct

LEMMA FormatDoes ==
  ASSUME NEW x \in BOOLEAN, format
  PROVE  Does_orderly(x, ALL, Blank, <<>>)
  BY BlankOrder, NoWrites DEF format, Does_orderly

LEMMA CreatedDoes ==
  ASSUME NEW x \in BOOLEAN, Order(meta, x), NEW n \in Name, Hits(meta, n) = {},
         NEW i \in FreeSlots(meta), NEW m, m = [meta EXCEPT !.fcb = [meta.fcb EXCEPT ![i] = EmptyFcb(n)]],
         Does(n, m, <<>>)
  PROVE  Does_orderly(x, n, m, <<>>)
<1>1. Order(m, x) BY CreatedOrder
<1>2. meta \in Metadata /\ meta.fcb \in [Slot -> FcbType] /\ i \in Slot /\ i \notin InUse(meta)
  BY EntryFacts DEF Order, FreeSlots
<1>3. /\ m.nextPg = meta.nextPg /\ m.fcb[i] = EmptyFcb(n)
      /\ \A j \in Slot \ {i} : m.fcb[j] = meta.fcb[j]
  BY <1>2 DEF Metadata
<1>4. Untouched(n, meta, m, <<>>)
  <2>1. ASSUME NEW j \in InUse(meta) PROVE Kept(meta, m, j, j)
    <3>1. j \in Slot \ {i} BY <1>2 DEF InUse
    <3> QED BY <1>3, <3>1 DEF Kept
  <2>2. ASSUME NEW j \in InUse(m), m.fcb[j].fileName # n
        PROVE  j \in InUse(meta) /\ m.fcb[j] = meta.fcb[j]
    <3>1. j # i BY <1>3, <2>2 DEF EmptyFcb
    <3> QED BY <1>3, <3>1 DEF InUse
  <2> QED BY <2>1, <2>2, NoWrites DEF Untouched
<1> QED BY <1>1, <1>4, NoWrites DEF Does_orderly

LEMMA MovedDoes ==
  ASSUME NEW x \in BOOLEAN, Order(meta, x), NEW n \in Name, NEW c \in InUse(meta),
         meta.fcb[c].fileName = n, NEW i \in FreeSlots(meta), NEW m,
         m = [meta EXCEPT !.fcb = [meta.fcb EXCEPT ![i] = meta.fcb[c], ![c] = NoFcb]],
         Does(n, m, <<>>)
  PROVE  Does_orderly(x, n, m, <<>>)
<1>1. Order(m, x) BY MovedOrder
<1>2. meta \in Metadata /\ meta.fcb \in [Slot -> FcbType] /\ i \in Slot /\ i \notin InUse(meta)
      /\ c \in Slot /\ c # i
  BY EntryFacts DEF Order, FreeSlots, InUse
<1>3. /\ m.nextPg = meta.nextPg /\ m.fcb[i] = meta.fcb[c] /\ m.fcb[c] = NoFcb
      /\ \A j \in Slot \ {i, c} : m.fcb[j] = meta.fcb[j]
  <2> DEFINE g == [meta.fcb EXCEPT ![i] = meta.fcb[c], ![c] = NoFcb]
  <2>1. m.nextPg = meta.nextPg /\ m.fcb = g BY <1>2 DEF Metadata
  <2> QED BY <1>2, <2>1
<1>4. Untouched(n, meta, m, <<>>)
  <2>1. ASSUME NEW j \in InUse(meta), meta.fcb[j].fileName # n PROVE Kept(meta, m, j, j)
    <3>1. j \in Slot \ {i, c} BY <1>2, <2>1 DEF InUse
    <3> QED BY <1>3, <3>1 DEF Kept
  <2>2. ASSUME NEW j \in InUse(m), m.fcb[j].fileName # n
        PROVE  j \in InUse(meta) /\ m.fcb[j] = meta.fcb[j]
    <3>1. j # i BY <1>3, <2>2
    <3>2. j # c BY <1>3, SMTT(30) DEF InUse, NoFcb
    <3> QED BY <1>3, <3>1, <3>2 DEF InUse
  <2> QED BY <2>1, <2>2, NoWrites DEF Untouched
<1> QED BY <1>1, <1>4, NoWrites DEF Does_orderly

LEMMA DeletedDoes ==
  ASSUME NEW x \in BOOLEAN, Order(meta, x), NEW n \in Name, NEW i \in InUse(meta),
         meta.fcb[i].fileName = n, NEW m,
         m = [pgFreeChain(meta, meta.fcb[i].start) EXCEPT !.fcb[i] = NoFcb],
         Does(n, m, <<>>)
  PROVE  /\ Does_orderly(x, n, m, <<>>)
         /\ i \notin InUse(m) /\ \A j \in Slot \ {i} : m.fcb[j] = meta.fcb[j]
<1>1. /\ meta \in Metadata /\ meta.fcb \in [Slot -> FcbType] /\ i \in Slot
      /\ meta.nextPg \in [Page -> Place]
  BY EntryFacts DEF Order, InUse, Links
<1> DEFINE q == pgFreeChain(meta, meta.fcb[i].start)
<1>2. /\ q.fcb = meta.fcb
      /\ q.nextPg = [p \in Page |-> IF p \in ChainOf(meta, i) THEN FREE_OR_DEL ELSE meta.nextPg[p]]
      /\ q = [fcb |-> q.fcb, nextPg |-> q.nextPg]
  BY <1>1, SMTT(30) DEF pgFreeChain, ChainOf, Metadata
<1>3. m.fcb = [meta.fcb EXCEPT ![i] = NoFcb] /\ m.nextPg = q.nextPg
      /\ m = [fcb |-> m.fcb, nextPg |-> m.nextPg]
  <2>1. m = [q EXCEPT !.fcb[i] = NoFcb] BY SMTT(30)
  <2> HIDE DEF q
  <2> QED BY <1>2, <2>1
<1>4. m \in Metadata
  <2>1. NoFcb \in FcbType BY SMTT(30) DEF NoFcb, FcbType
  <2>2. m.fcb \in [Slot -> FcbType] BY <1>1, <1>3, <2>1
  <2>3. m.nextPg \in [Page -> Place] BY <1>1, <1>2, <1>3 DEF Place
  <2> QED BY <1>3, <2>2, <2>3 DEF Metadata, Place
<1>5. NoFcb.start = FREE_OR_DEL BY SMTT(30) DEF NoFcb
<1>6. m.nextPg = pgFreeChain(meta, meta.fcb[i].start).nextPg BY <1>3, SMTT(30)
<1>7. Order(m, x) BY <1>3, <1>4, <1>5, <1>6, EmptiedOrder, SMTT(30)
<1>8. m.fcb[i] = NoFcb /\ \A j \in Slot \ {i} : m.fcb[j] = meta.fcb[j] BY <1>1, <1>3
<1>9. i \notin InUse(m) BY <1>5, <1>8, SMTT(30) DEF InUse
<1>10. Untouched(n, meta, m, <<>>)
  <2>1. ASSUME NEW j \in InUse(meta), meta.fcb[j].fileName # n PROVE Kept(meta, m, j, j)
    <3>1. j \in Slot \ {i} BY <2>1 DEF InUse
    <3>2. ChainOf(meta, j) \cap ChainOf(meta, i) = {} BY <3>1 DEF Order
    <3>3. ChainOf(meta, j) \subseteq Page BY <1>1, <3>1, ChainOfFacts
    <3>4. \A p \in ChainOf(meta, j) : m.nextPg[p] = meta.nextPg[p] BY <1>2, <1>3, <3>2, <3>3, SMTT(30)
    <3> QED BY <1>8, <3>1, <3>4 DEF Kept
  <2>2. ASSUME NEW j \in InUse(m) PROVE j \in InUse(meta) /\ m.fcb[j] = meta.fcb[j]
    BY <1>8, <1>9 DEF InUse
  <2> QED BY <2>1, <2>2, NoWrites DEF Untouched
<1> QED BY <1>7, <1>8, <1>9, <1>10, NoWrites DEF Does_orderly

\* The writes of the first got pages of contents d.
PagesWritten(d, pg, got) == [k \in 1 .. got |-> [page |-> pg[k], chunk |-> <<d, k>>]]

\* writeFileAt in the two cases it has: there is room, or there is none.
LEMMA WriteIs ==
  ASSUME NEW n, NEW i, NEW d, writeFileAt(n, i, d)
  PROVE  LET g == Gone(meta, i)
             pg == Ascending(FreePages(g))
         IN  IF Need(d) <= Len(pg) THEN Does(n, Filled(g, i, d, pg, Need(d)), PagesWritten(d, pg, Need(d)))
             ELSE Does(n, g, PagesWritten(d, pg, Len(pg)))
<1> DEFINE g == Gone(meta, i)
           pg == Ascending(FreePages(g))
           got == IF Need(d) <= Len(pg) THEN Need(d) ELSE Len(pg)
<1>1. Does(n, IF Need(d) <= Len(pg) THEN Filled(g, i, d, pg, got) ELSE g,
              PagesWritten(d, pg, got))
  BY DEF writeFileAt, Gone, Filled, Need, PagesWritten
<1>2. CASE Need(d) <= Len(pg)
  <2>1. got = Need(d) BY <1>2
  <2> HIDE DEF got
  <2> QED BY <1>1, <1>2, <2>1
<1>3. CASE ~(Need(d) <= Len(pg))
  <2>1. got = Len(pg) BY <1>3
  <2> HIDE DEF got
  <2> QED BY <1>1, <1>3, <2>1
<1> QED BY <1>2, <1>3, SMTT(30)

\* The pages that are written are free once the old ones are given back.
LEMMA WritesFit ==
  ASSUME NEW S, S \subseteq Page, NEW d \in Data, NEW got \in Nat, got <= Len(Ascending(S))
  PROVE  LET w == PagesWritten(d, Ascending(S), got) IN
         /\ w \in Seq(PageWrite) /\ Distinct(w) /\ Len(w) = got
         /\ \A k \in 1 .. Len(w) : w[k].page \in S /\ w[k].chunk = <<d, k>>
         /\ \A k \in 1 .. got : w[k].page = Ascending(S)[k]
<1> DEFINE f == Ascending(S)
           w == PagesWritten(d, f, got)
           c == Cardinality(S)
<1>1. /\ c \in Nat /\ f \in [1 .. c -> S] /\ Len(f) = c
      /\ \A j, k \in 1 .. c : j # k => f[j] # f[k]
  BY AscendingIs
<1> HIDE DEF f
<1>2. 1 .. got \subseteq 1 .. c BY <1>1 DEF f
<1>3. \A k \in 1 .. got : w[k] = [page |-> f[k], chunk |-> <<d, k>>] /\ f[k] \in S
  BY <1>1, <1>2 DEF PagesWritten
<1>4. ASSUME NEW k \in 1 .. got PROVE [page |-> f[k], chunk |-> <<d, k>>] \in PageWrite
  <2>1. f[k] \in Page BY <1>3
  <2>2. <<d, k>> \in Chunk BY DEF Chunk
  <2> QED BY <2>1, <2>2 DEF PageWrite
<1>5. w \in [1 .. got -> PageWrite] BY <1>4 DEF PagesWritten
<1>6. w \in Seq(PageWrite) /\ Len(w) = got BY <1>5
<1> HIDE DEF w
<1>7. Distinct(w) BY <1>1, <1>2, <1>3, <1>6 DEF Distinct
<1> QED BY <1>3, <1>6, <1>7 DEF w, f

LEMMA WrittenDoes ==
  ASSUME NEW x \in BOOLEAN, Order(meta, x), NEW n \in Name, NEW i \in InUse(meta),
         meta.fcb[i].fileName = n, NEW d \in Data, writeFileAt(n, i, d)
  PROVE  \E m, w : Does_orderly(x, n, m, w)
<1> DEFINE g == Gone(meta, i)
           free == FreePages(g)
           pg == Ascending(free)
<1>1. /\ Order(g, x) /\ InUse(g) = InUse(meta) /\ free = FreePages(meta) \cup ChainOf(meta, i)
      /\ g.fcb[i].start = EOF_PG /\ g.fcb[i].fileName = n
      /\ \A j \in Slot \ {i} : g.fcb[j] = meta.fcb[j]
      /\ \A p \in Page \ ChainOf(meta, i) : g.nextPg[p] = meta.nextPg[p]
  <2> HIDE DEF g
  <2>1. Order(g, x) /\ InUse(g) = InUse(meta) BY GoneOrder DEF g
  <2>2. free = FreePages(meta) \cup ChainOf(meta, i) BY GoneOrder DEF g
  <2>3. g.fcb[i] = [fileName |-> meta.fcb[i].fileName, start |-> EOF_PG, size |-> 0]
    BY GoneOrder DEF g
  <2>4. \A j \in Slot \ {i} : g.fcb[j] = meta.fcb[j] BY GoneOrder, ZenonT(40) DEF g
  <2>5. \A p \in Page : g.nextPg[p] = IF p \in ChainOf(meta, i) THEN FREE_OR_DEL
                                        ELSE meta.nextPg[p]
    BY GoneOrder DEF g
  <2> QED BY <2>1, <2>2, <2>3, <2>4, <2>5
<1>2. meta \in Metadata /\ i \in Slot /\ free \subseteq Page BY DEF Order, InUse, FreePages
<1>3. /\ Cardinality(free) \in Nat /\ pg \in [1 .. Cardinality(free) -> free]
      /\ Len(pg) = Cardinality(free)
      /\ \A j, k \in 1 .. Cardinality(free) : j # k => pg[j] # pg[k]
  BY <1>2, AscendingIs
<1>4. Need(d) \in Nat BY DataAssumption, CountIs DEF Need
<1> HIDE DEF g, pg
<1>5. ASSUME NEW j \in InUse(meta), j # i
      PROVE  j \in Slot \ {i} /\ ChainOf(meta, j) \subseteq Page \ free
             /\ \A p \in ChainOf(meta, j) : g.nextPg[p] = meta.nextPg[p]
  <2>1. ChainOf(meta, j) \cap ChainOf(meta, i) = {} BY <1>5 DEF Order
  <2>2. j \in Slot /\ ChainOf(meta, j) \subseteq Page
        /\ ChainOf(meta, j) \cap FreePages(meta) = {}
    BY NotFree
  <2> QED BY <1>1, <1>5, <2>1, <2>2
<1>6. ASSUME NEW m, m.fcb[i].fileName = n, InUse(m) = InUse(meta), NEW got \in Nat, got <= Len(pg),
             \A j \in Slot \ {i} : m.fcb[j] = g.fcb[j],
             \A p \in Page \ free : m.nextPg[p] = g.nextPg[p],
             Order(m, x), Does(n, m, PagesWritten(d, pg, got))
      PROVE  Does_orderly(x, n, m, PagesWritten(d, pg, got))
  <2> DEFINE w == PagesWritten(d, pg, got)
  <2>1. w \in Seq(PageWrite) /\ Distinct(w) /\ \A k \in 1 .. Len(w) : w[k].page \in free
    BY <1>2, <1>6, WritesFit DEF pg
  <2> HIDE DEF w
  <2>2. ASSUME NEW j \in InUse(meta), meta.fcb[j].fileName # n
        PROVE  Kept(meta, m, j, j) /\ \A k \in 1 .. Len(w) : w[k].page \notin ChainOf(meta, j)
    BY <1>1, <1>5, <1>6, <2>1, <2>2 DEF Kept
  <2>3. ASSUME NEW j \in InUse(m), m.fcb[j].fileName # n
        PROVE  j \in InUse(meta) /\ m.fcb[j] = meta.fcb[j]
    <3>1. j \in Slot \ {i} BY <1>6, <2>3 DEF InUse
    <3> QED BY <1>1, <1>6, <3>1
  <2>4. Untouched(n, meta, m, w) BY <2>2, <2>3 DEF Untouched
  <2> QED BY <1>6, <2>1, <2>4 DEF Does_orderly, w
<1>7. IF Need(d) <= Len(pg) THEN Does(n, Filled(g, i, d, pg, Need(d)), PagesWritten(d, pg, Need(d)))
      ELSE Does(n, g, PagesWritten(d, pg, Len(pg)))
  BY WriteIs DEF pg, g
<1>8. CASE Need(d) <= Len(pg)
  <2> DEFINE m == Filled(g, i, d, pg, Need(d))
  <2>1. /\ Order(m, x) /\ InUse(m) = InUse(g) /\ m.fcb[i].fileName = g.fcb[i].fileName
        /\ \A j \in Slot \ {i} : m.fcb[j] = g.fcb[j]
        /\ ChainOf(m, i) = {pg[k] : k \in 1 .. Need(d)}
        /\ \A p \in Page \ ChainOf(m, i) : m.nextPg[p] = g.nextPg[p]
    <3> DEFINE c == Cardinality(free)
    <3>1. /\ i \in InUse(g) /\ c \in Nat /\ Need(d) <= c /\ pg \in [1 .. c -> FreePages(g)]
          /\ \A j, k \in 1 .. c : j # k => pg[j] # pg[k]
      BY <1>1, <1>3, <1>8
    <3> HIDE DEF c, m
    <3>2. Order(m, x) /\ InUse(m) = InUse(g) BY <1>1, <3>1, FilledOrder DEF m
    <3>3. \A j \in Slot \ {i} : m.fcb[j] = g.fcb[j] BY <1>1, <3>1, FilledOrder DEF m
    <3>4. m.fcb[i].fileName = g.fcb[i].fileName BY <1>1, <3>1, FilledOrder DEF m
    <3>5. ChainOf(m, i) = {pg[k] : k \in 1 .. Need(d)} BY <1>1, <3>1, FilledOrder DEF m
    <3>6. \A p \in Page \ ChainOf(m, i) : m.nextPg[p] = g.nextPg[p]
      BY <1>1, <3>1, FilledOrder DEF m
    <3> QED BY <3>2, <3>3, <3>4, <3>5, <3>6
  <2> HIDE DEF m
  <2>2. ChainOf(m, i) \subseteq free BY <1>3, <1>4, <1>8, <2>1
  <2>3. Does(n, m, PagesWritten(d, pg, Need(d))) BY <1>7, <1>8 DEF m
  <2> QED BY <1>1, <1>4, <1>6, <1>8, <2>1, <2>2, <2>3
<1>9. CASE ~(Need(d) <= Len(pg))
  <2>1. Does(n, g, PagesWritten(d, pg, Len(pg))) BY <1>7, <1>9
  <2>2. Len(pg) \in Nat /\ Len(pg) <= Len(pg) BY <1>3
  <2> QED BY <1>1, <1>6, <2>1, <2>2
<1> QED BY <1>8, <1>9

\* What arsfs_find returns when the name is there.
LEMMA Found ==
  ASSUME NEW n, arsfs_find(meta, n) # -1
  PROVE  arsfs_find(meta, n) \in InUse(meta) /\ meta.fcb[arsfs_find(meta, n)].fileName = n
         /\ Hits(meta, n) # {}
  BY FindIs

\* Every operation leaves metadata in order, and the other files alone.
LEMMA FileOperationDoes ==
  ASSUME NEW x \in BOOLEAN, Order(meta, x), NEW n \in Name,
         createFile(n) \/ createFileAt(n, 0) \/ delFile(n) \/ \E d \in Data : writeFile(n, d)
  PROVE  \E m, w : Does_orderly(x, n, m, w)
<1>1. ASSUME createFile(n) PROVE \E m, w : Does_orderly(x, n, m, w)
  <2> DEFINE i == Least(FreeSlots(meta))
             m == [meta EXCEPT !.fcb[i] = EmptyFcb(n)]
  <2>1. Hits(meta, n) = {} /\ FreeSlots(meta) # {} /\ Does(n, m, <<>>) BY <1>1 DEF createFile
  <2>2. i \in FreeSlots(meta)
    <3>1. FreeSlots(meta) \subseteq Slot BY DEF FreeSlots
    <3> QED BY <2>1, <3>1, LeastSlot
  <2> HIDE DEF i
  <2>3. m = [meta EXCEPT !.fcb = [meta.fcb EXCEPT ![i] = EmptyFcb(n)]] OBVIOUS
  <2> HIDE DEF m
  <2>4. Does_orderly(x, n, m, <<>>) BY <2>1, <2>2, <2>3, CreatedDoes
  <2> QED BY <2>4
<1>2. ASSUME createFileAt(n, 0) PROVE \E m, w : Does_orderly(x, n, m, w)
  <2> DEFINE c == arsfs_find(meta, n)
  <2>1. 0 \in FreeSlots(meta) BY <1>2 DEF createFileAt
  <2>2. CASE c = -1
    <3> DEFINE m == [meta EXCEPT !.fcb = [meta.fcb EXCEPT ![0] = EmptyFcb(n)]]
    <3>1. Hits(meta, n) = {} BY <2>2, FindIs
    <3>2. Does(n, m, <<>>) BY <1>2, <2>2 DEF createFileAt
    <3> HIDE DEF m
    <3>3. Does_orderly(x, n, m, <<>>) BY <2>1, <3>1, <3>2, CreatedDoes DEF m
    <3> QED BY <3>3
  <2>3. CASE c # -1
    <3> DEFINE m == [meta EXCEPT !.fcb = [meta.fcb EXCEPT ![0] = meta.fcb[c], ![c] = NoFcb]]
    <3>1. c \in InUse(meta) /\ meta.fcb[c].fileName = n BY <2>3, Found
    <3>2. Does(n, m, <<>>) BY <1>2, <2>3 DEF createFileAt
    <3> HIDE DEF m, c
    <3>3. Does_orderly(x, n, m, <<>>) BY <2>1, <3>1, <3>2, MovedDoes DEF m
    <3> QED BY <3>3
  <2> QED BY <2>2, <2>3
<1>3. ASSUME delFile(n) PROVE \E m, w : Does_orderly(x, n, m, w)
  <2> DEFINE i == arsfs_find(meta, n)
             m == [pgFreeChain(meta, meta.fcb[i].start) EXCEPT !.fcb[i] = NoFcb]
  <2>1. i # -1 /\ Does(n, m, <<>>) BY <1>3 DEF delFile
  <2>2. i \in InUse(meta) /\ meta.fcb[i].fileName = n BY <2>1, Found
  <2> HIDE DEF i, m
  <2>3. Does_orderly(x, n, m, <<>>) BY <2>1, <2>2, DeletedDoes DEF m
  <2> QED BY <2>3
<1>4. ASSUME NEW d \in Data, writeFile(n, d) PROVE \E m, w : Does_orderly(x, n, m, w)
  <2> DEFINE i == arsfs_find(meta, n)
  <2>1. i # -1 /\ writeFileAt(n, i, d) BY <1>4 DEF writeFile
  <2>2. i \in InUse(meta) /\ meta.fcb[i].fileName = n BY <2>1, Found
  <2> HIDE DEF i
  <2> QED BY <2>1, <2>2, WrittenDoes
<1> QED BY <1>1, <1>2, <1>3, <1>4

LEMMA OperationDoes ==
  ASSUME NEW x \in BOOLEAN, Order(meta, x), Operation
  PROVE  \E n \in Name \cup {ALL} : \E m, w : Does_orderly(x, n, m, w)
<1>1. CASE format BY <1>1, FormatDoes
<1>2. CASE ~format
  <2>1. PICK n \in Name : \/ createFile(n) \/ createFileAt(n, 0) \/ delFile(n)
                          \/ \E d \in Data : writeFile(n, d)
    BY <1>2 DEF Operation
  <2>2. \E m, w : Does_orderly(x, n, m, w) BY <2>1, FileOperationDoes
  <2> QED BY <2>2
<1> QED BY <1>1, <1>2

-----------------------------------------------------------------------------
(***************************************************************************)
(* The inductive invariant.                                                *)
(***************************************************************************)
Write == [page : Page \cup {META}, chunk : Chunk \cup {NONE}]
Types ==
  /\ meta \in Metadata
  /\ flash \in [meta : Metadata \cup {ERASED}, page : [Page -> Chunk]]
  /\ target \in Name \cup {NONE, ALL} /\ up \in BOOLEAN
  /\ todo \in Seq(Write)

\* The writes that wait: different pages, and the metadata last; what is in secBuf is
\* what the first of them writes.  When none waits the flash is up to date.
Queue ==
  /\ \A k \in 1 .. Len(todo) :
       /\ k = Len(todo) => todo[k].page = META
       /\ k # Len(todo) => todo[k].page \in Page /\ todo[k].chunk \in Chunk
  /\ Distinct(todo)
  /\ todo # <<>> => up
  /\ todo = <<>> => secBuf = NONE /\ (up => flash.meta = meta)
  /\ secBuf # NONE =>
       /\ Head(todo).page = META => secBuf = meta
       /\ Head(todo).page # META =>
            /\ secBuf \in [Neighbours(Head(todo).page) -> Chunk]
            /\ secBuf[Head(todo).page] = Head(todo).chunk

OrderBoth(x) == Order(meta, x) /\ (flash.meta # ERASED => Order(flash.meta, x))

\* Until the metadata sector is erased the directory on the flash is the old one: it
\* says the same of every file but target, and no page of these is to be written.
OldDirectory ==
  up /\ target # ALL /\ (secBuf # NONE => Head(todo).page # META) =>
    flash.meta \in Metadata /\ Untouched(target, flash.meta, meta, todo)

Inv(x) == Types /\ Queue /\ OrderBoth(x) /\ OldDirectory

\* What an operation leaves to be written.
LEMMA QueueOf ==
  ASSUME NEW w \in Seq(PageWrite), Distinct(w)
  PROVE  LET s == w \o Flush IN
         /\ s \in Seq(Write) /\ Len(s) = Len(w) + 1 /\ s # <<>> /\ Distinct(s)
         /\ \A k \in 1 .. Len(w) : s[k] = w[k] /\ s[k] \in PageWrite
         /\ s[Len(s)] = [page |-> META, chunk |-> NONE]
<1> DEFINE s == w \o Flush
           l == [page |-> META, chunk |-> NONE]
<1>1. l \in Write /\ PageWrite \subseteq Write BY DEF Write, PageWrite
<1>2. Len(w) \in Nat /\ w \in Seq(Write) /\ Flush \in Seq(Write) /\ Len(Flush) = 1 /\ Flush[1] = l
  BY <1>1 DEF Flush
<1>3. /\ s \in Seq(Write) /\ Len(s) = Len(w) + 1
      /\ \A k \in 1 .. Len(w) + 1 : s[k] = IF k <= Len(w) THEN w[k] ELSE Flush[k - Len(w)]
  <2>1. /\ w \o Flush \in Seq(Write) /\ Len(w \o Flush) = Len(w) + Len(Flush)
        /\ \A k \in 1 .. Len(w) + Len(Flush) :
             (w \o Flush)[k] = IF k <= Len(w) THEN w[k] ELSE Flush[k - Len(w)]
    BY <1>2, ConcatProperties, Zenon
  <2> QED BY <1>2, <2>1
<1> HIDE DEF s, l
<1>4. \A k \in 1 .. Len(w) : s[k] = w[k] /\ s[k] \in PageWrite BY <1>2, <1>3
<1>5. s[Len(s)] = l BY <1>2, <1>3
<1>6. META \notin Page /\ l.page = META BY DEF META, Page, l
<1>7. Distinct(s)
  <2> SUFFICES ASSUME NEW j \in 1 .. Len(s), NEW k \in 1 .. Len(s), j # k
               PROVE  s[j].page # s[k].page
    BY DEF Distinct
  <2>1. \A i \in 1 .. Len(s) : i \in 1 .. Len(w) \/ i = Len(s) BY <1>2, <1>3
  <2>2. \A i \in 1 .. Len(w) : s[i].page \in Page BY <1>4 DEF PageWrite
  <2>3. CASE j \in 1 .. Len(w) /\ k \in 1 .. Len(w) BY <1>4, <2>3 DEF Distinct
  <2>4. CASE j = Len(s) \/ k = Len(s) BY <1>5, <1>6, <2>1, <2>2, <2>4
  <2> QED BY <2>1, <2>3, <2>4
<1>8. s # <<>> BY <1>2, <1>3
<1> QED BY <1>2, <1>3, <1>4, <1>5, <1>7, <1>8 DEF s, l

LEMMA InitInv == ASSUME NEW x \in BOOLEAN, Init PROVE Inv(x)
<1> USE DEF Init
<1>1. Blank \in Metadata /\ Order(Blank, x) BY BlankOrder DEF Order
<1>2. Types
  <2>1. [p \in Page |-> ERASED] \in [Page -> Chunk] BY DEF Chunk
  <2>2. flash \in [meta : Metadata \cup {ERASED}, page : [Page -> Chunk]] BY <2>1
  <2>3. todo \in Seq(Write) OBVIOUS
  <2> QED BY <1>1, <2>2, <2>3 DEF Types
<1>3. Queue BY DEF Queue, Distinct
<1> QED BY <1>1, <1>2, <1>3 DEF Inv, OrderBoth, OldDirectory

LEMMA OperationInv == ASSUME NEW x \in BOOLEAN, Inv(x), Operation PROVE Inv(x)'
<1> USE DEF Inv
<1>1. Order(meta, x) BY DEF OrderBoth
<1>2. PICK n \in Name \cup {ALL} : \E m, w : Does_orderly(x, n, m, w) BY <1>1, OperationDoes
<1>3. PICK m : \E w : Does_orderly(x, n, m, w) BY <1>2
<1>4. PICK w : Does_orderly(x, n, m, w) BY <1>3
<1>5. /\ up /\ todo = <<>> /\ meta' = m /\ todo' = w \o Flush /\ target' = n
      /\ UNCHANGED <<flash, secBuf, up>> /\ Order(m, x) /\ w \in Seq(PageWrite) /\ Distinct(w)
      /\ n = ALL \/ Untouched(n, meta, m, w)
  BY <1>4 DEF Does_orderly, Does, Ready
<1>6. /\ todo' \in Seq(Write) /\ Len(todo') = Len(w) + 1 /\ todo' # <<>> /\ Distinct(todo)'
      /\ \A k \in 1 .. Len(w) : todo'[k] = w[k] /\ todo'[k] \in PageWrite
      /\ todo'[Len(todo')] = [page |-> META, chunk |-> NONE]
  BY <1>5, QueueOf DEF Distinct
<1>7. Len(w) \in Nat BY <1>5
<1>8. secBuf = NONE /\ flash.meta = meta BY <1>5 DEF Queue
<1>9. Types' BY <1>5, <1>6 DEF Types, Order
<1>10. Queue'
  <2>1. ASSUME NEW k \in 1 .. Len(todo')
        PROVE  /\ k = Len(todo') => todo'[k].page = META
               /\ k # Len(todo') => todo'[k].page \in Page /\ todo'[k].chunk \in Chunk
    <3>1. k # Len(todo') => k \in 1 .. Len(w) BY <1>6, <1>7
    <3> QED BY <1>6, <3>1 DEF PageWrite
  <2> QED BY <1>5, <1>6, <1>8, <2>1 DEF Queue
<1>11. OrderBoth(x)' BY <1>5 DEF OrderBoth
<1>12. OldDirectory'
  <2>1. ASSUME n # ALL PROVE Untouched(n, meta, m, w \o Flush)
    <3>1. Untouched(n, meta, m, w) BY <1>5, <2>1
    <3>2. \A j \in InUse(meta) : ChainOf(meta, j) \subseteq Page BY <1>1, NotFree
    <3>3. META \notin Page BY DEF META, Page
    <3>4. ASSUME NEW j \in InUse(meta), meta.fcb[j].fileName # n, NEW k \in 1 .. Len(w \o Flush)
          PROVE  (w \o Flush)[k].page \notin ChainOf(meta, j)
      <4>1. k \in 1 .. Len(w) \/ (w \o Flush)[k].page = META BY <1>5, <1>6, <1>7
      <4>2. ASSUME k \in 1 .. Len(w) PROVE (w \o Flush)[k].page \notin ChainOf(meta, j)
        <5>1. (w \o Flush)[k] = w[k] BY <1>5, <1>6, <4>2
        <5> QED BY <3>1, <3>4, <4>2, <5>1 DEF Untouched
      <4> QED BY <3>2, <3>3, <4>1, <4>2
    <3> QED BY <3>1, <3>4 DEF Untouched
  <2>2. flash'.meta = meta /\ meta \in Metadata BY <1>5, <1>8 DEF Types
  <2>3. target' # ALL => Untouched(target', flash'.meta, meta', todo') BY <1>5, <2>1, <2>2
  <2> QED BY <2>2, <2>3 DEF OldDirectory
<1> QED BY <1>9, <1>10, <1>11, <1>12

\* The first write that waits: a page with its contents, or the metadata, alone.
LEMMA FirstWrite ==
  ASSUME Types, Queue, todo # <<>>
  PROVE  /\ up /\ Head(todo) = todo[1] /\ Tail(todo) \in Seq(Write)
         /\ Len(todo) \in Nat \ {0} /\ Len(Tail(todo)) = Len(todo) - 1
         /\ \A k \in 1 .. Len(Tail(todo)) : Tail(todo)[k] = todo[k + 1]
         /\ Head(todo).page = META => Tail(todo) = <<>>
         /\ Head(todo).page # META =>
              Head(todo).page \in Page /\ Head(todo).chunk \in Chunk /\ Tail(todo) # <<>>
<1>1. todo \in Seq(Write) BY DEF Types
<1>2. /\ Tail(todo) \in Seq(Write) /\ Len(Tail(todo)) = Len(todo) - 1
      /\ \A k \in 1 .. Len(Tail(todo)) : Tail(todo)[k] = todo[k + 1]
  BY <1>1, HeadTailProperties, Zenon
<1>3. Len(todo) \in Nat \ {0} /\ Head(todo) = todo[1] BY <1>1
<1>4. /\ 1 = Len(todo) => todo[1].page = META
      /\ 1 # Len(todo) => todo[1].page \in Page /\ todo[1].chunk \in Chunk
  BY <1>3 DEF Queue
<1>5. META \notin Page BY DEF META, Page
<1>6. Tail(todo) = <<>> <=> Len(todo) = 1 BY <1>2, <1>3
<1> QED BY <1>2, <1>3, <1>4, <1>5, <1>6 DEF Queue

\* Pages of one sector have it as a neighbourhood of each.
LEMMA NeighboursAre ==
  ASSUME NEW p \in Page
  PROVE  p \in Neighbours(p) /\ Neighbours(p) \in SUBSET Page
  BY DEF Neighbours

\* The buffer holds a sector of the size it should have.
LEMMA RewrittenIs ==
  ASSUME Types, Queue, todo # <<>>, Head(todo).page # META
  PROVE  LET w == Head(todo) IN
         /\ Rewritten(w) \in [Neighbours(w.page) -> Chunk] /\ Rewritten(w)[w.page] = w.chunk
         /\ \A q \in Neighbours(w.page) \ {w.page} : Rewritten(w)[q] = flash.page[q]
         /\ Rewritten(w) # NONE
<1> DEFINE w == Head(todo)
<1>1. w.page \in Page /\ w.chunk \in Chunk BY FirstWrite
<1> HIDE DEF w
<1>2. w.page \in Neighbours(w.page) /\ Neighbours(w.page) \in SUBSET Page
  BY <1>1, NeighboursAre
<1>3. flash.page \in [Page -> Chunk] BY DEF Types
<1>4. Rewritten(w) \in [Neighbours(w.page) -> Chunk] BY <1>1, <1>2, <1>3 DEF Rewritten
<1>5. /\ Rewritten(w)[w.page] = w.chunk
      /\ \A q \in Neighbours(w.page) \ {w.page} : Rewritten(w)[q] = flash.page[q]
  BY <1>2 DEF Rewritten
<1>6. Rewritten(w) # NONE BY <1>2, <1>4, MarkerAssumption
<1> QED BY <1>4, <1>5, <1>6 DEF w

LEMMA EraseInv == ASSUME NEW x \in BOOLEAN, Inv(x), Erase PROVE Inv(x)'
<1> USE DEF Inv
<1> DEFINE w == Head(todo)
<1>1. todo # <<>> /\ secBuf = NONE /\ UNCHANGED <<meta, todo, target, up>> BY DEF Erase
<1>2. flash \in [meta : Metadata \cup {ERASED}, page : [Page -> Chunk]] BY DEF Types
<1>3. CASE w.page = META
  <2>1. secBuf' = meta /\ flash' = [flash EXCEPT !.meta = ERASED] BY <1>3 DEF Erase
  <2>2. flash'.meta = ERASED /\ flash' \in [meta : Metadata \cup {ERASED}, page : [Page -> Chunk]]
    BY <1>2, <2>1
  <2>3. Types' BY <1>1, <2>2 DEF Types
  <2>4. Queue' BY <1>1, <1>3, <2>1 DEF Queue, Distinct
  <2>5. OrderBoth(x)' BY <1>1, <2>2 DEF OrderBoth
  <2>6. secBuf' # NONE BY <2>1, MarkerAssumption DEF Types
  <2>7. OldDirectory' BY <1>1, <1>3, <2>6 DEF OldDirectory
  <2> QED BY <2>3, <2>4, <2>5, <2>7
<1>4. CASE w.page # META
  <2> DEFINE N == Neighbours(w.page)
             f == [q \in Page |-> IF q \in N THEN ERASED ELSE flash.page[q]]
  <2>1. secBuf' = Rewritten(w) /\ flash' = [flash EXCEPT !.page = f] BY <1>4 DEF Erase
  <2>2. f \in [Page -> Chunk] BY <1>2 DEF Chunk
  <2> HIDE DEF f
  <2>3. flash' \in [meta : Metadata \cup {ERASED}, page : [Page -> Chunk]] /\ flash'.meta = flash.meta
    BY <1>2, <2>1, <2>2
  <2>4. Types' BY <1>1, <2>3 DEF Types
  <2>5. Rewritten(w) \in [Neighbours(w.page) -> Chunk] /\ Rewritten(w)[w.page] = w.chunk
    BY <1>1, <1>4, RewrittenIs
  <2>6. Queue' BY <1>1, <1>4, <2>1, <2>5 DEF Queue, Distinct
  <2>7. OrderBoth(x)' BY <1>1, <2>3 DEF OrderBoth
  <2>8. OldDirectory' BY <1>1, <2>3 DEF OldDirectory
  <2> QED BY <2>4, <2>6, <2>7, <2>8
<1> QED BY <1>3, <1>4

\* What Program and a torn Program leave of the pages.
LEMMA WithPagesIs ==
  ASSUME Types, NEW N \in SUBSET Page, secBuf \in [N -> Chunk], NEW P \in SUBSET N
  PROVE  /\ WithPages(P) \in [meta : Metadata \cup {ERASED}, page : [Page -> Chunk]]
         /\ WithPages(P).meta = flash.meta
         /\ \A q \in Page : WithPages(P).page[q] = IF q \in P THEN secBuf[q] ELSE flash.page[q]
<1> DEFINE f == [q \in Page |-> IF q \in P THEN secBuf[q] ELSE flash.page[q]]
<1>1. flash \in [meta : Metadata \cup {ERASED}, page : [Page -> Chunk]] BY DEF Types
<1>2. f \in [Page -> Chunk] BY <1>1
<1>3. WithPages(P) = [flash EXCEPT !.page = f] BY DEF WithPages
<1>4. \A q \in Page : f[q] = IF q \in P THEN secBuf[q] ELSE flash.page[q] OBVIOUS
<1> HIDE DEF f
<1> QED BY <1>1, <1>2, <1>3, <1>4

LEMMA ProgramInv == ASSUME NEW x \in BOOLEAN, Inv(x), Program PROVE Inv(x)'
<1> USE DEF Inv
<1> DEFINE w == Head(todo)
<1>1. /\ secBuf # NONE /\ secBuf' = NONE /\ todo' = Tail(todo) /\ UNCHANGED <<meta, up>>
      /\ target' = (IF Tail(todo) = <<>> THEN NONE ELSE target)
  BY DEF Program
<1>2. todo # <<>> BY <1>1 DEF Queue
<1>3. /\ up /\ w = todo[1] /\ todo' \in Seq(Write)
      /\ Len(todo) \in Nat \ {0} /\ Len(todo') = Len(todo) - 1
      /\ \A k \in 1 .. Len(todo') : todo'[k] = todo[k + 1] /\ k + 1 \in 1 .. Len(todo)
      /\ w.page = META => todo' = <<>>
      /\ w.page # META => w.page \in Page /\ todo' # <<>>
  BY <1>1, <1>2, FirstWrite
<1>4. Distinct(todo)' BY <1>3 DEF Queue, Distinct
<1>5. \A k \in 1 .. Len(todo') :
        /\ k = Len(todo') => todo'[k].page = META
        /\ k # Len(todo') => todo'[k].page \in Page /\ todo'[k].chunk \in Chunk
  BY <1>3 DEF Queue
<1>6. target' \in Name \cup {NONE, ALL} BY <1>1 DEF Types
<1>7. CASE w.page = META
  <2>1. flash' = [flash EXCEPT !.meta = secBuf] /\ secBuf = meta BY <1>1, <1>7 DEF Program, Queue
  <2>2. flash' \in [meta : Metadata \cup {ERASED}, page : [Page -> Chunk]] /\ flash'.meta = meta
    BY <2>1 DEF Types
  <2>3. Types' BY <1>1, <1>3, <1>6, <2>2, SMTT(30) DEF Types
  <2>4. Queue' BY <1>1, <1>3, <1>4, <1>5, <1>7, <2>2 DEF Queue
  <2>5. OrderBoth(x)' BY <1>1, <2>2 DEF OrderBoth
  <2>6. ASSUME NEW n PROVE Untouched(n, meta, meta, <<>>) BY DEF Untouched, Kept
  <2>7. OldDirectory' BY <1>1, <1>3, <1>7, <2>2, <2>6 DEF OldDirectory, Types
  <2> QED BY <2>3, <2>4, <2>5, <2>7
<1>8. CASE w.page # META
  <2>1. /\ flash' = WithPages(DOMAIN secBuf) /\ secBuf \in [Neighbours(w.page) -> Chunk]
        /\ Neighbours(w.page) \in SUBSET Page
    BY <1>1, <1>3, <1>8, NeighboursAre DEF Program, Queue
  <2>2. flash' \in [meta : Metadata \cup {ERASED}, page : [Page -> Chunk]]
        /\ flash'.meta = flash.meta
    BY <2>1, WithPagesIs
  <2>3. Types' BY <1>1, <1>3, <1>6, <2>2, SMTT(30) DEF Types
  <2>4. Queue' BY <1>1, <1>3, <1>4, <1>5, <1>8 DEF Queue
  <2>5. OrderBoth(x)' BY <1>1, <2>2 DEF OrderBoth
  <2>6. target' = target BY <1>1, <1>3, <1>8
  <2>7. ASSUME target # ALL
        PROVE  flash.meta \in Metadata /\ Untouched(target, flash.meta, meta, todo')
    <3>1. flash.meta \in Metadata /\ Untouched(target, flash.meta, meta, todo)
      BY <1>3, <1>8, <2>7 DEF OldDirectory
    <3> QED BY <1>3, <3>1 DEF Untouched
  <2>8. OldDirectory' BY <1>1, <2>2, <2>6, <2>7 DEF OldDirectory
  <2> QED BY <2>3, <2>4, <2>5, <2>8
<1> QED BY <1>7, <1>8

\* A mount, whether it finds a directory or formats the disk.
LEMMA MountInv == ASSUME NEW x \in BOOLEAN, Inv(x), arsfs_init PROVE Inv(x)'
<1> USE DEF Inv
<1>1. ~up /\ todo = <<>> /\ secBuf = NONE /\ up' = TRUE /\ UNCHANGED <<flash, secBuf>>
  BY DEF arsfs_init, Queue
<1>2. CASE flash.meta = ERASED
  <2>1. meta' = Blank /\ todo' = Flush /\ target' = ALL BY <1>2 DEF arsfs_init
  <2>2. Order(Blank, x) /\ Blank \in Metadata BY BlankOrder DEF Order
  <2>3. Flush \in Seq(Write) /\ Len(Flush) = 1 /\ Flush[1].page = META /\ Flush # <<>>
    BY DEF Flush, Write
  <2>4. Types' BY <1>1, <2>1, <2>2, <2>3 DEF Types
  <2>5. Queue' BY <1>1, <2>1, <2>3 DEF Queue, Distinct
  <2> QED BY <1>1, <1>2, <2>1, <2>2, <2>4, <2>5 DEF OrderBoth, OldDirectory
<1>3. CASE flash.meta # ERASED
  <2>1. meta' = flash.meta /\ UNCHANGED <<todo, target>> BY <1>3 DEF arsfs_init
  <2>2. flash.meta \in Metadata BY <1>3 DEF Types
  <2>3. Types' BY <1>1, <2>1, <2>2 DEF Types
  <2>4. Queue' BY <1>1, <2>1 DEF Queue, Distinct
  <2>5. ASSUME NEW n PROVE Untouched(n, flash.meta, flash.meta, <<>>) BY DEF Untouched, Kept
  <2> QED BY <1>1, <1>3, <2>1, <2>2, <2>3, <2>4, <2>5 DEF OrderBoth, OldDirectory
<1> QED BY <1>2, <1>3

LEMMA NextInv == ASSUME NEW x \in BOOLEAN, Inv(x), [Next]_vars PROVE Inv(x)'
<1>1. CASE UNCHANGED vars
  BY <1>1 DEF vars, Inv, Types, Queue, Distinct, OrderBoth, OldDirectory
<1> QED BY <1>1, OperationInv, EraseInv, ProgramInv, MountInv DEF Next

\* The directory cut short: entries behind the cut are nameless and empty, the one it goes
\* through may have lost its name, its pages and its size, and chains may end early.
LEMMA PrefixOrder ==
  ASSUME Order(secBuf, FALSE), NEW c \in Nat,
         NEW e, IF c \in Slot THEN e \in TornFcb(c) ELSE e = ErasedFcb
  PROVE  Order(Prefix(c, e), FALSE)
<1> DEFINE m == secBuf
           r == Prefix(c, e)
<1>1. m \in Metadata /\ m.fcb \in [Slot -> FcbType] /\ m.nextPg \in [Page -> Place] /\ Links(m)
  BY EntryFacts DEF Order, Links
<1>2. ErasedFcb \in FcbType BY DEF ErasedFcb, FcbType
<1>3. ASSUME c \in Slot
      PROVE  \/ e = ErasedFcb
             \/ e = [m.fcb[c] EXCEPT !.size = -1]
             \/ e = [m.fcb[c] EXCEPT !.start = EOF_PG, !.size = -1] /\ c \in InUse(m)
  BY <1>3 DEF TornFcb
<1>4. c \in Slot => e \in FcbType
  <2> SUFFICES ASSUME c \in Slot PROVE e \in FcbType OBVIOUS
  <2>1. m.fcb[c] \in FcbType BY <1>1
  <2>2. \A f \in FcbType : [f EXCEPT !.size = -1] \in FcbType BY DEF FcbType
  <2>3. \A f \in FcbType : [f EXCEPT !.start = EOF_PG] \in FcbType BY DEF FcbType
  <2>4. \A f \in FcbType : [f EXCEPT !.start = EOF_PG, !.size = -1] \in FcbType
    <3> TAKE f \in FcbType
    <3> DEFINE g == [f EXCEPT !.start = EOF_PG]
    <3>1. [f EXCEPT !.start = EOF_PG, !.size = -1] = [g EXCEPT !.size = -1] OBVIOUS
    <3>2. g \in FcbType BY <2>3
    <3> HIDE DEF g
    <3> QED BY <2>2, <3>1, <3>2
  <2> HIDE DEF m
  <2> QED BY <1>2, <1>3, <2>1, <2>2, <2>4
<1>5. /\ r \in Metadata
      /\ \A i \in Slot : r.fcb[i] = IF i < c THEN m.fcb[i] ELSE IF i = c THEN e ELSE ErasedFcb
      /\ \A p \in Page : r.nextPg[p] \in {m.nextPg[p], EOF_PG}
  <2> DEFINE f == [i \in Slot |-> IF i < c THEN m.fcb[i] ELSE IF i = c THEN e ELSE ErasedFcb]
             l == [p \in Page |-> IF FCB_CNT + p < c THEN m.nextPg[p] ELSE EOF_PG]
  <2>1. f \in [Slot -> FcbType] BY <1>1, <1>2, <1>4
  <2>2. l \in [Page -> Place] BY <1>1 DEF Place
  <2>3. r = [fcb |-> f, nextPg |-> l] BY DEF Prefix
  <2>4. \A i \in Slot : f[i] = IF i < c THEN m.fcb[i] ELSE IF i = c THEN e ELSE ErasedFcb
    OBVIOUS
  <2>5. \A p \in Page : l[p] \in {m.nextPg[p], EOF_PG} OBVIOUS
  <2> HIDE DEF f, l
  <2> QED BY <2>1, <2>2, <2>3, <2>4, <2>5 DEF Metadata, Place
<1>6. Links(r) BY <1>5, EntryFacts
<1> HIDE DEF m, r
\* An entry that leads where it led.
<1>7. ASSUME NEW i \in InUse(r), r.fcb[i].start = m.fcb[i].start
      PROVE  /\ i \in InUse(m) /\ ChainOf(r, i) \subseteq ChainOf(m, i)
             /\ Nth(r, r.fcb[i].start, BMP) = EOF_PG
             /\ m.fcb[i].size >= 0 => Cardinality(ChainOf(r, i)) <= pgCount(m.fcb[i].size)
  <2> DEFINE s == m.fcb[i].start
  <2>1. i \in Slot /\ i \in InUse(m) /\ r.fcb[i].start = m.fcb[i].start BY <1>7 DEF InUse
  <2>2. s \in Place /\ m.fcb[i].size \in Int BY <1>1, <2>1, EntryFacts
  <2>3. /\ Nth(m, s, BMP) = EOF_PG
        /\ m.fcb[i].size >= 0 => Cardinality(ChainOf(m, i)) <= pgCount(m.fcb[i].size)
    BY <2>1 DEF Order, m
  <2>4. Chain(m, s) \subseteq Page /\ IsFiniteSet(Chain(m, s)) BY <1>1, <2>2, ChainFacts
  <2> HIDE DEF s
  <2>5. \A p \in Chain(m, s) : r.nextPg[p] \in {m.nextPg[p], EOF_PG} BY <1>5, <2>4
  <2>6. \A k \in 0 .. BMP : Nth(r, s, k) \in {Nth(m, s, k), EOF_PG}
    BY <1>1, <1>6, <2>2, <2>5, CutChain
  <2>7. BMP \in 0 .. BMP BY GeometryAssumption
  <2>8. Nth(r, s, BMP) = EOF_PG BY <2>3, <2>6, <2>7
  <2>9. Chain(r, s) \subseteq Chain(m, s)
    BY <1>1, <1>6, <2>2, <2>6, ChainFacts, MarkAssumption
  <2>10. Cardinality(Chain(r, s)) <= Cardinality(Chain(m, s)) BY <2>4, <2>9, FS_Subset
  <2>11. Cardinality(Chain(r, s)) \in Nat /\ Cardinality(Chain(m, s)) \in Nat
    BY <2>4, <2>9, FS_Subset, FS_CardinalityType
  <2>12. pgCount(m.fcb[i].size) \in Nat BY <2>2, CountIs
  <2>13. ChainOf(r, i) = Chain(r, s) /\ ChainOf(m, i) = Chain(m, s) BY <2>1 DEF ChainOf, s
  <2> QED BY <2>1, <2>3, <2>8, <2>9, <2>10, <2>11, <2>12, <2>13 DEF s
<1>8. ASSUME NEW i \in InUse(r)
      PROVE  /\ r.fcb[i].fileName # NONE => i \in InUse(m) /\ r.fcb[i].fileName = m.fcb[i].fileName
             /\ ChainOf(r, i) = {} \/ (i \in InUse(m) /\ ChainOf(r, i) \subseteq ChainOf(m, i))
             /\ Nth(r, r.fcb[i].start, BMP) = EOF_PG
             /\ r.fcb[i].size >= 0 => Cardinality(ChainOf(r, i)) <= pgCount(r.fcb[i].size)
  <2>1. i \in Slot /\ i \in Nat /\ m.fcb[i] \in FcbType
    <3>1. i \in Slot BY DEF InUse
    <3>2. i \in Nat BY <3>1 DEF Slot
    <3> QED BY <1>1, <3>1, <3>2
  <2>2. CASE i < c
    <3>1. r.fcb[i] = m.fcb[i] BY <1>5, <2>1, <2>2
    <3> QED BY <1>7, <3>1
  <2>3. CASE i = c /\ e = [m.fcb[c] EXCEPT !.size = -1]
    <3>1. r.fcb[i] = [m.fcb[i] EXCEPT !.size = -1] BY <1>5, <2>1, <2>3
    <3>2. r.fcb[i].start = m.fcb[i].start /\ r.fcb[i].fileName = m.fcb[i].fileName
          /\ r.fcb[i].size = -1
      BY <2>1, <3>1 DEF FcbType
    <3> QED BY <1>7, <3>2
  <2>4. CASE ~(i < c) /\ ~(i = c /\ e = [m.fcb[c] EXCEPT !.size = -1])
    <3>1. /\ r.fcb[i].start = EOF_PG /\ r.fcb[i].size = -1
          /\ r.fcb[i].fileName # NONE => i \in InUse(m) /\ r.fcb[i].fileName = m.fcb[i].fileName
      <4>1. CASE i = c /\ e # ErasedFcb
        <5>1. /\ r.fcb[i] = [m.fcb[i] EXCEPT !.start = EOF_PG, !.size = -1] /\ i \in InUse(m)
          BY <1>3, <1>5, <2>1, <2>4, <4>1
        <5> QED BY <2>1, <5>1 DEF FcbType
      <4>2. CASE ~(i = c /\ e # ErasedFcb)
        <5>1. r.fcb[i] = ErasedFcb BY <1>5, <2>1, <2>4, <4>2
        <5> QED BY <5>1 DEF ErasedFcb
      <4> QED BY <4>1, <4>2
    <3>2. ChainOf(r, i) = {} /\ Nth(r, r.fcb[i].start, BMP) = EOF_PG
      BY <1>5, <2>1, <3>1, EmptyChain
    <3> QED BY <3>1, <3>2
  <2> QED BY <2>2, <2>3, <2>4
<1>9. ASSUME NEW i \in InUse(r), NEW j \in InUse(r), i # j
      PROVE  /\ r.fcb[i].fileName # NONE => r.fcb[i].fileName # r.fcb[j].fileName
             /\ ChainOf(r, i) \cap ChainOf(r, j) = {}
  <2>1. ASSUME i \in InUse(m), j \in InUse(m)
        PROVE  /\ m.fcb[i].fileName # NONE => m.fcb[i].fileName # m.fcb[j].fileName
               /\ ChainOf(m, i) \cap ChainOf(m, j) = {}
    BY <1>9, <2>1 DEF Order, m
  <2> QED BY <1>8, <2>1
<1>10. \A i \in InUse(r) :
         /\ Nth(r, r.fcb[i].start, BMP) = EOF_PG
         /\ r.fcb[i].size >= 0 => Cardinality(ChainOf(r, i)) <= pgCount(r.fcb[i].size)
  BY <1>8
<1> QED BY <1>5, <1>9, <1>10 DEF Order, r

\* The power fails.  Only where it may cut the programming of the metadata short does
\* the directory lose anything.
LEMMA PowerLossInv ==
  ASSUME NEW x \in BOOLEAN, Inv(x), PowerLoss, x => "meta" \notin Torn
  PROVE  Inv(x)'
<1> USE DEF Inv
<1>1. up' = FALSE /\ meta' = Blank /\ todo' = <<>> /\ secBuf' = NONE /\ target' = NONE
  BY DEF PowerLoss
<1>2. Order(Blank, x) /\ Blank \in Metadata BY BlankOrder DEF Order
<1>3. /\ flash' \in [meta : Metadata \cup {ERASED}, page : [Page -> Chunk]]
      /\ flash'.meta # ERASED => Order(flash'.meta, x)
  <2>1. CASE UNCHANGED flash BY <2>1 DEF Types, OrderBoth
  <2>2. ASSUME secBuf # NONE, Head(todo).page # META, NEW c \in DOMAIN secBuf,
               flash' = WithPages(Before(c))
        PROVE  flash' \in [meta : Metadata \cup {ERASED}, page : [Page -> Chunk]]
               /\ flash'.meta = flash.meta
    <3> DEFINE N == Neighbours(Head(todo).page)
    <3>1. todo # <<>> /\ secBuf \in [N -> Chunk] BY <2>2 DEF Queue
    <3>2. N \in SUBSET Page BY <2>2, <3>1, FirstWrite, NeighboursAre
    <3> HIDE DEF N
    <3>3. Before(c) \in SUBSET N BY <3>1 DEF Before
    <3> QED BY <2>2, <3>1, <3>2, <3>3, WithPagesIs
  <2>3. ASSUME secBuf # NONE, Head(todo).page = META, "meta" \in Torn,
               NEW c \in 0 .. FCB_CNT + BMP - 1,
               NEW e \in IF c \in Slot THEN TornFcb(c) ELSE {ErasedFcb},
               flash' = [flash EXCEPT !.meta = Prefix(c, e)]
        PROVE  flash' \in [meta : Metadata \cup {ERASED}, page : [Page -> Chunk]]
               /\ Order(flash'.meta, x)
    <3>1. secBuf = meta /\ x = FALSE BY <2>3 DEF Queue
    <3>2. Order(Prefix(c, e), x)
      <4>1. Order(secBuf, FALSE) BY <3>1 DEF OrderBoth
      <4>2. c \in Nat BY <2>3
      <4>3. IF c \in Slot THEN e \in TornFcb(c) ELSE e = ErasedFcb BY <2>3
      <4>4. Order(Prefix(c, e), FALSE) BY <4>1, <4>2, <4>3, PrefixOrder
      <4> QED BY <3>1, <4>4
    <3>3. Prefix(c, e) \in Metadata BY <3>2 DEF Order
    <3> HIDE DEF Prefix
    <3> QED BY <2>3, <3>2, <3>3 DEF Types
  <2> QED BY <2>1, <2>2, <2>3 DEF PowerLoss, OrderBoth
<1>4. Types'
  <2>1. todo' \in Seq(Write) BY <1>1
  <2>2. meta' \in Metadata /\ target' \in Name \cup {NONE, ALL} /\ up' \in BOOLEAN BY <1>1, <1>2
  <2> QED BY <1>3, <2>1, <2>2 DEF Types
<1>5. Queue' BY <1>1 DEF Queue, Distinct
<1> QED BY <1>1, <1>2, <1>3, <1>4, <1>5 DEF OrderBoth, OldDirectory

-----------------------------------------------------------------------------
(***************************************************************************)
(* What is read of a file.                                                 *)
(***************************************************************************)

\* readFile of the entry i: Reads says how far, ReadAt what.
Reads(m, i) ==
  LET want == pgCount(m.fcb[i].size)
      walk == [k \in 1 .. want |-> Nth(m, m.fcb[i].start, k - 1)]
  IN  {k \in 1 .. want : \A j \in 1 .. k : walk[j] \in Page}
Bytes(n) == IF n > 0 THEN n ELSE 0
ReadAt(m, pg, i) ==
  LET walk == [k \in 1 .. pgCount(m.fcb[i].size) |-> Nth(m, m.fcb[i].start, k - 1)]
  IN  [size |-> Bytes(m.fcb[i].size), pages |-> [k \in 1 .. Cardinality(Reads(m, i)) |-> pg[walk[k]]]]

LEMMA ReadIs ==
  ASSUME NEW m, NEW pg, NEW n
  PROVE  readFile(m, pg, n) = IF Hits(m, n) = {} THEN ABSENT ELSE ReadAt(m, pg, arsfs_find(m, n))
  BY DEF readFile, ReadAt, Reads, Bytes

\* The pages that are read come one after the other from the first one on.
LEMMA ReadsInOrder ==
  ASSUME NEW m \in Metadata, NEW i \in Slot
  PROVE  \E c \in 0 .. pgCount(m.fcb[i].size) :
           /\ Reads(m, i) = 1 .. c /\ Cardinality(Reads(m, i)) = c
           /\ \A k \in 1 .. c : Nth(m, m.fcb[i].start, k - 1) \in Page
<1> DEFINE want == pgCount(m.fcb[i].size)
           R == Reads(m, i)
           T == {k \in Nat : k + 1 \notin R}
<1>1. want \in Nat BY EntryFacts, CountIs
<1> HIDE DEF want
<1>2. R = {k \in 1 .. want : \A j \in 1 .. k : Nth(m, m.fcb[i].start, j - 1) \in Page}
  <2>1. \A k \in 1 .. want : \A j \in 1 .. k : j \in 1 .. want BY <1>1
  <2> QED BY <2>1 DEF Reads, want
<1> HIDE DEF R
<1>3. want + 1 \notin R BY <1>1, <1>2
<1>4. T \subseteq Nat /\ T # {} BY <1>1, <1>3
<1>5. PICK c \in T : \A y \in T : c <= y BY <1>4, LeastNat
<1>6. c \in Nat /\ c <= want BY <1>1, <1>3, <1>5
<1>7. ASSUME NEW k \in 1 .. c PROVE k \in R
  <2>1. k - 1 \in Nat /\ ~(c <= k - 1) /\ k - 1 + 1 = k BY <1>6
  <2> QED BY <1>5, <2>1
<1>8. ASSUME NEW k \in R PROVE k \in 1 .. c
  <2>1. k \in Nat \ {0} BY <1>1, <1>2
  <2>2. ASSUME c < k PROVE c + 1 \in R
    <3>1. c + 1 \in 1 .. want /\ \A j \in 1 .. c + 1 : j \in 1 .. k BY <1>1, <1>2, <1>6, <2>1, <2>2
    <3> QED BY <1>2, <3>1
  <2> QED BY <1>5, <1>6, <2>1, <2>2
<1>9. R = 1 .. c BY <1>7, <1>8
<1>10. Cardinality(1 .. c) = c BY <1>6, FS_Interval
<1>11. \A k \in 1 .. c : Nth(m, m.fcb[i].start, k - 1) \in Page BY <1>2, <1>6, <1>7
<1>12. c \in 0 .. want BY <1>1, <1>6
<1> QED BY <1>9, <1>10, <1>11, <1>12 DEF R, want

\* An entry that is kept or moved leads to the same places, however far one walks.
LEMMA KeptWalk ==
  ASSUME NEW m, NEW x, Order(m, x), NEW r \in Metadata, NEW i, NEW j \in Slot, Kept(m, r, j, i)
  PROVE  /\ i \in Slot /\ r.fcb[j].start = m.fcb[i].start /\ r.fcb[j].size = m.fcb[i].size
         /\ \A k \in Nat : /\ Nth(r, r.fcb[j].start, k) = Nth(m, m.fcb[i].start, k)
                           /\ Nth(m, m.fcb[i].start, k) \in Page =>
                                Nth(m, m.fcb[i].start, k) \in ChainOf(m, i)
<1> DEFINE s == m.fcb[i].start
<1>1. m \in Metadata /\ i \in Slot /\ i \in InUse(m) /\ r.fcb[j] = m.fcb[i] BY DEF Order, Kept, InUse
<1>2. /\ s \in Place /\ Links(m) /\ Links(r)
      /\ \A k \in 0 .. BMP : Nth(r, s, k) = Nth(m, s, k)
      /\ Nth(m, s, BMP) = EOF_PG
  BY <1>1, EntryFacts, KeptChain DEF Kept, Order
<1> HIDE DEF s
<1>3. ASSUME NEW k \in Nat
      PROVE  Nth(r, s, k) = Nth(m, s, k) /\ (Nth(m, s, k) \in Page => Nth(m, s, k) \in Chain(m, s))
  <2>1. CASE k <= BMP
    <3>1. k \in 0 .. BMP BY <2>1, GeometryAssumption
    <3> QED BY <1>2, <3>1, ChainFacts
  <2>2. CASE ~(k <= BMP)
    <3>1. BMP \in Nat /\ BMP <= k /\ BMP \in 0 .. BMP /\ EOF_PG \notin Page
      BY <2>2, GeometryAssumption, MarkAssumption
    <3>2. Nth(r, s, BMP) = EOF_PG BY <1>2, <3>1
    <3>3. Nth(m, s, k) = EOF_PG BY <1>2, <3>1, Stays
    <3>4. Nth(r, s, k) = EOF_PG BY <1>2, <3>1, <3>2, Stays
    <3> QED BY <3>1, <3>3, <3>4
  <2> QED BY <2>1, <2>2
<1> QED BY <1>1, <1>3 DEF s, ChainOf

\* It reads the same, if its pages do.
LEMMA KeptRead ==
  ASSUME NEW m, NEW x, Order(m, x), NEW r \in Metadata, NEW i, NEW j \in Slot, Kept(m, r, j, i),
         NEW a, NEW b, \A p \in ChainOf(m, i) : a[p] = b[p]
  PROVE  ReadAt(m, a, i) = ReadAt(r, b, j)
<1> DEFINE want == pgCount(m.fcb[i].size)
           s == m.fcb[i].start
<1>1. m \in Metadata BY DEF Order
<1>2. /\ i \in Slot /\ r.fcb[j].start = s /\ r.fcb[j].size = m.fcb[i].size
      /\ \A k \in Nat : /\ Nth(r, r.fcb[j].start, k) = Nth(m, s, k)
                        /\ Nth(m, s, k) \in Page => Nth(m, s, k) \in ChainOf(m, i)
  BY KeptWalk
<1>3. want \in Nat BY <1>1, <1>2, EntryFacts, CountIs
<1>4. \A k \in 1 .. want : k - 1 \in Nat BY <1>3
<1> HIDE DEF want, s
<1>5. PICK c \in 0 .. want : /\ Reads(m, i) = 1 .. c /\ Cardinality(Reads(m, i)) = c
                             /\ \A k \in 1 .. c : Nth(m, s, k - 1) \in Page
  BY <1>1, <1>2, ReadsInOrder DEF want, s
<1>6. Reads(r, j) = Reads(m, i)
  <2>1. [k \in 1 .. want |-> Nth(r, r.fcb[j].start, k - 1)] = [k \in 1 .. want |-> Nth(m, s, k - 1)]
    BY <1>2, <1>4
  <2> QED BY <1>2, <2>1 DEF Reads, want, s
<1> DEFINE u == [l \in 1 .. want |-> Nth(m, s, l - 1)]
           v == [l \in 1 .. want |-> Nth(r, r.fcb[j].start, l - 1)]
<1>7. [k \in 1 .. Cardinality(Reads(m, i)) |-> a[u[k]]] =
      [k \in 1 .. Cardinality(Reads(r, j)) |-> b[v[k]]]
  <2>1. \A k \in 1 .. c : k \in 1 .. want /\ k - 1 \in Nat BY <1>3
  <2>2. ASSUME NEW k \in 1 .. c PROVE a[u[k]] = b[v[k]]
    BY <1>2, <1>5, <2>1
  <2> HIDE DEF u, v
  <2> QED BY <1>5, <1>6, <2>2
<1>8. ReadAt(m, a, i) =
        [size |-> Bytes(m.fcb[i].size), pages |-> [k \in 1 .. Cardinality(Reads(m, i)) |-> a[u[k]]]]
  BY DEF ReadAt, want, s
<1>9. ReadAt(r, b, j) =
        [size |-> Bytes(r.fcb[j].size), pages |-> [k \in 1 .. Cardinality(Reads(r, j)) |-> b[v[k]]]]
  <2>1. want = pgCount(r.fcb[j].size) BY <1>2 DEF want
  <2> HIDE DEF want
  <2> QED BY <2>1 DEF ReadAt
<1> HIDE DEF u, v
<1> QED BY <1>2, <1>7, <1>8, <1>9

\* A name that two directories agree on is found in the same place.
LEMMA SameHits ==
  ASSUME NEW m, NEW r, NEW t, NEW w, Untouched(t, m, r, w), NEW n, n # t
  PROVE  /\ Hits(m, n) = Hits(r, n) /\ arsfs_find(m, n) = arsfs_find(r, n)
         /\ Hits(m, n) # {} =>
              arsfs_find(m, n) \in Slot /\ arsfs_find(m, n) \in InUse(m)
              /\ arsfs_find(m, n) \in InUse(r)
              /\ Kept(m, r, arsfs_find(m, n), arsfs_find(m, n))
              /\ \A k \in 1 .. Len(w) : w[k].page \notin ChainOf(m, arsfs_find(m, n))
<1>1. ASSUME NEW j \in Hits(m, n)
      PROVE  /\ Kept(m, r, j, j) /\ j \in Hits(r, n)
             /\ \A k \in 1 .. Len(w) : w[k].page \notin ChainOf(m, j)
  BY DEF Untouched, Hits, InUse, Kept
<1>2. ASSUME NEW j \in Hits(r, n) PROVE j \in Hits(m, n)
  BY DEF Untouched, Hits, InUse
<1>3. Hits(m, n) = Hits(r, n) BY <1>1, <1>2
<1>4. arsfs_find(m, n) = arsfs_find(r, n) BY <1>3 DEF arsfs_find
<1>5. ASSUME Hits(m, n) # {} PROVE arsfs_find(m, n) \in Hits(m, n) /\ arsfs_find(m, n) \in Slot
  BY <1>5, FindIs DEF Hits
<1>6. \A j \in Hits(m, n) : j \in InUse(m) /\ j \in InUse(r) BY <1>3 DEF Hits
<1> QED BY <1>1, <1>3, <1>4, <1>5, <1>6

LEMMA SurvivesStep == ASSUME NEW x \in BOOLEAN, Inv(x) PROVE OthersSurvive
<1> USE DEF Inv
<1> SUFFICES ASSUME up, target # ALL, secBuf # NONE => Head(todo).page # META,
                    NEW n \in Name \ {target},
                    ~(secBuf # NONE /\ PagesOf(n) \cap DOMAIN secBuf # {})
             PROVE  OnFlash[n] = Files[n]
  BY DEF OthersSurvive
<1> DEFINE f == flash.meta
           i == arsfs_find(meta, n)
<1>1. f \in Metadata /\ Untouched(target, f, meta, todo) BY DEF OldDirectory
<1>2. f # ERASED /\ Order(f, x) BY <1>1, MarkerAssumption DEF OrderBoth
<1>3. meta \in Metadata BY DEF Types
<1> HIDE DEF f
<1>4. /\ Hits(f, n) = Hits(meta, n) /\ arsfs_find(f, n) = i
      /\ Hits(f, n) # {} => /\ i \in Slot /\ i \in InUse(meta) /\ Kept(f, meta, i, i)
                            /\ \A k \in 1 .. Len(todo) : todo[k].page \notin ChainOf(f, i)
  BY <1>1, SameHits
<1>5. OnFlash[n] = readFile(f, flash.page, n) BY <1>2 DEF OnFlash, f
<1>6. Files[n] = readFile(meta, Pending, n) BY DEF Files
<1>7. CASE Hits(f, n) = {} BY <1>4, <1>5, <1>6, <1>7, ReadIs
<1>8. CASE Hits(f, n) # {}
  <2> HIDE DEF i
  <2>1. ChainOf(meta, i) = ChainOf(f, i) BY <1>1, <1>3, <1>4, <1>8, KeptSame
  <2>2. PagesOf(n) = ChainOf(meta, i) BY DEF PagesOf, i
  <2>3. ASSUME NEW p \in ChainOf(f, i) PROVE flash.page[p] = Pending[p]
    <3>1. p \in Page BY <1>1, <1>4, <1>8, ChainOfFacts
    <3>2. DOMAIN todo = 1 .. Len(todo) BY DEF Types
    <3>3. ~\E k \in DOMAIN todo : todo[k].page = p BY <1>4, <1>8, <3>2
    <3>4. ~(secBuf # NONE /\ p \in DOMAIN secBuf) BY <2>1, <2>2
    <3> QED BY <3>1, <3>3, <3>4 DEF Pending
  <2>4. ReadAt(f, flash.page, i) = ReadAt(meta, Pending, i)
    BY <1>2, <1>3, <1>4, <1>8, <2>3, KeptRead
  <2> QED BY <1>4, <1>5, <1>6, <1>8, <2>4, ReadIs DEF i
<1> QED BY <1>7, <1>8

-----------------------------------------------------------------------------
(***************************************************************************)
(* Theorems.                                                               *)
(***************************************************************************)
LEMMA Consequences ==
  ASSUME NEW x \in BOOLEAN, Inv(x)
  PROVE  TypeOK /\ Durable /\ FlashSound /\ OthersSurvive /\ (x => MetaSound)
<1> USE DEF Inv
<1>1. TypeOK
  <2>1. \A k \in DOMAIN todo : todo[k] \in Write BY DEF Types
  <2> QED BY <2>1 DEF Types, TypeOK, Write, Queue
<1>2. Durable BY DEF Durable, Ready, Queue
<1>3. FlashSound BY DEF FlashSound, OrderBoth, Order
<1>4. x => MetaSound BY DEF MetaSound, Sound, OrderBoth, Order
<1> QED BY <1>1, <1>2, <1>3, <1>4, SurvivesStep

\* Without a power failure everything holds exactly.
LEMMA SpecInv == Spec => []Inv(TRUE)
<1>1. Init => Inv(TRUE) BY InitInv
<1>2. Inv(TRUE) /\ [Next]_vars => Inv(TRUE)' BY NextInv
<1> QED BY <1>1, <1>2, PTL DEF Spec

\* With power failures in any place, for any set of sectors that may be cut short.
LEMMA CrashInv == CrashSpec => []Inv(FALSE)
<1>1. Init => Inv(FALSE) BY InitInv
<1>2. Inv(FALSE) /\ [Next \/ PowerLoss]_vars => Inv(FALSE)' BY NextInv, PowerLossInv
<1> QED BY <1>1, <1>2, PTL DEF CrashSpec

\* The metadata, the flash and the writes that wait have the types of the C program.
THEOREM TypesHold == CrashSpec => []TypeOK
<1>1. Inv(FALSE) => TypeOK BY Consequences
<1> QED BY <1>1, CrashInv, PTL

\* Whatever is created, moved, overwritten, deleted or refused for want of room: names
\* are unique, every chain ends, has the length its file needs and shares no page, and
\* a page on no chain is free.
THEOREM DirectorySound == Spec => []MetaSound
<1>1. Inv(TRUE) => MetaSound BY Consequences
<1> QED BY <1>1, SpecInv, PTL

\* The same with power failures, as long as they do not cut the metadata sector short.
THEOREM DirectorySoundAfterCrash ==
  ASSUME "meta" \notin Torn PROVE CrashSpec => []MetaSound
<1>1. Init => Inv(TRUE) BY InitInv
<1>2. Inv(TRUE) /\ [Next \/ PowerLoss]_vars => Inv(TRUE)' BY NextInv, PowerLossInv
<1>3. Inv(TRUE) => MetaSound BY Consequences
<1> QED BY <1>1, <1>2, <1>3, PTL DEF CrashSpec

\* An operation that has returned is on the flash, also after power failures.
THEOREM ReturnedIsStored == CrashSpec => []Durable
<1>1. Inv(FALSE) => Durable BY Consequences
<1> QED BY <1>1, CrashInv, PTL

\* Wherever the power fails, between two entries of the metadata or inside one too, no name
\* is found twice, no page on two chains, no chain without an end and, unless its size is
\* lost, no file with more pages than it needs.
THEOREM CrashLeavesSound == CrashSpec => []FlashSound
<1>1. Inv(FALSE) => FlashSound BY Consequences
<1> QED BY <1>1, CrashInv, PTL

\* A power failure while pages are written costs the file that is written and those with
\* a page in the sector erased just then; every other file is found as it was.  Of one
\* while the metadata sector is erased or half written nothing is said.
THEOREM CrashSparesOthers == CrashSpec => []OthersSurvive
<1>1. Inv(FALSE) => OthersSurvive BY Consequences
<1> QED BY <1>1, CrashInv, PTL

-----------------------------------------------------------------------------
(***************************************************************************)
(* The disk as a table of files (module FileStore).                        *)
(***************************************************************************)
\* A sum over a finite set, as Room adds it up.
Total(P, f, S) == Store!MapThenSumSet(LAMBDA k : P[f[k]], S)

\* The sum of the sizes of disjoint sets is the size of their union.
Sizes(S, C, P, f) ==
  /\ IsFiniteSet(S)
  /\ \A k \in S : IsFiniteSet(C[k]) /\ P[f[k]] = Cardinality(C[k])
  /\ \A j, k \in S : j # k => C[j] \cap C[k] = {}

Joined(C, S) == UNION {C[k] : k \in S}

LEMMA SumOfSizes ==
  ASSUME NEW S, NEW C, NEW P, NEW f, Sizes(S, C, P, f)
  PROVE  /\ IsFiniteSet(Joined(C, S))
         /\ Total(P, f, S) = Cardinality(Joined(C, S))
<1> USE DEF Sizes, Joined
<1> DEFINE One(s) == CHOOSE x \in s : TRUE
           Eq(g) == g = [s \in SUBSET S |-> IF s = {} THEN 0
                                            ELSE P[f[One(s)]] + g[s \ {One(s)}]]
           U(s) == UNION {C[k] : k \in s}
           h == [s \in SUBSET S |-> Cardinality(U(s))]
           it == CHOOSE g : Eq(g)
<1>1. Total(P, f, S) = it[S]
  BY DEF Total, Store!MapThenSumSet, Store!MapThenFoldSet
<1>2. ASSUME NEW s \in SUBSET S PROVE IsFiniteSet(s) /\ IsFiniteSet(U(s))
  <2>1. IsFiniteSet(s) BY FS_Subset
  <2>2. IsFiniteSet({C[k] : k \in s})
    <3> DEFINE c == [k \in s |-> C[k]]
    <3>1. c \in Surjection(s, {C[k] : k \in s}) BY DEF Surjection
    <3> HIDE DEF c
    <3> QED BY <2>1, <3>1, FS_Surjection
  <2>3. \A T \in {C[k] : k \in s} : IsFiniteSet(T) OBVIOUS
  <2> HIDE DEF U
  <2>4. IsFiniteSet(UNION {C[k] : k \in s}) BY <2>2, <2>3, FS_UNION
  <2> QED BY <2>1, <2>4 DEF U
<1>3. ASSUME NEW s \in SUBSET S, s # {}
      PROVE  /\ One(s) \in s /\ One(s) \in S /\ s \ {One(s)} \in SUBSET S
             /\ Cardinality(U(s)) = P[f[One(s)]] + Cardinality(U(s \ {One(s)}))
  <2> DEFINE o == One(s)
             t == s \ {o}
  <2>1. o \in s BY <1>3
  <2> HIDE DEF o
  <2>2. o \in S /\ t \in SUBSET S BY <2>1
  <2>3. U(s) = C[o] \cup U(t) BY <2>1
  <2>4. C[o] \cap U(t) = {} BY <2>1, <2>2
  <2>5. IsFiniteSet(C[o]) /\ IsFiniteSet(U(t)) BY <1>2, <2>2
  <2> HIDE DEF U, t
  <2>6. Cardinality(C[o]) \in Nat /\ Cardinality(U(t)) \in Nat BY <2>5, FS_CardinalityType
  <2>7. Cardinality(U(s)) = Cardinality(C[o]) + Cardinality(U(t)) - Cardinality(C[o] \cap U(t))
    BY <2>3, <2>5, FS_Union
  <2>8. Cardinality(C[o] \cap U(t)) = 0 BY <2>4, FS_EmptySet
  <2>9. Cardinality(U(s)) = P[f[o]] + Cardinality(U(t)) BY <2>2, <2>6, <2>7, <2>8
  <2> QED BY <2>1, <2>2, <2>9 DEF o, t
<1>4. Cardinality(U({})) = 0 BY FS_EmptySet
<1> HIDE DEF U, One
<1>5. Eq(h)
  <2>1. ASSUME NEW s \in SUBSET S
        PROVE  h[s] = IF s = {} THEN 0 ELSE P[f[One(s)]] + h[s \ {One(s)}]
    <3>1. CASE s = {} BY <1>4, <3>1
    <3>2. CASE s # {} BY <1>3, <3>2
    <3> QED BY <3>1, <3>2
  <2> QED BY <2>1
<1>6. Eq(it)
  <2>1. \E g : Eq(g) BY <1>5
  <2> HIDE DEF Eq
  <2> QED BY <2>1
<1>7. \A s \in SUBSET S : it[s] = IF s = {} THEN 0 ELSE P[f[One(s)]] + it[s \ {One(s)}]
  <2> HIDE DEF it
  <2> QED BY <1>6
<1> HIDE DEF it
<1> DEFINE G == {n \in Nat : \A s \in SUBSET S : Cardinality(s) = n => it[s] = Cardinality(U(s))}
<1>8. 0 \in G
  <2>1. \A s \in SUBSET S : Cardinality(s) = 0 => s = {} BY <1>2, FS_EmptySet
  <2> QED BY <1>4, <1>7, <2>1
<1>9. ASSUME NEW n \in Nat, n \in G PROVE n + 1 \in G
  <2> SUFFICES ASSUME NEW s \in SUBSET S, Cardinality(s) = n + 1
               PROVE  it[s] = Cardinality(U(s))
    OBVIOUS
  <2>1. s # {} BY FS_EmptySet
  <2>2. One(s) \in s /\ s \ {One(s)} \in SUBSET S BY <1>3, <2>1
  <2>3. Cardinality(s \ {One(s)}) = n
    <3> DEFINE o == One(s)
    <3>1. o \in s /\ IsFiniteSet(s) BY <1>2, <2>2
    <3> HIDE DEF o
    <3>2. Cardinality(s \ {o}) = Cardinality(s) - 1 BY <3>1, FS_RemoveElement
    <3>3. Cardinality(s \ {o}) = n BY <3>2
    <3> QED BY <3>3 DEF o
  <2>4. it[s \ {One(s)}] = Cardinality(U(s \ {One(s)})) BY <1>9, <2>2, <2>3
  <2> QED BY <1>3, <1>7, <2>1, <2>4
<1> HIDE DEF G
<1>10. Nat \subseteq G BY <1>8, <1>9, SetInduction
<1>11. Cardinality(S) \in Nat /\ S \in SUBSET S BY FS_CardinalityType
<1>12. it[S] = Cardinality(U(S)) BY <1>10, <1>11 DEF G
<1> QED BY <1>1, <1>2, <1>11, <1>12 DEF U

\* The room that is left, as a sum.
LEMMA RoomIs ==
  ASSUME NEW n
  PROVE  Store!Room(n) = BMP - Total([c \in Content |-> pgCount(c.size)], Files, Store!Stored \ {n})
  BY DEF Store!Room, Total, Store!MapThenSumSet, Store!MapThenFoldSet

\* The pages as they will be, of the writes t that wait, the buffer s and the pages pg.
Pend(t, s, pg) ==
  [p \in Page |->
     IF \E k \in DOMAIN t : t[k].page = p
     THEN (CHOOSE w \in {t[k] : k \in DOMAIN t} : w.page = p).chunk
     ELSE IF s # NONE /\ Head(t).page # META /\ p \in DOMAIN s THEN s[p] ELSE pg[p]]

LEMMA PendingIs == /\ Pending = Pend(todo, secBuf, flash.page)
                   /\ Pending' = Pend(todo', secBuf', flash'.page)
  BY DEF Pending, Pend

\* A page that waits to be written is as it will be written.
LEMMA PendWaiting ==
  ASSUME NEW t, DOMAIN t = 1 .. Len(t), Distinct(t), NEW s, NEW pg, NEW k \in 1 .. Len(t),
         t[k].page \in Page
  PROVE  Pend(t, s, pg)[t[k].page] = t[k].chunk
<1> DEFINE p == t[k].page
           w == CHOOSE w \in {t[j] : j \in DOMAIN t} : w.page = p
<1>1. t[k] \in {t[j] : j \in DOMAIN t} /\ t[k].page = p OBVIOUS
<1>2. w \in {t[j] : j \in DOMAIN t} /\ w.page = p BY <1>1
<1>3. PICK j \in 1 .. Len(t) : w = t[j] BY <1>2
<1>4. w = t[k] BY <1>2, <1>3 DEF Distinct
<1>5. Pend(t, s, pg)[p] = w.chunk BY <1>1 DEF Pend
<1> QED BY <1>4, <1>5

\* The steps of the driver change no file.
LEMMA EraseKeepsFiles == ASSUME Types, Queue, Erase PROVE Files' = Files
<1> DEFINE w == Head(todo)
<1>1. todo # <<>> /\ secBuf = NONE /\ UNCHANGED <<meta, todo, target, up>> BY DEF Erase
<1>2. DOMAIN todo = 1 .. Len(todo) /\ 1 \in 1 .. Len(todo) /\ w = todo[1]
  BY <1>1, FirstWrite DEF Types
<1>3. flash \in [meta : Metadata \cup {ERASED}, page : [Page -> Chunk]] BY DEF Types
<1>4. Pending' = Pending
  <2>1. CASE w.page = META
    <3>1. flash'.page = flash.page BY <1>3, <2>1 DEF Erase
    <3> QED BY <1>1, <2>1, <3>1, PendingIs DEF Pend
  <2>2. CASE w.page # META
    <3> DEFINE N == Neighbours(w.page)
    <3>1. /\ secBuf' = Rewritten(w) /\ Rewritten(w) \in [N -> Chunk] /\ Rewritten(w) # NONE
          /\ \A q \in N \ {w.page} : Rewritten(w)[q] = flash.page[q]
      BY <1>1, <2>2, RewrittenIs DEF Erase
    <3>2. \A q \in Page : flash'.page[q] = IF q \in N THEN ERASED ELSE flash.page[q]
      BY <1>3, <2>2 DEF Erase
    <3>3. DOMAIN secBuf' = N BY <3>1
    <3> HIDE DEF N
    <3>4. ASSUME NEW p \in Page
          PROVE  Pend(todo, secBuf', flash'.page)[p] = Pend(todo, secBuf, flash.page)[p]
      <4>1. CASE \E k \in DOMAIN todo : todo[k].page = p BY <4>1 DEF Pend
      <4>2. CASE ~\E k \in DOMAIN todo : todo[k].page = p
        <5>1. p # w.page BY <1>2, <4>2
        <5>2. CASE p \in N BY <1>1, <2>2, <3>1, <3>3, <4>2, <5>1, <5>2 DEF Pend
        <5>3. CASE p \notin N BY <1>1, <2>2, <3>2, <3>3, <4>2, <5>3 DEF Pend
        <5> QED BY <5>2, <5>3
      <4> QED BY <4>1, <4>2
    <3>5. Pend(todo, secBuf', flash'.page) = Pend(todo, secBuf, flash.page) BY <3>4 DEF Pend
    <3> QED BY <1>1, <3>5, PendingIs
  <2> QED BY <2>1, <2>2
<1> QED BY <1>1, <1>4 DEF Files

LEMMA ProgramKeepsFiles == ASSUME Types, Queue, Program PROVE Files' = Files
<1> DEFINE w == Head(todo)
           t == Tail(todo)
<1>1. secBuf # NONE /\ secBuf' = NONE /\ todo' = t /\ meta' = meta BY DEF Program
<1>2. todo # <<>> BY <1>1 DEF Queue
<1>3. /\ w = todo[1] /\ todo \in Seq(Write) /\ t \in Seq(Write)
      /\ Len(todo) \in Nat \ {0} /\ Len(t) = Len(todo) - 1
      /\ \A k \in 1 .. Len(t) : t[k] = todo[k + 1] /\ k + 1 \in 1 .. Len(todo)
      /\ \A k \in 1 .. Len(todo) : k = 1 \/ (k - 1 \in 1 .. Len(t) /\ todo[k] = t[k - 1])
      /\ w.page = META => t = <<>>
      /\ w.page # META => w.page \in Page
  BY <1>2, FirstWrite DEF Types
<1>4. /\ DOMAIN todo = 1 .. Len(todo) /\ DOMAIN t = 1 .. Len(t) /\ Distinct(todo)
      /\ 1 \in 1 .. Len(todo)
  <2> HIDE DEF t
  <2>1. DOMAIN todo = 1 .. Len(todo) /\ DOMAIN t = 1 .. Len(t) BY <1>3
  <2>2. Distinct(todo) BY DEF Queue
  <2>3. 1 \in 1 .. Len(todo) BY <1>3
  <2> QED BY <2>1, <2>2, <2>3
<1> HIDE DEF w, t
<1>5. Distinct(t) BY <1>3, <1>4 DEF Distinct
<1>6. META \notin Page BY DEF META, Page
<1>7. Pend(t, NONE, flash'.page) = Pend(todo, secBuf, flash.page)
  <2>1. CASE w.page = META
    <3>1. flash'.page = flash.page BY <1>1, <2>1 DEF Program, Queue, Types, w
    <3>2. Len(t) = 0 /\ Len(todo) = 1 BY <1>3, <2>1
    <3>3. \A p \in Page : /\ ~\E k \in DOMAIN t : t[k].page = p
                          /\ ~\E k \in DOMAIN todo : todo[k].page = p
      BY <1>3, <1>4, <1>6, <2>1, <3>2
    <3> QED BY <2>1, <3>1, <3>3 DEF Pend, w
  <2>2. CASE w.page # META
    <3> DEFINE N == Neighbours(w.page)
    <3>1. secBuf \in [N -> Chunk] /\ secBuf[w.page] = w.chunk /\ N \in SUBSET Page /\ w.page \in N
      BY <1>1, <1>3, <2>2, NeighboursAre DEF Queue, w
    <3>2. flash' = WithPages(N) BY <1>1, <2>2, <3>1 DEF Program, w
    <3>3. \A q \in Page : flash'.page[q] = IF q \in N THEN secBuf[q] ELSE flash.page[q]
      BY <3>1, <3>2, WithPagesIs
    <3>4. DOMAIN secBuf = N BY <3>1
    <3> HIDE DEF N
    <3>5. ASSUME NEW p \in Page
          PROVE  Pend(t, NONE, flash'.page)[p] = Pend(todo, secBuf, flash.page)[p]
      <4>1. CASE p = w.page
        <5>1. \A k \in 1 .. Len(t) : k + 1 # 1 OBVIOUS
        <5>2. ~\E k \in DOMAIN t : t[k].page = p BY <1>3, <1>4, <4>1, <5>1 DEF Distinct
        <5>3. Pend(t, NONE, flash'.page)[p] = flash'.page[p] BY <5>2 DEF Pend
        <5>4. Pend(todo, secBuf, flash.page)[todo[1].page] = todo[1].chunk
          BY <1>3, <1>4, <2>2, PendWaiting
        <5> QED BY <1>3, <3>1, <3>3, <4>1, <5>3, <5>4
      <4>2. ASSUME p # w.page, NEW k \in 1 .. Len(t), t[k].page = p
            PROVE  Pend(t, NONE, flash'.page)[p] = Pend(todo, secBuf, flash.page)[p]
        <5>1. Pend(t, NONE, flash'.page)[p] = t[k].chunk BY <1>4, <1>5, <4>2, PendWaiting
        <5>2. k + 1 \in 1 .. Len(todo) /\ todo[k + 1] = t[k] BY <1>3
        <5>3. Pend(todo, secBuf, flash.page)[p] = t[k].chunk BY <1>4, <4>2, <5>2, PendWaiting
        <5> QED BY <5>1, <5>3
      <4>3. CASE p # w.page /\ ~\E k \in 1 .. Len(t) : t[k].page = p
        <5>1. ~\E k \in DOMAIN t : t[k].page = p BY <1>4, <4>3
        <5>2. ~\E k \in DOMAIN todo : todo[k].page = p BY <1>3, <1>4, <4>3
        <5>3. Pend(t, NONE, flash'.page)[p] = flash'.page[p] BY <5>1 DEF Pend
        <5>4. Pend(todo, secBuf, flash.page)[p] = IF p \in N THEN secBuf[p] ELSE flash.page[p]
          BY <1>1, <2>2, <3>4, <5>2 DEF Pend, w
        <5> QED BY <3>3, <5>3, <5>4
      <4> QED BY <4>1, <4>2, <4>3
    <3> QED BY <3>5 DEF Pend
  <2> QED BY <2>1, <2>2
<1>8. Pending' = Pending BY <1>1, <1>7, PendingIs
<1> QED BY <1>1, <1>8 DEF Files

\* What the table of files needs besides: every entry has a name, every file is one that
\* was written, and the disk is mounted once.
FileInv ==
  /\ Inv(TRUE)
  /\ \A j \in InUse(meta) : meta.fcb[j].fileName \in Name
  /\ \A n \in Name : Hits(meta, n) # {} => Files[n] \in Content
  /\ ~up => meta = Blank /\ flash.meta = ERASED

\* The only entry of a name.
LEMMA OnlyHit ==
  ASSUME NEW m, Order(m, TRUE), NEW i \in InUse(m), NEW n, m.fcb[i].fileName = n
  PROVE  Hits(m, n) = {i} /\ arsfs_find(m, n) = i
<1>1. Hits(m, n) = {i} BY DEF Hits, Order
<1> QED BY <1>1, FindIs DEF Hits

\* An empty file reads as one, whatever the pages hold.
LEMMA EmptyRead ==
  ASSUME NEW m \in Metadata, NEW i \in Slot, m.fcb[i].size = 0, NEW pg
  PROVE  ReadAt(m, pg, i) = EMPTY
<1>1. pgCount(m.fcb[i].size) = 0 BY DEF pgCount
<1>2. PICK c \in 0 .. pgCount(m.fcb[i].size) : Cardinality(Reads(m, i)) = c BY ReadsInOrder
<1>3. Cardinality(Reads(m, i)) = 0 BY <1>1, <1>2
<1> DEFINE u == [k \in 1 .. pgCount(m.fcb[i].size) |-> Nth(m, m.fcb[i].start, k - 1)]
<1>4. ReadAt(m, pg, i) = [size |-> 0, pages |-> [k \in 1 .. Cardinality(Reads(m, i)) |-> pg[u[k]]]]
  BY DEF ReadAt, Bytes
<1> HIDE DEF u
<1>5. [k \in 1 .. 0 |-> pg[u[k]]] = <<>> OBVIOUS
<1> QED BY <1>3, <1>4, <1>5 DEF EMPTY

\* A chain of as many pages as the size needs is read to its end.
LEMMA FullRead ==
  ASSUME NEW m \in Metadata, NEW i \in Slot, NEW d \in Data, m.fcb[i].size = SizeOf[d], NEW pg,
         \A k \in 1 .. Need(d) : /\ Nth(m, m.fcb[i].start, k - 1) \in Page
                                 /\ pg[Nth(m, m.fcb[i].start, k - 1)] = <<d, k>>
  PROVE  ReadAt(m, pg, i) = File(d)
<1> DEFINE want == Need(d)
           u == [k \in 1 .. pgCount(m.fcb[i].size) |-> Nth(m, m.fcb[i].start, k - 1)]
<1>1. want \in Nat /\ pgCount(m.fcb[i].size) = want BY DataAssumption, CountIs DEF Need
<1>2. PICK c \in 0 .. want : Reads(m, i) = 1 .. c /\ Cardinality(Reads(m, i)) = c
  BY <1>1, ReadsInOrder
<1> HIDE DEF want
<1>3. u = [k \in 1 .. want |-> Nth(m, m.fcb[i].start, k - 1)] BY <1>1
<1>4. want \in 1 .. want => want \in Reads(m, i)
  <2>1. \A j \in 1 .. want : u[j] \in Page BY <1>3 DEF want
  <2> QED BY <1>1, <2>1 DEF Reads
<1>5. c = want BY <1>1, <1>2, <1>4
<1>6. ReadAt(m, pg, i) =
        [size |-> SizeOf[d], pages |-> [k \in 1 .. Cardinality(Reads(m, i)) |-> pg[u[k]]]]
  <2>1. Bytes(m.fcb[i].size) = SizeOf[d] BY DataAssumption DEF Bytes
  <2> QED BY <2>1 DEF ReadAt
<1>7. \A k \in 1 .. want : pg[u[k]] = <<d, k>> BY <1>3 DEF want
<1> HIDE DEF u
<1>8. [k \in 1 .. Cardinality(Reads(m, i)) |-> pg[u[k]]] = [k \in 1 .. want |-> <<d, k>>]
  BY <1>2, <1>5, <1>7
<1> QED BY <1>6, <1>8 DEF File, want, Need

\* Contents are not taken for absence.
LEMMA ContentIs ==
  /\ EMPTY \in Content /\ \A d \in Data : File(d) \in Content
  /\ ABSENT \notin Content
  /\ \A n : Hits(meta, n) = {} => readFile(meta, Pending, n) = ABSENT
<1>1. \A d \in Data : File(d).size \in Nat BY DataAssumption DEF File
<1>2. EMPTY.size \in Nat BY DEF EMPTY
<1>3. \A c \in Content : c.size \in Nat BY <1>1, <1>2 DEF Content
<1>4. ABSENT.size = -20 BY DEF ABSENT
<1>5. ABSENT \notin Content BY <1>3, <1>4
<1> QED BY <1>5, ReadIs DEF Content

\* The names of the table of files.
LEMMA StoredIs ==
  ASSUME FileInv, NEW n \in Name
  PROVE  /\ Files[n] = readFile(meta, Pending, n)
         /\ n \in Store!Stored <=> Hits(meta, n) # {}
         /\ Hits(meta, n) = {} => Files[n] = ABSENT
         /\ Hits(meta, n) # {} => Files[n] \in Content
<1>1. Files[n] = readFile(meta, Pending, n) BY DEF Files
<1> QED BY <1>1, ContentIs DEF FileInv, Store!Stored

\* At rest the pages are those of the flash; an operation changes the ones it writes.
LEMMA OperationPending ==
  ASSUME Types, Queue, NEW n, NEW m, NEW w \in Seq(PageWrite), Distinct(w), Does(n, m, w)
  PROVE  /\ \A p \in Page : Pending[p] = flash.page[p]
         /\ \A p \in Page : (\A k \in 1 .. Len(w) : w[k].page # p) => Pending'[p] = Pending[p]
         /\ \A k \in 1 .. Len(w) : Pending'[w[k].page] = w[k].chunk
<1>1. todo = <<>> /\ secBuf = NONE /\ secBuf' = NONE /\ flash' = flash /\ todo' = w \o Flush
  BY DEF Does, Ready, Queue
<1> DEFINE s == w \o Flush
<1>2. /\ s \in Seq(Write) /\ Len(s) = Len(w) + 1 /\ Distinct(s)
      /\ \A k \in 1 .. Len(w) : s[k] = w[k] /\ s[k] \in PageWrite
      /\ s[Len(s)] = [page |-> META, chunk |-> NONE]
  BY QueueOf
<1> HIDE DEF s
<1>3. Len(w) \in Nat /\ DOMAIN s = 1 .. Len(s) /\ META \notin Page BY <1>2 DEF META, Page
<1>4. \A p \in Page : Pending[p] = flash.page[p]
  <2>1. DOMAIN <<>> = {} OBVIOUS
  <2> QED BY <1>1, <2>1, PendingIs DEF Pend
<1>5. Pending' = Pend(s, NONE, flash.page) BY <1>1, PendingIs DEF s
<1>6. ASSUME NEW p \in Page, \A k \in 1 .. Len(w) : w[k].page # p
      PROVE  Pending'[p] = flash.page[p]
  <2>1. \A k \in 1 .. Len(s) : k \in 1 .. Len(w) \/ k = Len(s) BY <1>2, <1>3
  <2>2. ~\E k \in DOMAIN s : s[k].page = p BY <1>2, <1>3, <1>6, <2>1
  <2> QED BY <1>5, <2>2 DEF Pend
<1>7. ASSUME NEW k \in 1 .. Len(w) PROVE Pending'[w[k].page] = w[k].chunk
  <2>1. k \in 1 .. Len(s) /\ s[k] = w[k] /\ s[k].page \in Page BY <1>2, <1>3 DEF PageWrite
  <2> QED BY <1>2, <1>3, <1>5, <2>1, PendWaiting
<1> QED BY <1>4, <1>6, <1>7

\* A step that is an operation on file n.
DoesExactly(n, m, w) == Does_orderly(TRUE, n, m, w)

\* The files an operation is not about: as before, in name and in contents.
LEMMA OthersRead ==
  ASSUME NEW x \in BOOLEAN, Inv(x), NEW n \in Name, NEW m, NEW w, Does_orderly(x, n, m, w),
         NEW o \in Name, o # n
  PROVE  Files'[o] = Files[o] /\ Hits(m, o) = Hits(meta, o)
<1>0. n # ALL BY MarkerAssumption
<1>1. /\ Does(n, m, w) /\ Order(m, x) /\ w \in Seq(PageWrite) /\ Distinct(w)
      /\ Untouched(n, meta, m, w) /\ Types /\ Queue /\ Order(meta, x)
  BY <1>0 DEF Does_orderly, Inv, OrderBoth
<1>2. meta' = m /\ m \in Metadata /\ meta \in Metadata BY <1>1 DEF Does, Order
<1> DEFINE i == arsfs_find(meta, o)
<1>3. /\ Hits(meta, o) = Hits(m, o) /\ arsfs_find(m, o) = i
      /\ Hits(meta, o) # {} => /\ i \in Slot /\ Kept(meta, m, i, i)
                               /\ \A k \in 1 .. Len(w) : w[k].page \notin ChainOf(meta, i)
  BY <1>1, SameHits
<1>4. Files[o] = readFile(meta, Pending, o) /\ Files'[o] = readFile(m, Pending', o)
  BY <1>2 DEF Files
<1> HIDE DEF i
<1>5. CASE Hits(meta, o) = {} BY <1>3, <1>4, <1>5, ReadIs
<1>6. CASE Hits(meta, o) # {}
  <2>1. ASSUME NEW p \in ChainOf(meta, i) PROVE Pending[p] = Pending'[p]
    <3>1. p \in Page BY <1>2, <1>3, <1>6, ChainOfFacts
    <3>2. \A k \in 1 .. Len(w) : w[k].page # p BY <1>3, <1>6
    <3> QED BY <1>1, <3>1, <3>2, OperationPending
  <2>2. ReadAt(meta, Pending, i) = ReadAt(m, Pending', i)
    <3>1. Order(meta, x) /\ m \in Metadata /\ i \in Slot /\ Kept(meta, m, i, i)
      BY <1>1, <1>2, <1>3, <1>6
    <3>2. PICK b : b = Pending' OBVIOUS
    <3>3. PICK a : a = Pending OBVIOUS
    <3>4. ReadAt(meta, a, i) = ReadAt(m, b, i) BY <2>1, <3>1, <3>2, <3>3, KeptRead
    <3> QED BY <3>2, <3>3, <3>4
  <2> QED BY <1>3, <1>4, <1>6, <2>2, ReadIs DEF i
<1> QED BY <1>3, <1>5, <1>6

\* One file changes: what follows for the table and for the invariant.
LEMMA OneFileChanges ==
  ASSUME FileInv, NEW n \in Name, NEW m, NEW w, DoesExactly(n, m, w),
         Hits(m, n) # {} => Files'[n] \in Content
  PROVE  /\ Files' = [Files EXCEPT ![n] = Files'[n]]
         /\ Hits(m, n) = {} => Files'[n] = ABSENT
         /\ \A j \in InUse(meta)' : meta'.fcb[j].fileName \in Name
         /\ \A o \in Name : Hits(meta, o)' # {} => Files'[o] \in Content
         /\ up'
<1>1. meta' = m /\ up' /\ Untouched(n, meta, m, w)
  BY MarkerAssumption DEF DoesExactly, Does_orderly, Does, Ready
<1>2. ASSUME NEW o \in Name \ {n} PROVE Files'[o] = Files[o] /\ Hits(m, o) = Hits(meta, o)
  BY OthersRead DEF DoesExactly, FileInv
<1>3. Files' = [Files EXCEPT ![n] = Files'[n]]
  <2>1. Files' \in [Name -> {Files'[o] : o \in Name}] /\ Files \in [Name -> {Files[o] : o \in Name}]
    BY DEF Files
  <2>2. \A o \in Name : Files'[o] = IF o = n THEN Files'[n] ELSE Files[o] BY <1>2
  <2> QED BY <2>1, <2>2
<1>4. Hits(m, n) = {} => Files'[n] = ABSENT
  <2>1. Files'[n] = readFile(m, Pending', n) BY <1>1 DEF Files
  <2> QED BY <2>1, ReadIs
<1>5. \A j \in InUse(meta)' : meta'.fcb[j].fileName \in Name
  <2> SUFFICES ASSUME NEW j \in InUse(m) PROVE m.fcb[j].fileName \in Name BY <1>1 DEF InUse
  <2> QED BY <1>1 DEF Untouched, FileInv
<1>6. ASSUME NEW o \in Name, Hits(m, o) # {} PROVE Files'[o] \in Content
  <2>1. CASE o = n BY <1>6, <2>1
  <2>2. CASE o # n BY <1>2, <1>6, <2>2, StoredIs
  <2> QED BY <2>1, <2>2
<1>7. \A o \in Name : Hits(meta, o)' = Hits(m, o) BY <1>1 DEF Hits, InUse
<1> QED BY <1>1, <1>3, <1>4, <1>5, <1>6, <1>7

\* A directory with a free entry has room for another name.
LEMMA RoomForName ==
  ASSUME FileInv, FreeSlots(meta) # {}
  PROVE  Cardinality(Store!Stored) < FCB_CNT
<1>1. InUse(meta) \subseteq Slot /\ InUse(meta) # Slot BY DEF InUse, FreeSlots
<1>2. IsFiniteSet(Slot) /\ Cardinality(Slot) = FCB_CNT
  BY GeometryAssumption, FS_Interval DEF Slot
<1>3. /\ IsFiniteSet(InUse(meta)) /\ Cardinality(InUse(meta)) <= FCB_CNT
      /\ Cardinality(InUse(meta)) # FCB_CNT
  BY <1>1, <1>2, FS_Subset
<1>4. Cardinality(InUse(meta)) \in Nat /\ FCB_CNT \in Nat BY <1>3, FS_CardinalityType, GeometryAssumption
<1> DEFINE f == [j \in InUse(meta) |-> meta.fcb[j].fileName]
           T == {f[j] : j \in InUse(meta)}
<1>5. Store!Stored \subseteq T
  <2> SUFFICES ASSUME NEW n \in Store!Stored PROVE n \in T OBVIOUS
  <2>1. n \in Name BY DEF Store!Stored
  <2>2. Hits(meta, n) # {} BY <2>1, StoredIs
  <2> QED BY <2>2 DEF Hits
<1>6. f \in Surjection(InUse(meta), T) BY DEF Surjection
<1> HIDE DEF f, T
<1>7. IsFiniteSet(T) /\ Cardinality(T) <= Cardinality(InUse(meta)) BY <1>3, <1>6, FS_Surjection
<1>8. IsFiniteSet(Store!Stored) /\ Cardinality(Store!Stored) <= Cardinality(T)
  BY <1>5, <1>7, FS_Subset
<1>9. Cardinality(T) \in Nat /\ Cardinality(Store!Stored) \in Nat BY <1>7, <1>8, FS_CardinalityType
<1> QED BY <1>3, <1>4, <1>7, <1>8, <1>9

\* The pages that are free, once those of file n are given back, are the room of FileStore.
LEMMA FreeIsRoom ==
  ASSUME FileInv, NEW n \in Name, NEW i \in InUse(meta), meta.fcb[i].fileName = n
  PROVE  /\ IsFiniteSet(FreePages(Gone(meta, i)))
         /\ Store!Room(n) = Cardinality(FreePages(Gone(meta, i)))
<1> DEFINE g == Gone(meta, i)
           S == Store!Stored \ {n}
           P == [c \in Content |-> pgCount(c.size)]
           C == [k \in Name |-> ChainOf(meta, arsfs_find(meta, k))]
           U == UNION {C[k] : k \in S}
<1>1. Order(meta, TRUE) /\ meta \in Metadata BY DEF FileInv, Inv, OrderBoth, Order
<1>2. ASSUME NEW j \in InUse(meta)
      PROVE  LET k == meta.fcb[j].fileName IN
             /\ k \in Name /\ k \in Store!Stored /\ arsfs_find(meta, k) = j
             /\ j # i => k # n
  <2> DEFINE k == meta.fcb[j].fileName
  <2>1. k \in Name BY DEF FileInv
  <2>2. Hits(meta, k) = {j} /\ arsfs_find(meta, k) = j BY <1>1, OnlyHit
  <2>3. k \in Store!Stored BY <2>1, <2>2, StoredIs
  <2>4. j # i => k # n BY <1>1 DEF Order
  <2> QED BY <2>1, <2>2, <2>3, <2>4
<1>3. ASSUME NEW k \in S
      PROVE  /\ k \in Name /\ arsfs_find(meta, k) \in InUse(meta) \ {i}
             /\ meta.fcb[arsfs_find(meta, k)].fileName = k
             /\ C[k] \subseteq Page /\ IsFiniteSet(C[k])
             /\ P[Files[k]] = Cardinality(C[k])
  <2> DEFINE j == arsfs_find(meta, k)
  <2>1. k \in Name /\ k # n BY DEF Store!Stored
  <2>2. Hits(meta, k) # {} /\ Files[k] \in Content /\ Files[k] = readFile(meta, Pending, k)
    BY <2>1, StoredIs
  <2>3. j \in InUse(meta) /\ meta.fcb[j].fileName = k BY <2>2, FindIs
  <2>4. j \in Slot /\ ChainOf(meta, j) \subseteq Page /\ IsFiniteSet(ChainOf(meta, j))
    BY <1>1, <2>3, ChainOfFacts DEF InUse
  <2>5. Files[k] = ReadAt(meta, Pending, j) BY <2>2, ReadIs
  <2>6. pgCount(Files[k].size) = pgCount(meta.fcb[j].size)
    <3> HIDE DEF j
    <3>1. Files[k].size = Bytes(meta.fcb[j].size) BY <2>5 DEF ReadAt
    <3> QED BY <3>1 DEF Bytes, pgCount
  <2>7. Cardinality(ChainOf(meta, j)) = pgCount(meta.fcb[j].size) BY <1>1, <2>3 DEF Order
  <2>8. C[k] = ChainOf(meta, j) BY <2>1
  <2>9. P[Files[k]] = pgCount(Files[k].size) BY <2>2
  <2> QED BY <2>1, <2>3, <2>4, <2>6, <2>7, <2>8, <2>9
<1>4. \A j, k \in S : j # k => C[j] \cap C[k] = {}
  <2> SUFFICES ASSUME NEW j \in S, NEW k \in S, j # k PROVE C[j] \cap C[k] = {} OBVIOUS
  <2>1. arsfs_find(meta, j) # arsfs_find(meta, k) BY <1>3
  <2>2. C[j] = ChainOf(meta, arsfs_find(meta, j)) /\ C[k] = ChainOf(meta, arsfs_find(meta, k))
    BY <1>3
  <2>3. arsfs_find(meta, j) \in InUse(meta) /\ arsfs_find(meta, k) \in InUse(meta) BY <1>3
  <2> HIDE DEF C
  <2> QED BY <1>1, <2>1, <2>2, <2>3 DEF Order
<1>5. IsFiniteSet(S)
  <2> DEFINE f == [j \in InUse(meta) |-> meta.fcb[j].fileName]
             T == {f[j] : j \in InUse(meta)}
  <2>1. S \subseteq T BY <1>3
  <2>2. IsFiniteSet(InUse(meta))
    <3>1. IsFiniteSet(Slot) /\ InUse(meta) \subseteq Slot BY GeometryAssumption, FS_Interval DEF Slot, InUse
    <3> QED BY <3>1, FS_Subset
  <2>3. f \in Surjection(InUse(meta), T) BY DEF Surjection
  <2> HIDE DEF f, T
  <2>4. IsFiniteSet(T) BY <2>2, <2>3, FS_Surjection
  <2> HIDE DEF S
  <2> QED BY <2>1, <2>4, FS_Subset
<1>a. Order(g, TRUE) /\ g \in Metadata
  <2>1. \A x \in BOOLEAN : Order(meta, x) => Order(g, x) BY GoneOrder
  <2> HIDE DEF g
  <2>2. Order(g, TRUE) BY <1>1, <2>1
  <2> QED BY <2>2 DEF Order
<1>6. U = UNION {ChainOf(g, j) : j \in InUse(g)}
  <2>1. InUse(g) = InUse(meta) BY <1>1, GoneOrder
  <2>2. ASSUME NEW j \in InUse(meta)
        PROVE  ChainOf(g, j) = IF j = i THEN {} ELSE C[meta.fcb[j].fileName]
    <3>1. g \in Metadata /\ j \in Slot BY <1>a DEF InUse
    <3>2. CASE j = i
      <4>1. g.fcb[i].start = EOF_PG
        <5>1. g.fcb[i] = [fileName |-> meta.fcb[i].fileName, start |-> EOF_PG, size |-> 0]
          BY <1>1, GoneOrder, ZenonT(40)
        <5> HIDE DEF g
        <5> QED BY <5>1
      <4> HIDE DEF g
      <4> QED BY <3>1, <3>2, <4>1, EmptyChain
    <3>3. CASE j # i
      <4>1. \A l \in Slot \ {i} : g.fcb[l] = meta.fcb[l] BY <1>1, GoneOrder
      <4>2. \A p \in Page : g.nextPg[p] = IF p \in ChainOf(meta, i) THEN FREE_OR_DEL
                                          ELSE meta.nextPg[p]
        BY <1>1, GoneOrder, ZenonT(40)
      <4> HIDE DEF g
      <4>3. ChainOf(meta, j) \subseteq Page /\ ChainOf(meta, j) \cap ChainOf(meta, i) = {}
        BY <1>1, <3>1, <3>3, ChainOfFacts DEF Order
      <4>4. Kept(meta, g, j, j) BY <3>1, <3>3, <4>1, <4>2, <4>3 DEF Kept
      <4>5. ChainOf(g, j) = ChainOf(meta, j) BY <1>1, <2>1, <3>1, <4>4, KeptSame
      <4> QED BY <1>2, <3>3, <4>5
    <3> QED BY <3>2, <3>3
  <2>3. \A j \in InUse(meta) \ {i} : meta.fcb[j].fileName \in S BY <1>2
  <2>4. \A k \in S : \E j \in InUse(meta) \ {i} : meta.fcb[j].fileName = k BY <1>3
  <2> HIDE DEF g, C, S
  <2>5. ASSUME NEW p \in U PROVE p \in UNION {ChainOf(g, j) : j \in InUse(g)}
    <3>1. PICK k \in S : p \in C[k] OBVIOUS
    <3>2. PICK j \in InUse(meta) \ {i} : meta.fcb[j].fileName = k BY <2>4
    <3> QED BY <2>1, <2>2, <3>1, <3>2
  <2>6. ASSUME NEW p \in UNION {ChainOf(g, j) : j \in InUse(g)} PROVE p \in U
    <3>1. PICK j \in InUse(meta) : p \in ChainOf(g, j) BY <2>1
    <3> QED BY <2>2, <2>3, <3>1
  <2> QED BY <2>5, <2>6
<1>7. FreePages(g) = Page \ U
  <2> HIDE DEF g, U
  <2> QED BY <1>6, <1>a DEF Order
<1>8. ASSUME NEW p \in U PROVE p \in Page
  <2> HIDE DEF C, S
  <2>1. PICK k \in S : p \in C[k] OBVIOUS
  <2> QED BY <1>3, <2>1
<1>9. IsFiniteSet(U) /\ Total(P, Files, S) = Cardinality(U)
  <2>1. \A k \in S : IsFiniteSet(C[k]) /\ P[Files[k]] = Cardinality(C[k]) BY <1>3
  <2> HIDE DEF C, S, P
  <2>2. PICK f : f = Files OBVIOUS
  <2>3. \A k \in S : IsFiniteSet(C[k]) /\ P[f[k]] = Cardinality(C[k]) BY <2>1, <2>2
  <2>4. Sizes(S, C, P, f) BY <1>4, <1>5, <2>3 DEF Sizes
  <2>5. IsFiniteSet(Joined(C, S)) BY <2>4, SumOfSizes
  <2>6. Total(P, f, S) = Cardinality(Joined(C, S)) BY <2>4, SumOfSizes
  <2>7. U = Joined(C, S) BY DEF Joined
  <2> HIDE DEF U
  <2> QED BY <2>2, <2>5, <2>6, <2>7
<1>10. Store!Room(n) = BMP - Cardinality(U) BY <1>9, RoomIs
<1>11. IsFiniteSet(Page) /\ Cardinality(Page) = BMP BY GeometryAssumption, FS_Interval DEF Page
<1> HIDE DEF U, g
<1>12. IsFiniteSet(Page \ U) /\ Cardinality(Page \ U) = BMP - Cardinality(Page \cap U)
  BY <1>11, FS_Difference
<1>13. Page \cap U = U BY <1>8
<1> QED BY <1>7, <1>10, <1>12, <1>13 DEF g

\* FileStore counts as this module does.
LEMMA SameCount == \A S : Store!Cardinality(S) = Cardinality(S)
  BY DEF Store!Cardinality, Cardinality

\* The only entry of a name, in metadata in order.
Exact(m) == Order(m, TRUE)

LEMMA OnlyEntry ==
  ASSUME NEW m, Exact(m), NEW i \in InUse(m), NEW n, m.fcb[i].fileName = n
  PROVE  arsfs_find(m, n) = i /\ Hits(m, n) = {i}
  BY OnlyHit DEF Exact

\* A step of the disk as a step of FileStore, with what FileInv needs after it.
FileStep ==
  /\ \A j \in InUse(meta)' : meta'.fcb[j].fileName \in Name
  /\ \A o \in Name : Hits(meta, o)' # {} => Files'[o] \in Content
  /\ up'
  /\ [Store!Next]_Files

\* The metadata m after n was created in entry i, after entry c was moved to i, and after
\* entry i was deleted.
IsCreated(m, n, i) == m = [meta EXCEPT !.fcb = [meta.fcb EXCEPT ![i] = EmptyFcb(n)]]
IsMoved(m, c, i) == m = [meta EXCEPT !.fcb = [meta.fcb EXCEPT ![i] = meta.fcb[c], ![c] = NoFcb]]
IsDeleted(m, i) == m = [pgFreeChain(meta, meta.fcb[i].start) EXCEPT !.fcb[i] = NoFcb]

\* Creating a file, in the first free entry or in a given one.
LEMMA CreateStep ==
  ASSUME FileInv, NEW n \in Name, Hits(meta, n) = {}, NEW i \in FreeSlots(meta), NEW m,
         IsCreated(m, n, i), Does(n, m, <<>>)
  PROVE  FileStep
<1>1. Order(meta, TRUE) /\ meta \in Metadata /\ i \in Slot
  BY DEF FileInv, Inv, OrderBoth, Order, FreeSlots
<1>2. DoesExactly(n, m, <<>>)
  <2>1. \A x \in BOOLEAN : Order(meta, x) => Does_orderly(x, n, m, <<>>)
    BY CreatedDoes DEF IsCreated
  <2> QED BY <1>1, <2>1 DEF DoesExactly
<1>3. Exact(m) /\ m \in Metadata /\ meta' = m
  <2>1. Exact(m) BY <1>2 DEF DoesExactly, Does_orderly, Exact
  <2> QED BY <2>1 DEF Exact, Order, Does
<1>4. m.fcb[i] = EmptyFcb(n) /\ i \in InUse(m)
  <2>1. meta.fcb \in [Slot -> FcbType] BY <1>1, EntryFacts
  <2>2. m.fcb[i] = EmptyFcb(n) BY <1>1, <2>1 DEF Metadata, IsCreated
  <2> QED BY <1>1, <2>2, MarkAssumption DEF InUse, EmptyFcb
<1>5. Hits(m, n) = {i} /\ arsfs_find(m, n) = i
  <2>1. m.fcb[i].fileName = n BY <1>4 DEF EmptyFcb
  <2> QED BY <1>3, <1>4, <2>1, OnlyEntry
<1>6. Files'[n] = EMPTY
  <2>1. Files'[n] = readFile(m, Pending', n) BY <1>3 DEF Files
  <2>2. m.fcb[i].size = 0 BY <1>4 DEF EmptyFcb
  <2> QED BY <1>1, <1>3, <1>5, <2>1, <2>2, ReadIs, EmptyRead
<1>7. EMPTY \in Content BY ContentIs
<1>8. /\ Files' = [Files EXCEPT ![n] = EMPTY] /\ up'
      /\ \A j \in InUse(meta)' : meta'.fcb[j].fileName \in Name
      /\ \A o \in Name : Hits(meta, o)' # {} => Files'[o] \in Content
  BY <1>2, <1>6, <1>7, OneFileChanges
<1>9. n \notin Store!Stored /\ Cardinality(Store!Stored) < FCB_CNT
  BY StoredIs, RoomForName
<1>10. Store!Create(n)
  <2>1. Files' = [Files EXCEPT ![n] = EMPTY] BY <1>8
  <2>2. Store!Cardinality(Store!Stored) = Cardinality(Store!Stored) BY SameCount
  <2> QED BY <1>9, <2>1, <2>2 DEF Store!Create
<1> QED BY <1>8, <1>10 DEF FileStep, Store!Next

\* Moving a file to another entry changes none.
LEMMA MoveStep ==
  ASSUME FileInv, NEW n \in Name, NEW c \in InUse(meta), meta.fcb[c].fileName = n,
         NEW i \in FreeSlots(meta), NEW m, IsMoved(m, c, i), Does(n, m, <<>>)
  PROVE  FileStep
<1>1. /\ Order(meta, TRUE) /\ meta \in Metadata /\ i \in Slot /\ c \in Slot /\ i # c
      /\ Types /\ Queue
  BY DEF FileInv, Inv, OrderBoth, Order, FreeSlots, InUse
<1>2. DoesExactly(n, m, <<>>)
  <2>1. \A x \in BOOLEAN : Order(meta, x) => Does_orderly(x, n, m, <<>>)
    BY MovedDoes DEF IsMoved
  <2> QED BY <1>1, <2>1 DEF DoesExactly
<1>3. Exact(m) /\ m \in Metadata /\ meta' = m
  <2>1. Exact(m) BY <1>2 DEF DoesExactly, Does_orderly, Exact
  <2> QED BY <2>1 DEF Exact, Order, Does
<1>4. m.fcb[i] = meta.fcb[c] /\ m.nextPg = meta.nextPg
  <2>1. meta.fcb \in [Slot -> FcbType] BY <1>1, EntryFacts
  <2>2. m.fcb = [meta.fcb EXCEPT ![i] = meta.fcb[c], ![c] = NoFcb] /\ m.nextPg = meta.nextPg
    BY <1>1 DEF Metadata, IsMoved
  <2> QED BY <1>1, <2>1, <2>2
<1>5. i \in InUse(m) /\ m.fcb[i].fileName = n BY <1>1, <1>4 DEF InUse
<1>6. Hits(m, n) = {i} /\ arsfs_find(m, n) = i BY <1>3, <1>5, OnlyEntry
<1>7. Hits(meta, n) = {c} /\ arsfs_find(meta, n) = c
  <2>1. Exact(meta) BY <1>1 DEF Exact
  <2> QED BY <2>1, OnlyEntry
<1>8. ReadAt(meta, Pending, c) = ReadAt(m, Pending', i)
  <2>1. PICK b : b = Pending' OBVIOUS
  <2>2. PICK a : a = Pending OBVIOUS
  <2>3. \A p \in Page : Pending'[p] = Pending[p]
    <3>1. PICK v : v = <<>> OBVIOUS
    <3>2. v \in Seq(PageWrite) /\ Distinct(v) /\ Len(v) = 0 BY <3>1, NoWrites
    <3>3. \A p \in Page : \A k \in 1 .. Len(v) : v[k].page # p BY <3>2
    <3>4. Does(n, m, v) BY <3>1
    <3> QED BY <1>1, <3>2, <3>3, <3>4, OperationPending
  <2>4. ChainOf(meta, c) \subseteq Page BY <1>1, ChainOfFacts
  <2>5. \A p \in ChainOf(meta, c) : a[p] = b[p] BY <2>1, <2>2, <2>3, <2>4
  <2>6. Kept(meta, m, i, c) BY <1>4 DEF Kept
  <2>7. PICK x : Order(meta, x) BY <1>1
  <2>8. ReadAt(meta, a, c) = ReadAt(m, b, i) BY <1>1, <1>3, <2>5, <2>6, <2>7, KeptRead
  <2> QED BY <2>1, <2>2, <2>8
<1>9. Files'[n] = Files[n] /\ Files[n] \in Content
  <2>1. Files'[n] = readFile(m, Pending', n) BY <1>3 DEF Files
  <2>2. Files[n] = readFile(meta, Pending, n) /\ Files[n] \in Content BY <1>7, StoredIs
  <2> QED BY <1>6, <1>7, <1>8, <2>1, <2>2, ReadIs
<1>10. /\ Files' = [Files EXCEPT ![n] = Files'[n]] /\ up'
       /\ \A j \in InUse(meta)' : meta'.fcb[j].fileName \in Name
       /\ \A o \in Name : Hits(meta, o)' # {} => Files'[o] \in Content
  BY <1>2, <1>9, OneFileChanges
<1>11. Files' = Files
  <2>1. Files = [o \in Name |-> Files[o]] BY DEF Files
  <2> QED BY <1>9, <1>10, <2>1
<1> QED BY <1>10, <1>11 DEF FileStep

\* Deleting a file.
LEMMA DeleteStep ==
  ASSUME FileInv, NEW n \in Name, NEW i \in InUse(meta), meta.fcb[i].fileName = n, NEW m,
         IsDeleted(m, i), Does(n, m, <<>>)
  PROVE  FileStep
<1>1. Order(meta, TRUE) BY DEF FileInv, Inv, OrderBoth
<1>2. DoesExactly(n, m, <<>>)
  <2>1. \A x \in BOOLEAN : Order(meta, x) => Does_orderly(x, n, m, <<>>)
    BY DeletedDoes DEF IsDeleted
  <2> QED BY <1>1, <2>1 DEF DoesExactly
<1>3. Hits(meta, n) = {i}
  <2>1. Exact(meta) BY <1>1 DEF Exact
  <2> QED BY <2>1, OnlyEntry
<1>4. Hits(m, n) = {}
  <2>1. meta \in Metadata /\ meta.fcb \in [Slot -> FcbType]
    <3>1. meta \in Metadata BY <1>1 DEF Order
    <3> QED BY <3>1, EntryFacts
  <2> DEFINE q == pgFreeChain(meta, meta.fcb[i].start)
  <2>2. q.fcb = meta.fcb /\ q = [fcb |-> q.fcb, nextPg |-> q.nextPg]
    BY <2>1 DEF pgFreeChain, Metadata
  <2>3. m = [q EXCEPT !.fcb[i] = NoFcb] BY DEF IsDeleted
  <2> HIDE DEF q
  <2>4. m.fcb = [meta.fcb EXCEPT ![i] = NoFcb] BY <2>2, <2>3
  <2>5. i \in Slot BY DEF InUse
  <2>6. m.fcb[i] = NoFcb BY <2>1, <2>4, <2>5
  <2>7. \A j \in Slot \ {i} : m.fcb[j] = meta.fcb[j] BY <2>1, <2>4
  <2>8. i \notin InUse(m) BY <2>6 DEF InUse, NoFcb
  <2> QED BY <1>3, <2>7, <2>8 DEF Hits, InUse
<1>5. /\ Files' = [Files EXCEPT ![n] = Files'[n]] /\ up' /\ Files'[n] = ABSENT
      /\ \A j \in InUse(meta)' : meta'.fcb[j].fileName \in Name
      /\ \A o \in Name : Hits(meta, o)' # {} => Files'[o] \in Content
  BY <1>2, <1>4, OneFileChanges
<1>6. n \in Store!Stored BY <1>3, StoredIs
<1>7. Store!Delete(n) BY <1>5, <1>6 DEF Store!Delete
<1> QED BY <1>5, <1>7 DEF FileStep, Store!Next

\* Formatting leaves no file.
LEMMA FormatStep ==
  ASSUME meta' = Blank, up'
  PROVE  FileStep /\ Files' = [n \in Name |-> ABSENT]
<1>1. InUse(Blank) = {} BY DEF InUse, Blank, NoFcb
<1>2. InUse(meta)' = {} /\ \A n \in Name : Hits(meta, n)' = {} BY <1>1 DEF Hits
<1>3. Files' = [n \in Name |-> ABSENT]
  <2>1. Files' = [n \in Name |-> readFile(Blank, Pending', n)] BY DEF Files
  <2>2. \A n \in Name : readFile(Blank, Pending', n) = ABSENT BY <1>1, ReadIs DEF Hits
  <2> QED BY <2>1, <2>2
<1> QED BY <1>2, <1>3 DEF FileStep, Store!Next, Store!Format

\* Writing a file: it reads as written if the other files leave room, else it is empty.
LEMMA WriteStep ==
  ASSUME FileInv, NEW n \in Name, NEW i \in InUse(meta), meta.fcb[i].fileName = n,
         NEW d \in Data, writeFileAt(n, i, d)
  PROVE  FileStep
<1> DEFINE g == Gone(meta, i)
           free == FreePages(g)
           pg == Ascending(free)
           c == Cardinality(free)
<1>1. Order(meta, TRUE) /\ Types /\ Queue /\ i \in Slot BY DEF FileInv, Inv, OrderBoth, InUse
<1>2. \E m, w : DoesExactly(n, m, w)
  <2>1. \A x \in BOOLEAN : Order(meta, x) => \E m, w : Does_orderly(x, n, m, w) BY WrittenDoes
  <2> QED BY <1>1, <2>1 DEF DoesExactly
<1>3. PICK m : \E w : DoesExactly(n, m, w) BY <1>2
<1>4. PICK w : DoesExactly(n, m, w) BY <1>3
<1>5. Exact(m) /\ m \in Metadata /\ meta' = m
  <2>1. Exact(m) /\ meta' = m BY <1>4 DEF DoesExactly, Does_orderly, Does, Exact
  <2> QED BY <2>1 DEF Exact, Order
<1>6. PICK x \in BOOLEAN : Order(meta, x) BY <1>1
<1>7. /\ Order(g, x) /\ i \in InUse(g) /\ g.fcb[i].start = EOF_PG
      /\ g.fcb[i].fileName = n /\ g.fcb[i].size = 0
  <2> HIDE DEF g
  <2>1. Order(g, x) /\ InUse(g) = InUse(meta) BY <1>6, GoneOrder DEF g
  <2>2. g.fcb[i] = [fileName |-> meta.fcb[i].fileName, start |-> EOF_PG, size |-> 0]
    BY <1>6, GoneOrder DEF g
  <2> QED BY <2>1, <2>2
<1>8. /\ c \in Nat /\ pg \in [1 .. c -> free] /\ Len(pg) = c /\ free \subseteq Page
      /\ \A j, k \in 1 .. c : j # k => pg[j] # pg[k]
  <2>1. free \subseteq Page BY DEF FreePages
  <2> QED BY <2>1, AscendingIs
<1>9. Store!Room(n) = c BY FreeIsRoom
<1>10. IF Need(d) <= Len(pg) THEN Does(n, Filled(g, i, d, pg, Need(d)), PagesWritten(d, pg, Need(d)))
       ELSE Does(n, g, PagesWritten(d, pg, Len(pg)))
  BY WriteIs
<1>11. Need(d) \in Nat /\ Need(d) = pgCount(SizeOf[d]) BY DataAssumption, CountIs DEF Need
<1> HIDE DEF g, pg, c
<1>12. File(d) \in Content /\ EMPTY \in Content BY ContentIs
<1>13. Store!Fits(n, File(d)) <=> Need(d) <= c
  BY <1>9, <1>11, <1>12 DEF Store!Fits, File
<1>14. Files'[n] = readFile(m, Pending', n) BY <1>5 DEF Files
<1>15. ASSUME i \in InUse(m), m.fcb[i].fileName = n PROVE Files'[n] = ReadAt(m, Pending', i)
  <2>1. Hits(m, n) = {i} /\ arsfs_find(m, n) = i BY <1>5, <1>15, OnlyEntry
  <2> QED BY <1>14, <2>1, ReadIs
<1>16. Files'[n] = IF Store!Fits(n, File(d)) THEN File(d) ELSE EMPTY
  <2>1. CASE Need(d) <= c
    <3> DEFINE r == Filled(g, i, d, pg, Need(d))
               v == PagesWritten(d, pg, Need(d))
    <3>1. Does(n, r, v) /\ m = r BY <1>5, <1>8, <1>10, <2>1 DEF Does
    <3>2. pg \in [1 .. c -> FreePages(g)] BY <1>8 DEF g
    <3> HIDE DEF r
    <3>3. InUse(r) = InUse(g) BY <1>7, <1>8, <1>11, <2>1, <3>2, FilledOrder DEF r
    <3>4. r.fcb[i].fileName = g.fcb[i].fileName BY <1>7, <1>8, <1>11, <2>1, <3>2, FilledOrder DEF r
    <3>5. r.fcb[i].size = SizeOf[d] BY <1>7, <1>8, <1>11, <2>1, <3>2, FilledOrder DEF r
    <3>6. \A k \in 1 .. Need(d) : Nth(r, r.fcb[i].start, k - 1) = pg[k]
      BY <1>7, <1>8, <1>11, <2>1, <3>2, FilledOrder DEF r
    <3>7. /\ v \in Seq(PageWrite) /\ Distinct(v) /\ Len(v) = Need(d)
          /\ \A k \in 1 .. Len(v) : v[k].chunk = <<d, k>>
          /\ \A k \in 1 .. Need(d) : v[k].page = pg[k]
      BY <1>8, <1>11, <2>1, WritesFit, ZenonT(40) DEF pg
    <3> HIDE DEF v
    <3>8. \A k \in 1 .. Len(v) : Pending'[v[k].page] = v[k].chunk
      BY <1>1, <3>1, <3>7, OperationPending
    <3> DEFINE b == Pending'
    <3>9. \A k \in 1 .. Need(d) : b[pg[k]] = <<d, k>> BY <3>7, <3>8
    <3>10. 1 .. Need(d) \subseteq 1 .. c BY <1>8, <1>11, <2>1
    <3>11. \A k \in 1 .. Need(d) : pg[k] \in Page BY <1>8, <3>10
    <3> HIDE DEF b
    <3>12. ReadAt(r, b, i) = File(d)
      <4>1. \A k \in 1 .. Need(d) : /\ Nth(r, r.fcb[i].start, k - 1) \in Page
                                    /\ b[Nth(r, r.fcb[i].start, k - 1)] = <<d, k>>
        BY <3>6, <3>9, <3>11
      <4>2. r \in Metadata BY <1>5, <3>1
      <4> QED BY <1>1, <3>5, <4>1, <4>2, FullRead
    <3> QED BY <1>7, <1>13, <1>15, <2>1, <3>1, <3>3, <3>4, <3>12 DEF b
  <2>2. CASE ~(Need(d) <= c)
    <3>1. m = g BY <1>5, <1>8, <1>10, <2>2 DEF Does
    <3>2. ReadAt(m, Pending', i) = EMPTY BY <1>1, <1>5, <1>7, <3>1, EmptyRead
    <3> QED BY <1>7, <1>13, <1>15, <2>2, <3>1, <3>2
  <2> QED BY <2>1, <2>2
<1>17. Files'[n] \in Content BY <1>12, <1>16
<1>18. /\ Files' = [Files EXCEPT ![n] = Files'[n]] /\ up'
       /\ \A j \in InUse(meta)' : meta'.fcb[j].fileName \in Name
       /\ \A o \in Name : Hits(meta, o)' # {} => Files'[o] \in Content
  BY <1>4, <1>17, OneFileChanges
<1>19. n \in Store!Stored
  <2>1. Exact(meta) BY <1>1 DEF Exact
  <2>2. Hits(meta, n) = {i} BY <2>1, OnlyEntry
  <2> QED BY <2>2, StoredIs
<1>20. Store!Write(n, File(d)) BY <1>16, <1>18, <1>19 DEF Store!Write
<1> QED BY <1>12, <1>18, <1>20 DEF FileStep, Store!Next

LEMMA OperationStep == ASSUME FileInv, Operation PROVE FileStep
<1>1. CASE format BY <1>1, FormatStep DEF format, Does, Ready
<1>2. ASSUME NEW n \in Name, createFile(n) PROVE FileStep
  <2> DEFINE i == Least(FreeSlots(meta))
             m == [meta EXCEPT !.fcb[i] = EmptyFcb(n)]
  <2>1. Hits(meta, n) = {} /\ FreeSlots(meta) # {} /\ Does(n, m, <<>>) BY <1>2 DEF createFile
  <2>2. i \in FreeSlots(meta)
    <3>1. FreeSlots(meta) \subseteq Slot BY DEF FreeSlots
    <3> QED BY <2>1, <3>1, LeastSlot
  <2> HIDE DEF i
  <2>3. IsCreated(m, n, i) BY DEF IsCreated
  <2> HIDE DEF m
  <2> QED BY <2>1, <2>2, <2>3, CreateStep
<1>3. ASSUME NEW n \in Name, createFileAt(n, 0) PROVE FileStep
  <2> DEFINE c == arsfs_find(meta, n)
  <2>1. 0 \in FreeSlots(meta) BY <1>3 DEF createFileAt
  <2>2. CASE c = -1
    <3> DEFINE m == [meta EXCEPT !.fcb = [meta.fcb EXCEPT ![0] = EmptyFcb(n)]]
    <3>1. Hits(meta, n) = {} BY <2>2, FindIs
    <3>2. Does(n, m, <<>>) /\ IsCreated(m, n, 0) BY <1>3, <2>2 DEF createFileAt, IsCreated
    <3> HIDE DEF m
    <3> QED BY <2>1, <3>1, <3>2, CreateStep
  <2>3. CASE c # -1
    <3> DEFINE m == [meta EXCEPT !.fcb = [meta.fcb EXCEPT ![0] = meta.fcb[c], ![c] = NoFcb]]
    <3>1. c \in InUse(meta) /\ meta.fcb[c].fileName = n BY <2>3, Found
    <3>2. Does(n, m, <<>>) /\ IsMoved(m, c, 0) BY <1>3, <2>3 DEF createFileAt, IsMoved
    <3> HIDE DEF m, c
    <3> QED BY <2>1, <3>1, <3>2, MoveStep
  <2> QED BY <2>2, <2>3
<1>4. ASSUME NEW n \in Name, delFile(n) PROVE FileStep
  <2> DEFINE i == arsfs_find(meta, n)
             m == [pgFreeChain(meta, meta.fcb[i].start) EXCEPT !.fcb[i] = NoFcb]
  <2>1. i # -1 /\ Does(n, m, <<>>) /\ IsDeleted(m, i) BY <1>4 DEF delFile, IsDeleted
  <2>2. i \in InUse(meta) /\ meta.fcb[i].fileName = n BY <2>1, Found
  <2> HIDE DEF i, m
  <2> QED BY <2>1, <2>2, DeleteStep
<1>5. ASSUME NEW n \in Name, NEW d \in Data, writeFile(n, d) PROVE FileStep
  <2> DEFINE i == arsfs_find(meta, n)
  <2>1. i # -1 /\ writeFileAt(n, i, d) BY <1>5 DEF writeFile
  <2>2. i \in InUse(meta) /\ meta.fcb[i].fileName = n BY <2>1, Found
  <2> HIDE DEF i
  <2> QED BY <2>1, <2>2, WriteStep
<1> QED BY <1>1, <1>2, <1>3, <1>4, <1>5 DEF Operation

\* A step that changes neither the metadata nor any file.
LEMMA QuietStep ==
  ASSUME FileInv, meta' = meta, Files' = Files, up'
  PROVE  FileStep
<1>1. \A o \in Name : Hits(meta, o)' = Hits(meta, o) BY DEF Hits, InUse
<1>2. InUse(meta)' = InUse(meta) BY DEF InUse
<1> QED BY <1>1, <1>2 DEF FileInv, FileStep

LEMMA FilesInit == Init => FileInv /\ Store!Init
<1> SUFFICES ASSUME Init PROVE FileInv /\ Store!Init OBVIOUS
<1>1. Inv(TRUE)
  <2>1. \A x \in BOOLEAN : Inv(x) BY InitInv
  <2> QED BY <2>1
<1>2. meta = Blank /\ flash.meta = ERASED BY DEF Init
<1>3. InUse(meta) = {} BY <1>2 DEF InUse, Blank, NoFcb
<1>4. \A n \in Name : Hits(meta, n) = {} BY <1>3 DEF Hits
<1>5. \A n \in Name : readFile(meta, Pending, n) = ABSENT BY <1>4, ReadIs
<1>6. Files = [n \in Name |-> ABSENT] BY <1>5 DEF Files
<1> QED BY <1>1, <1>2, <1>3, <1>4, <1>6 DEF FileInv, Store!Init

LEMMA FilesNext == FileInv /\ [Next]_vars => FileInv' /\ [Store!Next]_Files
<1> SUFFICES ASSUME FileInv, [Next]_vars PROVE FileInv' /\ [Store!Next]_Files OBVIOUS
<1>1. Inv(TRUE)'
  <2>1. \A x \in BOOLEAN : Inv(x) => Inv(x)' BY NextInv
  <2>2. Inv(TRUE) BY DEF FileInv
  <2> QED BY <2>1, <2>2
<1>2. Types /\ Queue BY DEF FileInv, Inv
<1>3. FileStep \/ UNCHANGED vars
  <2>1. CASE Operation BY <2>1, OperationStep
  <2>2. CASE Erase
    <3>1. meta' = meta /\ up' BY <1>2, <2>2 DEF Erase, Queue
    <3> QED BY <1>2, <2>2, <3>1, EraseKeepsFiles, QuietStep
  <2>3. CASE Program
    <3>1. meta' = meta /\ up' BY <1>2, <2>3 DEF Program, Queue
    <3> QED BY <1>2, <2>3, <3>1, ProgramKeepsFiles, QuietStep
  <2>4. CASE arsfs_init
    <3>1. meta' = Blank /\ up' BY <2>4 DEF arsfs_init, FileInv
    <3> QED BY <3>1, FormatStep
  <2> QED BY <2>1, <2>2, <2>3, <2>4 DEF Next
<1>4. CASE FileStep BY <1>1, <1>4 DEF FileInv, FileStep
<1>5. CASE UNCHANGED vars
  <2>1. Files' = Files BY <1>5 DEF vars, Files, Pending
  <2>2. FileInv' BY <1>1, <1>5, <2>1 DEF FileInv, vars, Hits, InUse
  <2> QED BY <2>1, <2>2
<1> QED BY <1>3, <1>4, <1>5

\* While the power stays on, the disk implements a table of files: whatever is created,
\* moved, overwritten, deleted or refused, and however its writes reach the flash,
\* reading a file gives the last contents written, and a write that fits never fails.
THEOREM DiskIsFileStore == Spec => IsFileStore
<1>1. Init => FileInv /\ Store!Init BY FilesInit
<1>2. FileInv /\ [Next]_vars => FileInv' /\ [Store!Next]_Files BY FilesNext
<1> QED BY <1>1, <1>2, PTL DEF Spec, IsFileStore, Store!Spec
=============================================================================
