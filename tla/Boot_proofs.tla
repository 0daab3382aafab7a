----------------------------- MODULE Boot_proofs -----------------------------
(***************************************************************************)
(* Theorems about Boot, for any names, any demos and contents, any size of *)
(* the directory and the disk.                                             *)
(***************************************************************************)
EXTENDS Boot, ARSFS_proofs

-----------------------------------------------------------------------------
(***************************************************************************)
(* The operations, one by one.                                             *)
(***************************************************************************)
LEMMA CreateIs ==
  ASSUME NEW n \in Name, createFile(n)
  PROVE  /\ Ready /\ Hits(meta, n) = {} /\ Does(n, meta', <<>>)
         /\ \E i \in FreeSlots(meta) : IsCreated(meta', n, i) /\ \A j \in FreeSlots(meta) : i <= j
<1> DEFINE i == Least(FreeSlots(meta))
           m == [meta EXCEPT !.fcb[i] = EmptyFcb(n)]
<1>1. Hits(meta, n) = {} /\ FreeSlots(meta) # {} /\ Does(n, m, <<>>) BY DEF createFile
<1>2. i \in FreeSlots(meta) /\ \A j \in FreeSlots(meta) : i <= j
  <2>1. FreeSlots(meta) \subseteq Slot BY DEF FreeSlots
  <2> QED BY <1>1, <2>1, LeastSlot
<1> HIDE DEF i
<1>3. IsCreated(m, n, i) BY DEF IsCreated
<1> HIDE DEF m
<1>4. meta' = m /\ Ready BY <1>1 DEF Does
<1> QED BY <1>1, <1>2, <1>3, <1>4

LEMMA CreateAtIs ==
  ASSUME NEW n \in Name, createFileAt(n, 0)
  PROVE  /\ Ready /\ 0 \in FreeSlots(meta) /\ Does(n, meta', <<>>)
         /\ \/ Hits(meta, n) = {} /\ IsCreated(meta', n, 0)
            \/ /\ arsfs_find(meta, n) \in InUse(meta)
               /\ meta.fcb[arsfs_find(meta, n)].fileName = n
               /\ IsMoved(meta', arsfs_find(meta, n), 0)
<1> DEFINE c == arsfs_find(meta, n)
<1>1. 0 \in FreeSlots(meta) BY DEF createFileAt
<1>2. CASE c = -1
  <2> DEFINE m == [meta EXCEPT !.fcb = [meta.fcb EXCEPT ![0] = EmptyFcb(n)]]
  <2>1. Hits(meta, n) = {} BY <1>2, FindIs
  <2>2. Does(n, m, <<>>) BY <1>2 DEF createFileAt
  <2>3. IsCreated(m, n, 0) BY DEF IsCreated
  <2> HIDE DEF m
  <2>4. meta' = m /\ Ready BY <2>2 DEF Does
  <2> QED BY <1>1, <2>1, <2>2, <2>3, <2>4
<1>3. CASE c # -1
  <2> DEFINE m == [meta EXCEPT !.fcb = [meta.fcb EXCEPT ![0] = meta.fcb[c], ![c] = NoFcb]]
  <2>1. c \in InUse(meta) /\ meta.fcb[c].fileName = n BY <1>3, Found
  <2>2. Does(n, m, <<>>) BY <1>3 DEF createFileAt
  <2>3. IsMoved(m, c, 0) BY DEF IsMoved
  <2> HIDE DEF m
  <2>4. meta' = m /\ Ready BY <2>2 DEF Does
  <2> QED BY <1>1, <2>1, <2>2, <2>3, <2>4
<1> QED BY <1>2, <1>3

\* A file that was created: one entry more, of an empty file.
LEMMA CreatedFacts ==
  ASSUME meta \in Metadata, NEW n \in Name, NEW i \in FreeSlots(meta), NEW m, IsCreated(m, n, i)
  PROVE  /\ i \in Slot \ InUse(meta) /\ m.nextPg = meta.nextPg /\ FreePages(m) = FreePages(meta)
         /\ m.fcb[i] = EmptyFcb(n) /\ \A j \in Slot \ {i} : m.fcb[j] = meta.fcb[j]
         /\ InUse(m) = InUse(meta) \cup {i} /\ i \in Hits(m, n)
<1>1. meta.fcb \in [Slot -> FcbType] /\ i \in Slot \ InUse(meta)
  BY EntryFacts DEF FreeSlots
<1>2. /\ m.nextPg = meta.nextPg /\ m.fcb[i] = EmptyFcb(n)
      /\ \A j \in Slot \ {i} : m.fcb[j] = meta.fcb[j]
  BY <1>1 DEF IsCreated, Metadata
<1>3. InUse(m) = InUse(meta) \cup {i} BY <1>1, <1>2, MarkAssumption DEF InUse, EmptyFcb
<1>4. i \in Hits(m, n) BY <1>1, <1>2, <1>3 DEF Hits, EmptyFcb
<1> QED BY <1>1, <1>2, <1>3, <1>4 DEF FreePages

\* A file that was moved: its entry is elsewhere, and all else as it was.
LEMMA MovedFacts ==
  ASSUME meta \in Metadata, NEW c \in InUse(meta), NEW i \in FreeSlots(meta), NEW m, IsMoved(m, c, i)
  PROVE  /\ i \in Slot \ InUse(meta) /\ c \in Slot \ {i}
         /\ m.nextPg = meta.nextPg /\ FreePages(m) = FreePages(meta)
         /\ m.fcb[i] = meta.fcb[c] /\ m.fcb[c] = NoFcb
         /\ \A j \in Slot \ {i, c} : m.fcb[j] = meta.fcb[j]
         /\ InUse(m) = (InUse(meta) \ {c}) \cup {i} /\ i \in Hits(m, meta.fcb[c].fileName)
<1>1. meta.fcb \in [Slot -> FcbType] /\ i \in Slot \ InUse(meta) /\ c \in Slot \ {i}
  BY EntryFacts DEF FreeSlots, InUse
<1>2. /\ m.nextPg = meta.nextPg /\ m.fcb[i] = meta.fcb[c] /\ m.fcb[c] = NoFcb
      /\ \A j \in Slot \ {i, c} : m.fcb[j] = meta.fcb[j]
  <2> DEFINE g == [meta.fcb EXCEPT ![i] = meta.fcb[c], ![c] = NoFcb]
  <2>1. m.nextPg = meta.nextPg /\ m.fcb = g BY <1>1 DEF Metadata, IsMoved
  <2> QED BY <1>1, <2>1
<1>3. InUse(m) = (InUse(meta) \ {c}) \cup {i} BY <1>1, <1>2 DEF InUse, NoFcb
<1>4. i \in Hits(m, meta.fcb[c].fileName) BY <1>1, <1>2, <1>3 DEF Hits
<1> QED BY <1>1, <1>2, <1>3, <1>4 DEF FreePages

\* A file that was written: the free pages its old contents left were enough, and it
\* holds the new contents in the first of them, or they were not and it is empty.
LEMMA WrittenFacts ==
  ASSUME NEW x \in BOOLEAN, Inv(x), NEW n \in Name, NEW d \in Data, writeFile(n, d)
  PROVE  LET i    == arsfs_find(meta, n)
             free == FreePages(Gone(meta, i))
             c    == Cardinality(free)
         IN  /\ Ready /\ i \in InUse(meta) /\ meta.fcb[i].fileName = n
             /\ meta' \in Metadata /\ InUse(meta') = InUse(meta)
             /\ \A j \in Slot : meta'.fcb[j].fileName = meta.fcb[j].fileName
             /\ \A j \in Slot \ {i} : meta'.fcb[j] = meta.fcb[j]
             /\ c \in Nat /\ Need(d) \in Nat
             /\ Need(d) <= c =>
                  /\ Files'[n] = File(d) /\ meta'.fcb[i].size = SizeOf[d]
                  /\ ChainOf(meta', i) = {Ascending(free)[k] : k \in 1 .. Need(d)}
                  /\ FreePages(meta') = free \ ChainOf(meta', i)
                  /\ Need(d) > 0 => meta'.fcb[i].start = Ascending(free)[1]
                  /\ Does(n, meta', PagesWritten(d, Ascending(free), Need(d)))
             /\ c < Need(d) => Files'[n] = EMPTY /\ meta' = Gone(meta, i)
<1> DEFINE i == arsfs_find(meta, n)
           g == Gone(meta, i)
           free == FreePages(g)
           pg == Ascending(free)
           c == Cardinality(free)
<1>1. Order(meta, x) /\ Types /\ Queue BY DEF Inv, OrderBoth
<1>2. i # -1 /\ writeFileAt(n, i, d) BY DEF writeFile
<1>3. i \in InUse(meta) /\ meta.fcb[i].fileName = n /\ i \in Slot
  BY <1>2, Found DEF InUse
<1> HIDE DEF i
<1>4. PICK m : \E w : Does_orderly(x, n, m, w)
  <2>1. \E m, w : Does_orderly(x, n, m, w) BY <1>1, <1>2, <1>3, WrittenDoes
  <2> QED BY <2>1
<1>5. Order(m, x) /\ meta' = m /\ m \in Metadata /\ Ready
  <2>1. Order(m, x) /\ meta' = m /\ Ready BY <1>4 DEF Does_orderly, Does
  <2> QED BY <2>1 DEF Order
<1>6. /\ Order(g, x) /\ InUse(g) = InUse(meta) /\ g.fcb[i].start = EOF_PG
      /\ g.fcb[i].fileName = n /\ g.fcb[i].size = 0
      /\ \A j \in Slot \ {i} : g.fcb[j] = meta.fcb[j]
  <2> HIDE DEF g
  <2>1. Order(g, x) /\ InUse(g) = InUse(meta) BY <1>1, <1>3, GoneOrder DEF g
  <2>2. g.fcb[i] = [fileName |-> meta.fcb[i].fileName, start |-> EOF_PG, size |-> 0]
    BY <1>1, <1>3, GoneOrder DEF g
  <2>3. \A j \in Slot \ {i} : g.fcb[j] = meta.fcb[j] BY <1>1, <1>3, GoneOrder, ZenonT(40) DEF g
  <2> QED BY <1>3, <2>1, <2>2, <2>3
<1>7. /\ c \in Nat /\ pg \in [1 .. c -> free] /\ Len(pg) = c /\ free \subseteq Page
      /\ \A j, k \in 1 .. c : j # k => pg[j] # pg[k]
  <2>1. free \subseteq Page BY DEF FreePages
  <2> QED BY <2>1, AscendingIs
<1>8. IF Need(d) <= Len(pg) THEN Does(n, Filled(g, i, d, pg, Need(d)), PagesWritten(d, pg, Need(d)))
      ELSE Does(n, g, PagesWritten(d, pg, Len(pg)))
  BY <1>2, WriteIs
<1>9. Need(d) \in Nat BY DataAssumption, CountIs DEF Need
<1> HIDE DEF g, pg, c
<1>10. Files'[n] = readFile(m, Pending', n) BY <1>5 DEF Files
<1>11. ASSUME InUse(m) = InUse(meta), \A j \in Slot : m.fcb[j].fileName = meta.fcb[j].fileName
       PROVE  Files'[n] = ReadAt(m, Pending', i)
  <2>1. Hits(m, n) = Hits(meta, n) BY <1>11 DEF Hits, InUse
  <2>2. arsfs_find(m, n) = i BY <2>1 DEF arsfs_find, i
  <2>3. Hits(m, n) # {} BY <1>3, <2>1 DEF Hits
  <2> QED BY <1>10, <2>2, <2>3, ReadIs
<1>12. CASE Need(d) <= c
  <2> DEFINE r == Filled(g, i, d, pg, Need(d))
             v == PagesWritten(d, pg, Need(d))
  <2>1. Does(n, r, v) /\ m = r BY <1>5, <1>7, <1>8, <1>12 DEF Does
  <2>2. pg \in [1 .. c -> FreePages(g)] /\ i \in InUse(g) BY <1>3, <1>6, <1>7 DEF g
  <2> HIDE DEF r
  <2>3. InUse(r) = InUse(g) BY <1>6, <1>7, <1>9, <1>12, <2>2, FilledOrder DEF r
  <2>4. r.fcb[i].fileName = g.fcb[i].fileName BY <1>6, <1>7, <1>9, <1>12, <2>2, FilledOrder DEF r
  <2>5. r.fcb[i].size = SizeOf[d] BY <1>6, <1>7, <1>9, <1>12, <2>2, FilledOrder DEF r
  <2>6. \A k \in 1 .. Need(d) : Nth(r, r.fcb[i].start, k - 1) = pg[k]
    BY <1>6, <1>7, <1>9, <1>12, <2>2, FilledOrder DEF r
  <2>7. \A j \in Slot \ {i} : r.fcb[j] = g.fcb[j]
    BY <1>6, <1>7, <1>9, <1>12, <2>2, FilledOrder DEF r
  <2>8. ChainOf(r, i) = {pg[k] : k \in 1 .. Need(d)}
    BY <1>6, <1>7, <1>9, <1>12, <2>2, FilledOrder DEF r
  <2>9. /\ v \in Seq(PageWrite) /\ Distinct(v) /\ Len(v) = Need(d)
        /\ \A k \in 1 .. Len(v) : v[k].chunk = <<d, k>>
        /\ \A k \in 1 .. Need(d) : v[k].page = pg[k]
    BY <1>7, <1>9, <1>12, WritesFit DEF pg
  <2> HIDE DEF v
  <2>10. \A k \in 1 .. Len(v) : Pending'[v[k].page] = v[k].chunk
    BY <1>1, <2>1, <2>9, OperationPending
  <2> DEFINE b == Pending'
  <2>11. \A k \in 1 .. Need(d) : b[pg[k]] = <<d, k>> BY <2>9, <2>10
  <2>12. \A k \in 1 .. Need(d) : pg[k] \in Page
    <3>1. 1 .. Need(d) \subseteq 1 .. c BY <1>7, <1>9, <1>12
    <3> QED BY <1>7, <3>1
  <2> HIDE DEF b
  <2>13. ReadAt(r, b, i) = File(d)
    <3>1. \A k \in 1 .. Need(d) : /\ Nth(r, r.fcb[i].start, k - 1) \in Page
                                  /\ b[Nth(r, r.fcb[i].start, k - 1)] = <<d, k>>
      BY <2>6, <2>11, <2>12
    <3>2. r \in Metadata BY <1>5, <2>1
    <3> QED BY <1>3, <2>5, <3>1, <3>2, FullRead
  <2>14. /\ InUse(m) = InUse(meta)
         /\ \A j \in Slot : m.fcb[j].fileName = meta.fcb[j].fileName
         /\ \A j \in Slot \ {i} : m.fcb[j] = meta.fcb[j]
    BY <1>3, <1>6, <2>1, <2>3, <2>4, <2>7
  <2>15. Files'[n] = File(d) BY <1>11, <2>1, <2>13, <2>14 DEF b
  <2>16. FreePages(r) = free \ {pg[k] : k \in 1 .. Need(d)}
    BY <1>6, <1>7, <1>9, <1>12, <2>2, FilledOrder DEF r, g
  <2>17. Need(d) > 0 => r.fcb[i].start = pg[1]
    <3> SUFFICES ASSUME Need(d) > 0 PROVE r.fcb[i].start = pg[1] OBVIOUS
    <3>1. 1 \in 1 .. Need(d) /\ 1 - 1 = 0 BY <1>9
    <3>2. Nth(r, r.fcb[i].start, 0) = pg[1] BY <2>6, <3>1
    <3>3. Links(r) /\ r.fcb[i].start \in Place BY <1>3, <1>5, <2>1, EntryFacts
    <3> QED BY <3>2, <3>3, NthFacts
  <2> QED BY <1>3, <1>5, <1>7, <1>9, <1>12, <2>1, <2>5, <2>8, <2>14, <2>15, <2>16, <2>17
          DEF i, g, c, pg, v
<1>13. CASE ~(Need(d) <= c)
  <2>1. m = g BY <1>5, <1>7, <1>8, <1>13 DEF Does
  <2>2. ReadAt(m, Pending', i) = EMPTY BY <1>3, <1>5, <1>6, <2>1, EmptyRead
  <2>3. /\ InUse(m) = InUse(meta)
        /\ \A j \in Slot : m.fcb[j].fileName = meta.fcb[j].fileName
        /\ \A j \in Slot \ {i} : m.fcb[j] = meta.fcb[j]
    BY <1>3, <1>6, <2>1
  <2>4. Files'[n] = EMPTY BY <1>11, <2>2, <2>3
  <2> QED BY <1>3, <1>5, <1>7, <1>9, <1>13, <2>1, <2>3, <2>4 DEF i, g, c
<1> QED BY <1>12, <1>13

-----------------------------------------------------------------------------
(***************************************************************************)
(* What ARS_provision does, in order.                                      *)
(***************************************************************************)
Steps == [does : {"createFile", "createFileAt", "writeFile"}, name : Ours]

LEMMA OursIs ==
  /\ Ours \subseteq Name /\ SCHEDULE \in Ours
  /\ \A k \in 1 .. Len(Demo) : Demo[k] \in Ours
  /\ \A n \in Ours : n = SCHEDULE \/ \E k \in 1 .. Len(Demo) : n = Demo[k]
  /\ Len(Demo) \in Nat /\ \A n \in Ours : Factory[n] \in Data /\ Need(Factory[n]) \in Nat
  /\ Need(Factory[SCHEDULE]) > 0
<1>1. /\ Demo \in Seq(Name) /\ SCHEDULE \in Name
      /\ Factory \in [{Demo[k] : k \in DOMAIN Demo} \cup {SCHEDULE} -> Data]
      /\ SizeOf[Factory[SCHEDULE]] > 0
  BY FactoryAssumption
<1>2. DOMAIN Demo = 1 .. Len(Demo) /\ Len(Demo) \in Nat BY <1>1
<1>3. Ours = {Demo[k] : k \in 1 .. Len(Demo)} \cup {SCHEDULE} BY <1>1, <1>2 DEF Ours
<1>4. \A k \in 1 .. Len(Demo) : Demo[k] \in Name BY <1>1
<1>5. ASSUME NEW n \in Ours PROVE Factory[n] \in Data /\ Need(Factory[n]) \in Nat
  <2>1. Factory[n] \in Data BY <1>1, <1>2, <1>3
  <2> QED BY <2>1, DataAssumption, CountIs DEF Need
<1>6. Need(Factory[SCHEDULE]) > 0
  <2> DEFINE z == SizeOf[Factory[SCHEDULE]]
  <2>1. z \in Nat /\ z > 0 BY <1>1, <1>3, <1>5, DataAssumption
  <2> HIDE DEF z
  <2>2. PG \in Nat /\ PG > 0 BY GeometryAssumption
  <2>3. (z + PG - 1) \div PG > 0
    <3>1. z + PG - 1 = PG + (z - 1) /\ z - 1 \in Nat BY <2>1, <2>2
    <3>2. z + PG - 1 >= PG /\ z + PG - 1 \in Nat BY <3>1, <2>2
    <3> QED BY <2>2, <3>2
  <2> QED BY <2>1, <2>3 DEF Need, pgCount, z
<1>7. Ours \subseteq Name BY <1>1, <1>3, <1>4
<1>8. \A n \in Ours : n = SCHEDULE \/ \E k \in 1 .. Len(Demo) : n = Demo[k] BY <1>3
<1>9. SCHEDULE \in Ours /\ \A k \in 1 .. Len(Demo) : Demo[k] \in Ours BY <1>3
<1> QED BY <1>2, <1>5, <1>6, <1>7, <1>8, <1>9

\* The demos, each created and then written.
LaidSoFar(h, k) ==
  /\ Len(h) = 2 * k
  /\ \A j \in 1 .. k : h[2 * j - 1] = Step("createFile", Demo[j]) /\ h[2 * j] = Step("writeFile", Demo[j])

LEMMA LaidStep ==
  ASSUME NEW h \in Seq(Steps), NEW k \in Nat, k < Len(Demo), LaidSoFar(h, k)
  PROVE  h \o Laid(Demo[k + 1]) \in Seq(Steps) /\ LaidSoFar(h \o Laid(Demo[k + 1]), k + 1)
<1> DEFINE n == Demo[k + 1]
           g == h \o Laid(n)
           a == Step("createFile", n)
           b == Step("writeFile", n)
<1>1. n \in Ours BY OursIs
<1>2. a \in Steps /\ b \in Steps BY <1>1 DEF Steps, Step
<1> HIDE DEF n, a, b
<1>3. Laid(n) = <<a, b>> BY DEF Laid, a, b
<1>4. Laid(n) \in Seq(Steps) /\ Len(Laid(n)) = 2 /\ Laid(n)[1] = a /\ Laid(n)[2] = b
  BY <1>2, <1>3
<1>5. /\ g \in Seq(Steps) /\ Len(g) = Len(h) + 2
      /\ \A i \in 1 .. Len(h) + 2 : g[i] = IF i <= Len(h) THEN h[i] ELSE Laid(n)[i - Len(h)]
  <2>1. /\ h \o Laid(n) \in Seq(Steps) /\ Len(h \o Laid(n)) = Len(h) + Len(Laid(n))
        /\ \A i \in 1 .. Len(h) + Len(Laid(n)) :
             (h \o Laid(n))[i] = IF i <= Len(h) THEN h[i] ELSE Laid(n)[i - Len(h)]
    BY <1>4, ConcatProperties, Zenon
  <2> QED BY <1>4, <2>1
<1>6. Len(h) = 2 * k /\ Len(g) = 2 * (k + 1) BY <1>5 DEF LaidSoFar
<1> HIDE DEF g
<1>7. ASSUME NEW j \in 1 .. k + 1
      PROVE  g[2 * j - 1] = Step("createFile", Demo[j]) /\ g[2 * j] = Step("writeFile", Demo[j])
  <2>1. 2 * j \in 1 .. Len(h) + 2 /\ 2 * j - 1 \in 1 .. Len(h) + 2 BY <1>6
  <2>2. CASE j <= k
    <3>1. 2 * j <= Len(h) /\ 2 * j - 1 <= Len(h) /\ j \in 1 .. k BY <1>6, <2>2
    <3> QED BY <1>5, <2>1, <3>1 DEF LaidSoFar
  <2>3. CASE j = k + 1
    <3>1. 2 * j = Len(h) + 2 /\ 2 * j - 1 = Len(h) + 1 BY <1>6, <2>3
    <3>2. g[2 * j] = Laid(n)[2] /\ g[2 * j - 1] = Laid(n)[1] BY <1>5, <1>6, <2>1, <3>1
    <3> QED BY <1>4, <2>3, <3>2 DEF a, b, n
  <2> QED BY <2>2, <2>3
<1> QED BY <1>5, <1>6, <1>7 DEF g, n, LaidSoFar

LEMMA DemosAre == Demos \in Seq(Steps) /\ LaidSoFar(Demos, Len(Demo))
<1> DEFINE n == Len(Demo)
           H == Seq(Steps)
           P(f) == f = [k \in 0 .. n |-> IF k = 0 THEN <<>> ELSE f[k - 1] \o Laid(Demo[k])]
           laid == CHOOSE f : P(f)
           B == [p \in Nat \X H |-> p[2] \o Laid(Demo[p[1] + 1])]
           T == [k \in Nat |-> {h \in H : LaidSoFar(h, k)}]
<1>1. Demos = laid[n] BY DEF Demos
<1>2. n \in Nat BY OursIs
<1>3. \A k \in Nat, h \in H : B[<<k, h>>] = h \o Laid(Demo[k + 1]) OBVIOUS
<1>4. \A k \in Nat : T[k] = {h \in H : LaidSoFar(h, k)} OBVIOUS
<1>5. <<>> \in H OBVIOUS
<1> HIDE DEF B, T, n, laid
<1>6. LaidSoFar(<<>>, 0) BY DEF LaidSoFar
<1>7. ASSUME NEW k \in Nat, NEW h \in H, k < n, h \in T[k]
      PROVE  B[<<k, h>>] \in H /\ B[<<k, h>>] \in T[k + 1]
  <2>1. h \o Laid(Demo[k + 1]) \in H /\ LaidSoFar(h \o Laid(Demo[k + 1]), k + 1)
    <3>1. k < Len(Demo) /\ LaidSoFar(h, k) /\ h \in Seq(Steps) BY <1>4, <1>7 DEF n
    <3> QED BY <3>1, LaidStep
  <2>2. k + 1 \in Nat OBVIOUS
  <2> HIDE DEF H
  <2>3. B[<<k, h>>] = h \o Laid(Demo[k + 1]) BY <1>3
  <2>4. T[k + 1] = {g \in H : LaidSoFar(g, k + 1)} BY <1>4, <2>2
  <2> QED BY <2>1, <2>3, <2>4
<1> HIDE DEF H
<1>8. Stages(n, H, B, T, <<>>) BY <1>2, <1>4, <1>5, <1>6, <1>7 DEF Stages
<1>9. P(laid)
  <2>1. PICK f \in [0 .. n -> H] :
          f[0] = <<>> /\ \A k \in 1 .. n : f[k] = B[<<k - 1, f[k - 1]>>]
    BY <1>8, StagesExist
  <2>2. ASSUME NEW k \in 0 .. n, k # 0 PROVE f[k] = f[k - 1] \o Laid(Demo[k])
    <3>1. k \in 1 .. n /\ k - 1 \in Nat /\ k - 1 \in 0 .. n /\ (k - 1) + 1 = k BY <1>2, <2>2
    <3>2. f[k - 1] \in H BY <2>1, <3>1
    <3> QED BY <1>3, <2>1, <3>1, <3>2
  <2>3. P(f) BY <2>1, <2>2
  <2> HIDE DEF P
  <2> QED BY <2>3 DEF laid
<1>10. laid[0] = <<>> BY <1>2, <1>9
<1>11. ASSUME NEW k \in 1 .. n, laid[k - 1] \in H PROVE laid[k] = B[<<k - 1, laid[k - 1]>>]
  <2>1. k \in 0 .. n /\ k # 0 /\ k - 1 \in Nat /\ (k - 1) + 1 = k BY <1>2
  <2>2. laid[k] = laid[k - 1] \o Laid(Demo[k]) BY <1>9, <2>1
  <2> HIDE DEF P
  <2> QED BY <1>3, <1>11, <2>1, <2>2
<1> HIDE DEF P
<1>12. \A k \in 0 .. n : laid[k] \in H /\ laid[k] \in T[k] BY <1>8, <1>10, <1>11, StagesHold
<1>13. n \in 0 .. n BY <1>2
<1> QED BY <1>1, <1>2, <1>4, <1>12, <1>13 DEF H, n

LEMMA ScriptIs ==
  LET len == 2 * Len(Demo) + 2 IN
  /\ Script \in Seq(Steps) /\ Len(Script) = len
  /\ Script[1] = Step("createFileAt", SCHEDULE)
  /\ \A k \in 1 .. Len(Demo) : /\ Script[2 * k] = Step("createFile", Demo[k])
                               /\ Script[2 * k + 1] = Step("writeFile", Demo[k])
  /\ Script[len] = Step("writeFile", SCHEDULE)
<1> DEFINE a == <<Step("createFileAt", SCHEDULE)>>
           b == <<Step("writeFile", SCHEDULE)>>
           n == Len(Demo)
<1>1. /\ a \in Seq(Steps) /\ Len(a) = 1 /\ a[1] = Step("createFileAt", SCHEDULE)
      /\ b \in Seq(Steps) /\ Len(b) = 1 /\ b[1] = Step("writeFile", SCHEDULE)
  <2>1. Step("createFileAt", SCHEDULE) \in Steps /\ Step("writeFile", SCHEDULE) \in Steps
    BY OursIs DEF Steps, Step
  <2> QED BY <2>1
<1>2. Script = (a \o Demos) \o b BY DEF Script
<1>3. n \in Nat /\ Demos \in Seq(Steps) /\ LaidSoFar(Demos, n) /\ Len(Demos) = 2 * n
  BY OursIs, DemosAre DEF LaidSoFar
<1> HIDE DEF a, b, n
<1>4. /\ a \o Demos \in Seq(Steps) /\ Len(a \o Demos) = 2 * n + 1
      /\ \A i \in 1 .. 2 * n + 1 : (a \o Demos)[i] = IF i <= 1 THEN a[i] ELSE Demos[i - 1]
  <2>1. /\ a \o Demos \in Seq(Steps) /\ Len(a \o Demos) = Len(a) + Len(Demos)
        /\ \A i \in 1 .. Len(a) + Len(Demos) :
             (a \o Demos)[i] = IF i <= Len(a) THEN a[i] ELSE Demos[i - Len(a)]
    BY <1>1, <1>3, ConcatProperties, Zenon
  <2> QED BY <1>1, <1>3, <2>1
<1>5. /\ Script \in Seq(Steps) /\ Len(Script) = 2 * n + 2
      /\ \A i \in 1 .. 2 * n + 2 :
           Script[i] = IF i <= 2 * n + 1 THEN (a \o Demos)[i] ELSE b[i - (2 * n + 1)]
  <2> DEFINE c == a \o Demos
  <2>1. c \in Seq(Steps) /\ Len(c) = 2 * n + 1 BY <1>4
  <2> HIDE DEF c
  <2>2. /\ c \o b \in Seq(Steps) /\ Len(c \o b) = Len(c) + Len(b)
        /\ \A i \in 1 .. Len(c) + Len(b) :
             (c \o b)[i] = IF i <= Len(c) THEN c[i] ELSE b[i - Len(c)]
    BY <1>1, <2>1, ConcatProperties, Zenon
  <2>3. Script = c \o b BY <1>2 DEF c
  <2>4. \A i \in 1 .. 2 * n + 2 : Script[i] = IF i <= 2 * n + 1 THEN c[i] ELSE b[i - (2 * n + 1)]
    BY <1>1, <1>3, <2>1, <2>2, <2>3
  <2> QED BY <1>1, <1>3, <2>1, <2>2, <2>3, <2>4 DEF c
<1>6. Script[1] = a[1] /\ Script[2 * n + 2] = b[1] BY <1>3, <1>4, <1>5
<1>7. ASSUME NEW k \in 1 .. n PROVE Script[2 * k] = Demos[2 * k - 1] /\ Script[2 * k + 1] = Demos[2 * k]
  <2>1. /\ 2 * k \in 1 .. 2 * n + 1 /\ 2 * k + 1 \in 1 .. 2 * n + 1
        /\ ~(2 * k <= 1) /\ ~(2 * k + 1 <= 1) /\ (2 * k + 1) - 1 = 2 * k
    BY <1>3
  <2>2. 2 * k \in 1 .. 2 * n + 2 /\ 2 * k + 1 \in 1 .. 2 * n + 2 BY <1>3
  <2> DEFINE c == a \o Demos
             i == 2 * k
             l == 2 * k + 1
  <2>7. i \in 1 .. 2 * n + 2 /\ l \in 1 .. 2 * n + 2 /\ i <= 2 * n + 1 /\ l <= 2 * n + 1
    BY <1>3, <2>1, <2>2
  <2>8. \A q \in 1 .. 2 * n + 2 : q <= 2 * n + 1 => Script[q] = c[q] BY <1>5
  <2> HIDE DEF c, i, l
  <2>9. Script[i] = c[i] /\ Script[l] = c[l] BY <2>7, <2>8
  <2>3. Script[2 * k] = (a \o Demos)[2 * k] BY <2>9 DEF i, c
  <2>4. Script[2 * k + 1] = (a \o Demos)[2 * k + 1] BY <2>9 DEF l, c
  <2>5. (a \o Demos)[2 * k] = Demos[2 * k - 1] BY <1>4, <2>1
  <2>6. (a \o Demos)[2 * k + 1] = Demos[2 * k] BY <1>4, <2>1
  <2> QED BY <2>3, <2>4, <2>5, <2>6
<1> QED BY <1>1, <1>3, <1>5, <1>6, <1>7 DEF n, LaidSoFar

-----------------------------------------------------------------------------
(***************************************************************************)
(* Where deferredBoot is, and that all it does, the host's commands and    *)
(* the outages included, are steps of the file system.                     *)
(***************************************************************************)
Steady ==
  /\ pc \in {"off", "probe", "lay", "load", "run"} /\ (pc = "off") = ~up
  /\ calm \in {0, 1, 2} /\ left \in Seq(Steps)
  /\ pc = "lay" => left # <<>> /\ left[Len(left)] = Step("writeFile", SCHEDULE)

\* A step of the script that is possible is one of three operations.
LEMMA LaidIs ==
  ASSUME NEW s \in Steps, Performs(s)
  PROVE  /\ s.name \in Name /\ Factory[s.name] \in Data
         /\ \/ s.does = "createFile" /\ createFile(s.name)
            \/ s.does = "createFileAt" /\ createFileAt(s.name, 0)
            \/ s.does = "writeFile" /\ writeFile(s.name, Factory[s.name])
<1>1. s.name \in Ours /\ s.does \in {"createFile", "createFileAt", "writeFile"} BY DEF Steps
<1>2. s.name \in Name /\ Factory[s.name] \in Data BY <1>1, OursIs
<1>3. CASE s.does = "createFile" BY <1>2, <1>3 DEF Performs
<1>4. CASE s.does = "createFileAt" BY <1>2, <1>4 DEF Performs
<1>5. CASE s.does = "writeFile" BY <1>2, <1>5 DEF Performs
<1> QED BY <1>1, <1>3, <1>4, <1>5

\* The steps that are left.
LEMMA LeftIs ==
  ASSUME Steady, pc = "lay"
  PROVE  /\ Head(left) \in Steps /\ Tail(left) \in Seq(Steps)
         /\ Tail(left) = <<>> => Head(left) = Step("writeFile", SCHEDULE)
         /\ Tail(left) # <<>> => Tail(left)[Len(Tail(left))] = Step("writeFile", SCHEDULE)
<1>1. left \in Seq(Steps) /\ left # <<>> /\ left[Len(left)] = Step("writeFile", SCHEDULE)
  BY DEF Steady
<1>2. /\ Len(left) \in Nat /\ Len(left) > 0 /\ Head(left) = left[1] /\ Tail(left) \in Seq(Steps)
      /\ Len(Tail(left)) = Len(left) - 1
      /\ \A k \in 1 .. Len(Tail(left)) : Tail(left)[k] = left[k + 1]
  BY <1>1, HeadTailProperties, EmptySeq
<1>3. Head(left) \in Steps BY <1>1, <1>2
<1>4. Tail(left) = <<>> => Len(left) = 1
  <2>1. Tail(left) = <<>> => Len(Tail(left)) = 0 BY <1>2, EmptySeq
  <2> QED BY <1>2, <2>1
<1>5. Tail(left) # <<>> => Len(Tail(left)) \in 1 .. Len(Tail(left))
  <2>1. Tail(left) # <<>> => Len(Tail(left)) # 0 BY <1>2, EmptySeq
  <2> QED BY <1>2, <2>1
<1>6. Tail(left) # <<>> => Tail(left)[Len(Tail(left))] = left[Len(left)] BY <1>2, <1>5
<1> QED BY <1>1, <1>2, <1>3, <1>4, <1>6

LEMMA StepsOfDisk ==
  ASSUME Steady, [BootNext]_bvars
  PROVE  [Next \/ PowerLoss]_vars
<1>1. CASE UNCHANGED bvars BY <1>1 DEF bvars
<1>2. CASE mount BY <1>2 DEF mount, Next
<1>3. CASE provision BY <1>3 DEF provision
<1>4. CASE layDown
  <2>1. pc = "lay" BY <1>4 DEF layDown
  <2>2. CASE Possible(Head(left))
    <3>1. Performs(Head(left)) /\ Head(left) \in Steps BY <1>4, <2>1, <2>2, LeftIs DEF layDown
    <3> QED BY <3>1, LaidIs DEF Next, Operation
  <2> QED BY <1>4, <2>2 DEF layDown
<1>5. CASE arssched_load
  <2>1. createFileAt(SCHEDULE, 0) \/ createFile(SCHEDULE) \/ UNCHANGED vars
    BY <1>5 DEF arssched_load, loadScheduleFile
  <2>2. SCHEDULE \in Name BY OursIs
  <2> QED BY <2>1, <2>2 DEF Next, Operation
<1>6. CASE Host
  <2>1. Uploads \subseteq Data /\ SCHEDULE \in Name BY FactoryAssumption
  <2>2. loadScheduleFile => [Next]_vars BY <2>1 DEF loadScheduleFile, Next, Operation
  <2> QED BY <1>6, <2>1, <2>2 DEF Host, Next, Operation
<1>7. CASE Device BY <1>7 DEF Device, Next
<1>8. CASE Outage BY <1>8 DEF Outage
<1> QED BY <1>1, <1>2, <1>3, <1>4, <1>5, <1>6, <1>7, <1>8 DEF BootNext

LEMMA SteadyInit == BootInit => Steady
<1> SUFFICES ASSUME BootInit PROVE Steady OBVIOUS
<1>1. <<>> \in Seq(Steps) OBVIOUS
<1> QED BY <1>1 DEF BootInit, Init, Steady

\* An operation keeps the disk mounted.
LEMMA StaysUp ==
  ASSUME Steady, pc # "off", Operation \/ Erase \/ Program \/ UNCHANGED vars
  PROVE  up'
<1>1. up = TRUE BY DEF Steady
<1>2. CASE Operation
  <2>1. \A n, m, w : Does(n, m, w) => up' = up BY DEF Does
  <2> SUFFICES up' = up BY <1>1
  <2>2. CASE format BY <2>1, <2>2 DEF format
  <2>3. ASSUME NEW n, createFile(n) PROVE up' = up BY <2>1, <2>3 DEF createFile
  <2>4. ASSUME NEW n, createFileAt(n, 0) PROVE up' = up BY <2>1, <2>4 DEF createFileAt
  <2>5. ASSUME NEW n, delFile(n) PROVE up' = up BY <2>1, <2>5 DEF delFile
  <2>6. ASSUME NEW n, NEW d, writeFile(n, d) PROVE up' = up
    <3> DEFINE i == arsfs_find(meta, n)
    <3>1. writeFileAt(n, i, d) BY <2>6 DEF writeFile
    <3> HIDE DEF i
    <3> QED BY <2>1, <3>1, WriteIs
  <2> QED BY <1>2, <2>2, <2>3, <2>4, <2>5, <2>6 DEF Operation
<1>3. CASE Erase BY <1>1, <1>3 DEF Erase
<1>4. CASE Program BY <1>1, <1>4 DEF Program
<1>5. CASE UNCHANGED vars BY <1>1, <1>5 DEF vars
<1> QED BY <1>2, <1>3, <1>4, <1>5

LEMMA SteadyNext == ASSUME Steady, [BootNext]_bvars PROVE Steady'
<1> USE DEF Steady
<1>1. CASE UNCHANGED bvars BY <1>1 DEF bvars, vars
<1>2. CASE mount BY <1>2 DEF mount, arsfs_init
<1>3. CASE provision
  <2>1. /\ Script \in Seq(Steps) /\ Script # <<>>
        /\ Script[Len(Script)] = Step("writeFile", SCHEDULE)
    BY ScriptIs, OursIs, EmptySeq
  <2> HIDE DEF Script, Step
  <2> QED BY <1>3, <2>1 DEF provision, vars, Ready
<1>4. CASE layDown
  <2>1. pc = "lay" BY <1>4 DEF layDown
  <2>2. up'
    <3>1. CASE Possible(Head(left))
      <4>1. Performs(Head(left)) /\ Head(left) \in Steps BY <1>4, <2>1, <3>1, LeftIs DEF layDown
      <4>2. Operation BY <4>1, LaidIs DEF Operation
      <4> QED BY <2>1, <4>2, StaysUp
    <3>2. CASE ~Possible(Head(left))
      <4>1. UNCHANGED vars BY <1>4, <3>2 DEF layDown
      <4> QED BY <2>1, <4>1, StaysUp
    <3> QED BY <3>1, <3>2
  <2>3. /\ left' = Tail(left) /\ pc' = IF Tail(left) = <<>> THEN "load" ELSE "lay"
        /\ UNCHANGED <<calm, harm>>
    BY <1>4 DEF layDown
  <2> QED BY <2>1, <2>2, <2>3, LeftIs
<1>5. CASE arssched_load
  <2>1. createFileAt(SCHEDULE, 0) \/ createFile(SCHEDULE) \/ UNCHANGED vars
    BY <1>5 DEF arssched_load, loadScheduleFile
  <2>2. SCHEDULE \in Name BY OursIs
  <2>3. Operation \/ UNCHANGED vars BY <2>1, <2>2 DEF Operation
  <2>4. up' BY <1>5, <2>3, StaysUp DEF arssched_load, loadScheduleFile
  <2> QED BY <1>5, <2>4 DEF arssched_load, loadScheduleFile
<1>6. CASE Host
  <2>1. Uploads \subseteq Data /\ SCHEDULE \in Name BY FactoryAssumption
  <2>a. loadScheduleFile => Operation \/ UNCHANGED vars BY <2>1 DEF loadScheduleFile, Operation
  <2>2. Operation \/ UNCHANGED vars BY <1>6, <2>1, <2>a DEF Host, Operation
  <2>3. up' BY <1>6, <2>2, StaysUp DEF Host
  <2> QED BY <1>6, <2>3 DEF Host
<1>7. CASE Device
  <2>1. up' = up BY <1>7 DEF Device, Erase, Program
  <2> QED BY <1>7, <2>1 DEF Device
<1>8. CASE Outage
  <2>1. <<>> \in Seq(Steps) OBVIOUS
  <2>2. up' = FALSE BY <1>8 DEF Outage, PowerLoss
  <2> QED BY <1>8, <2>1, <2>2 DEF Outage
<1> QED BY <1>1, <1>2, <1>3, <1>4, <1>5, <1>6, <1>7, <1>8 DEF BootNext

\* What the device does in whole is what the file system allows.
THEOREM BootUsesDisk == BootSpec => CrashSpec
<1>1. BootInit => Init BY DEF BootInit
<1>2. Steady /\ [BootNext]_bvars => Steady' BY SteadyNext
<1>3. Steady /\ [BootNext]_bvars => [Next \/ PowerLoss]_vars BY StepsOfDisk
<1> QED BY <1>1, <1>2, <1>3, SteadyInit, PTL DEF BootSpec, CrashSpec

-----------------------------------------------------------------------------
(***************************************************************************)
(* The schedule is healed.                                                 *)
(***************************************************************************)
Placed(m) == Hits(m, SCHEDULE) # {} \/ FreeSlots(m) = {}
Healed ==
  \/ ~Unreadable(Files[SCHEDULE])
  \/ ~Has(SCHEDULE) /\ FreeSlots(meta) = {}
  \/ Cardinality(FreePages(meta)) < Need(Factory[SCHEDULE])

\* One quiet start gives SCHEDULE its entry, the next its contents.
Quiet ==
  /\ calm >= 1 => IF pc = "off" THEN flash.meta # ERASED /\ Placed(flash.meta) ELSE Placed(meta)
  /\ (pc = "load" /\ calm >= 1) \/ (pc = "run" /\ calm = 2) => Healed
HealInv == Inv(FALSE) /\ Steady /\ Quiet

\* What the firmware writes can be read.
LEMMA FactoryReadable == ~Unreadable(File(Factory[SCHEDULE]))
<1> DEFINE d == Factory[SCHEDULE]
           f == File(d)
<1>1. d \in Data /\ Need(d) \in Nat /\ Need(d) > 0 BY OursIs
<1>2. f.pages = [k \in 1 .. Need(d) |-> <<d, k>>] BY DEF File, Need
<1> HIDE DEF f
<1>3. 1 \in DOMAIN f.pages /\ f.pages[1] = <<d, 1>> BY <1>1, <1>2
<1>4. <<d, 1>> \in Data \X (Nat \ {0}) BY <1>1
<1>5. <<d, 1>> # ERASED BY <1>4, MarkerAssumption
<1> QED BY <1>3, <1>5 DEF Unreadable, f

\* No operation of a start takes SCHEDULE's entry, or the last one while it has none.
LEMMA PlacedKept ==
  ASSUME NEW x \in BOOLEAN, Inv(x), Placed(meta), NEW n \in Name, NEW d \in Data,
         createFile(n) \/ createFileAt(n, 0) \/ writeFile(n, d)
  PROVE  Placed(meta)'
<1>1. meta \in Metadata BY DEF Inv, Types
<1>2. CASE createFile(n)
  <2>1. PICK i \in FreeSlots(meta) : IsCreated(meta', n, i) BY <1>2, CreateIs
  <2>2. PICK j : j \in Hits(meta, SCHEDULE) BY <2>1 DEF Placed
  <2>3. j \in Hits(meta', SCHEDULE)
    <3>1. j \in InUse(meta) /\ j \in Slot BY <2>2 DEF Hits, InUse
    <3>2. j # i /\ j \in InUse(meta') /\ meta'.fcb[j] = meta.fcb[j]
      BY <1>1, <2>1, <3>1, CreatedFacts
    <3> QED BY <2>2, <3>2 DEF Hits
  <2> QED BY <2>3 DEF Placed
<1>3. CASE createFileAt(n, 0)
  <2>1. /\ 0 \in FreeSlots(meta)
        /\ \/ IsCreated(meta', n, 0)
           \/ \E c \in InUse(meta) : IsMoved(meta', c, 0)
    BY <1>3, CreateAtIs
  <2>2. PICK j : j \in Hits(meta, SCHEDULE) BY <2>1 DEF Placed
  <2>3. j \in InUse(meta) /\ j \in Slot /\ meta.fcb[j].fileName = SCHEDULE
    BY <2>2 DEF Hits, InUse
  <2>4. CASE IsCreated(meta', n, 0)
    <3>1. j # 0 /\ j \in InUse(meta') /\ meta'.fcb[j] = meta.fcb[j]
      BY <1>1, <2>1, <2>3, <2>4, CreatedFacts
    <3> QED BY <2>3, <3>1 DEF Placed, Hits
  <2>5. ASSUME NEW c \in InUse(meta), IsMoved(meta', c, 0) PROVE Placed(meta)'
    <3>1. /\ 0 \in Hits(meta', meta.fcb[c].fileName)
          /\ InUse(meta') = (InUse(meta) \ {c}) \cup {0} /\ 0 \notin InUse(meta)
          /\ \A k \in Slot \ {0, c} : meta'.fcb[k] = meta.fcb[k]
      BY <1>1, <2>1, <2>5, MovedFacts
    <3>2. CASE j = c BY <2>3, <3>1, <3>2 DEF Placed
    <3>3. CASE j # c
      <4>1. j \in InUse(meta') /\ meta'.fcb[j] = meta.fcb[j] BY <2>3, <3>1, <3>3
      <4> QED BY <2>3, <4>1 DEF Placed, Hits
    <3> QED BY <3>2, <3>3
  <2> QED BY <2>1, <2>4, <2>5
<1>4. CASE writeFile(n, d)
  <2>1. InUse(meta') = InUse(meta) /\ \A j \in Slot : meta'.fcb[j].fileName = meta.fcb[j].fileName
    BY <1>4, WrittenFacts
  <2>2. Hits(meta', SCHEDULE) = Hits(meta, SCHEDULE) BY <2>1 DEF Hits, InUse
  <2> QED BY <2>1, <2>2 DEF Placed, FreeSlots
<1> QED BY <1>2, <1>3, <1>4

\* At rest the files are those of the flash's pages.
LEMMA AtRest ==
  ASSUME Types, Queue, todo = <<>>, NEW n \in Name
  PROVE  Files[n] = readFile(meta, flash.page, n)
<1>1. secBuf = NONE /\ flash.page \in [Page -> Chunk] BY DEF Types, Queue
<1>2. Pending = flash.page
  <2>1. \A p \in Page : Pending[p] = flash.page[p]
    <3>1. DOMAIN <<>> = {} OBVIOUS
    <3> QED BY <1>1, <3>1, PendingIs DEF Pend
  <2>2. Pending = [p \in Page |-> Pending[p]] BY DEF Pending
  <2> QED BY <1>1, <2>1, <2>2
<1> QED BY <1>2 DEF Files

\* A file that is moved reads as before.
LEMMA MovedRead ==
  ASSUME NEW x \in BOOLEAN, Inv(x), NEW n \in Name, NEW i \in FreeSlots(meta),
         arsfs_find(meta, n) \in InUse(meta), meta.fcb[arsfs_find(meta, n)].fileName = n,
         IsMoved(meta', arsfs_find(meta, n), i), Does(n, meta', <<>>)
  PROVE  Files'[n] = Files[n]
<1> DEFINE c == arsfs_find(meta, n)
           r == meta'
<1>1. /\ c \in InUse(meta) /\ meta.fcb[c].fileName = n /\ IsMoved(r, c, i)
      /\ meta \in Metadata /\ Order(meta, x) /\ Types /\ Queue
  BY DEF Inv, OrderBoth, Order
<1>2. Does_orderly(x, n, r, <<>>) BY <1>1, MovedDoes DEF IsMoved
<1>3. r \in Metadata /\ Order(r, x) BY <1>2 DEF Does_orderly, Order
<1> HIDE DEF c
<1>4. Files[n] = readFile(meta, Pending, n) /\ Files'[n] = readFile(r, Pending', n) BY DEF Files
<1> HIDE DEF r
<1>5. /\ i \in Slot \ InUse(meta) /\ c \in Slot \ {i} /\ r.nextPg = meta.nextPg
      /\ r.fcb[i] = meta.fcb[c] /\ \A j \in Slot \ {i, c} : r.fcb[j] = meta.fcb[j]
      /\ InUse(r) = (InUse(meta) \ {c}) \cup {i}
  BY <1>1, MovedFacts
<1>6. \A j \in InUse(meta) : j # c => meta.fcb[j].fileName # n
  BY <1>1, NamesAssumption DEF Order
<1>7. Hits(r, n) = {i}
  <2>1. \A j \in InUse(r) : j = i \/ (j \in InUse(meta) /\ j # c /\ r.fcb[j] = meta.fcb[j])
    BY <1>5 DEF InUse
  <2> QED BY <1>1, <1>5, <1>6, <2>1 DEF Hits
<1>8. arsfs_find(r, n) = i BY <1>7, FindIs DEF Hits
<1>9. Kept(meta, r, i, c) BY <1>1, <1>5 DEF Kept
<1> DEFINE a == Pending
           b == Pending'
<1>10. \A p \in ChainOf(meta, c) : a[p] = b[p]
  <2>1. ChainOf(meta, c) \subseteq Page BY <1>1, <1>5, ChainOfFacts
  <2>2. <<>> \in Seq(PageWrite) /\ Distinct(<<>>) /\ Len(<<>>) = 0 BY NoWrites
  <2>3. \A p \in Page : Pending'[p] = Pending[p]
    <3>1. PICK w \in Seq(PageWrite) : w = <<>> BY <2>2
    <3>2. Distinct(w) /\ Does(n, meta', w) /\ ~\E k \in 1 .. Len(w) : TRUE BY <2>2, <3>1
    <3>3. \A p \in Page : (\A k \in 1 .. Len(w) : w[k].page # p) => Pending'[p] = Pending[p]
      BY <1>1, <3>2, OperationPending
    <3> QED BY <3>2, <3>3
  <2> QED BY <2>1, <2>3
<1> HIDE DEF a, b
<1>11. ReadAt(meta, a, c) = ReadAt(r, b, i) BY <1>1, <1>3, <1>5, <1>9, <1>10, KeptRead
<1>12. Hits(meta, n) # {} BY <1>1 DEF Hits
<1> QED BY <1>4, <1>7, <1>8, <1>11, <1>12, ReadIs DEF a, b, c

LEMMA QuietInit == BootInit => HealInv
<1> SUFFICES ASSUME BootInit PROVE HealInv OBVIOUS
<1>1. Init /\ Steady /\ calm = 0 /\ pc = "off" BY SteadyInit DEF BootInit
<1>2. Inv(FALSE) BY <1>1, InitInv
<1>3. ~(calm >= 1) /\ ~(pc = "load") /\ ~(pc = "run")
  <2>1. ~(calm >= 1) BY <1>1, SMT
  <2> QED BY <1>1, <2>1
<1>4. Quiet BY <1>3 DEF Quiet
<1> QED BY <1>1, <1>2, <1>4 DEF HealInv

\* Where nothing changes but pc.
LEMMA SameFiles ==
  ASSUME UNCHANGED vars
  PROVE  Files' = Files /\ meta' = meta /\ flash' = flash /\ (Healed => Healed')
<1>1. meta' = meta /\ flash' = flash /\ todo' = todo /\ secBuf' = secBuf BY DEF vars
<1>2. Pending' = Pending BY <1>1, PendingIs
<1>3. Files' = Files BY <1>1, <1>2 DEF Files
<1>4. Hits(meta', SCHEDULE) = Hits(meta, SCHEDULE) /\ FreeSlots(meta') = FreeSlots(meta)
      /\ FreePages(meta') = FreePages(meta)
  BY <1>1
<1> QED BY <1>1, <1>3, <1>4 DEF Healed, Has

\* The last step of the script.
LEMMA HealedByScript ==
  ASSUME HealInv, layDown, Tail(left) = <<>>, calm >= 1
  PROVE  Healed'
<1> DEFINE F == Factory[SCHEDULE]
<1>1. Inv(FALSE) /\ Steady /\ Placed(meta) /\ pc = "lay" BY DEF HealInv, Quiet, layDown
<1>2. Head(left) = Step("writeFile", SCHEDULE) BY <1>1, LeftIs
<1>3. SCHEDULE \in Name /\ F \in Data BY OursIs
<1> DEFINE s == Head(left)
<1>7. s.does = "writeFile" /\ s.name = SCHEDULE BY <1>2 DEF Step
<1> HIDE DEF s
<1>4. Possible(s) <=> Has(SCHEDULE) BY <1>7 DEF Possible
<1>5. CASE Has(SCHEDULE)
  <2>1. Performs(s) BY <1>4, <1>5 DEF layDown, s
  <2>2. writeFile(SCHEDULE, F)
    <3>1. Performs(s) <=> writeFile(s.name, Factory[s.name]) BY <1>7 DEF Performs
    <3> QED BY <1>7, <2>1, <3>1
  <2> HIDE DEF F
  <2> DEFINE g == Gone(meta, arsfs_find(meta, SCHEDULE))
  <2>3. /\ Cardinality(FreePages(g)) \in Nat /\ Need(F) \in Nat
        /\ Need(F) <= Cardinality(FreePages(g)) => Files'[SCHEDULE] = File(F)
        /\ Cardinality(FreePages(g)) < Need(F) => meta' = g
    BY <1>1, <1>3, <2>2, WrittenFacts
  <2> HIDE DEF g
  <2>4. CASE Need(F) <= Cardinality(FreePages(g))
    <3>1. Files'[SCHEDULE] = File(F) BY <2>3, <2>4
    <3> QED BY <3>1, FactoryReadable DEF Healed, F
  <2>5. CASE ~(Need(F) <= Cardinality(FreePages(g)))
    <3>1. Cardinality(FreePages(g)) < Need(F) /\ meta' = g BY <2>3, <2>5
    <3> QED BY <3>1 DEF Healed, F
  <2> QED BY <2>4, <2>5
<1>6. CASE ~Has(SCHEDULE)
  <2>1. UNCHANGED vars BY <1>4, <1>6 DEF layDown, s
  <2>2. Healed BY <1>1, <1>6 DEF Healed, Placed, Has
  <2> QED BY <2>1, <2>2, SameFiles
<1> QED BY <1>5, <1>6

\* A schedule that is there is found, and one that is not gets an entry if there is one.
LEMMA PlacedByLoad == ASSUME HealInv, arssched_load PROVE Placed(meta)'
<1>1. SCHEDULE \in Name /\ meta \in Metadata BY OursIs DEF HealInv, Inv, Types
<1>2. CASE createFileAt(SCHEDULE, 0)
  <2>1. /\ 0 \in FreeSlots(meta)
        /\ \/ IsCreated(meta', SCHEDULE, 0)
           \/ /\ arsfs_find(meta, SCHEDULE) \in InUse(meta)
              /\ meta.fcb[arsfs_find(meta, SCHEDULE)].fileName = SCHEDULE
              /\ IsMoved(meta', arsfs_find(meta, SCHEDULE), 0)
    BY <1>1, <1>2, CreateAtIs
  <2>2. CASE IsCreated(meta', SCHEDULE, 0)
    <3>1. 0 \in Hits(meta', SCHEDULE) BY <1>1, <2>1, <2>2, CreatedFacts
    <3> QED BY <3>1 DEF Placed
  <2>3. CASE ~IsCreated(meta', SCHEDULE, 0)
    <3> DEFINE c == arsfs_find(meta, SCHEDULE)
    <3>1. c \in InUse(meta) /\ meta.fcb[c].fileName = SCHEDULE /\ IsMoved(meta', c, 0)
      BY <2>1, <2>3
    <3> HIDE DEF c
    <3>2. 0 \in Hits(meta', SCHEDULE) BY <1>1, <2>1, <3>1, MovedFacts
    <3> QED BY <3>2 DEF Placed
  <2> QED BY <2>2, <2>3
<1>3. CASE createFile(SCHEDULE)
  <2>1. PICK i \in FreeSlots(meta) : IsCreated(meta', SCHEDULE, i) BY <1>1, <1>3, CreateIs
  <2>2. i \in Hits(meta', SCHEDULE) BY <1>1, <2>1, CreatedFacts
  <2> QED BY <2>2 DEF Placed
<1>4. CASE UNCHANGED vars /\ ~(arsfs_find(meta, SCHEDULE) # 0 /\ 0 \in FreeSlots(meta))
           /\ ~Possible(Step("createFile", SCHEDULE))
  <2>1. Has(SCHEDULE) \/ FreeSlots(meta) = {} BY <1>4 DEF Possible, Step
  <2>2. meta' = meta BY <1>4 DEF vars
  <2> QED BY <2>1, <2>2 DEF Placed, Has
<1> QED BY <1>2, <1>3, <1>4 DEF arssched_load, loadScheduleFile

LEMMA HealedByLoad == ASSUME HealInv, arssched_load, calm >= 1 PROVE Healed'
<1>1. /\ Inv(FALSE) /\ Healed /\ SCHEDULE \in Name /\ meta \in Metadata /\ Types
      /\ Queue
  BY OursIs DEF HealInv, Inv, Types, Quiet, arssched_load, loadScheduleFile
<1>2. ASSUME Hits(meta, SCHEDULE) = {} PROVE Unreadable(Files[SCHEDULE])
  <2>1. Files[SCHEDULE] = ABSENT BY <1>1, <1>2, ReadIs DEF Files
  <2> QED BY <2>1 DEF Unreadable, ABSENT
<1>3. ASSUME NEW i \in FreeSlots(meta), Hits(meta, SCHEDULE) = {}, IsCreated(meta', SCHEDULE, i)
      PROVE  Healed'
  <2>1. Cardinality(FreePages(meta)) < Need(Factory[SCHEDULE]) BY <1>1, <1>2, <1>3 DEF Healed
  <2>2. FreePages(meta') = FreePages(meta) BY <1>1, <1>3, CreatedFacts
  <2> QED BY <2>1, <2>2 DEF Healed
<1>4. CASE createFileAt(SCHEDULE, 0)
  <2>1. /\ 0 \in FreeSlots(meta) /\ Does(SCHEDULE, meta', <<>>)
        /\ \/ Hits(meta, SCHEDULE) = {} /\ IsCreated(meta', SCHEDULE, 0)
           \/ /\ arsfs_find(meta, SCHEDULE) \in InUse(meta)
              /\ meta.fcb[arsfs_find(meta, SCHEDULE)].fileName = SCHEDULE
              /\ IsMoved(meta', arsfs_find(meta, SCHEDULE), 0)
    BY <1>1, <1>4, CreateAtIs
  <2>2. CASE Hits(meta, SCHEDULE) = {} /\ IsCreated(meta', SCHEDULE, 0) BY <1>3, <2>1, <2>2
  <2>3. CASE ~(Hits(meta, SCHEDULE) = {} /\ IsCreated(meta', SCHEDULE, 0))
    <3>1. Files'[SCHEDULE] = Files[SCHEDULE] BY <1>1, <2>1, <2>3, MovedRead
    <3>2. FreePages(meta') = FreePages(meta)
      <4> DEFINE c == arsfs_find(meta, SCHEDULE)
      <4>1. c \in InUse(meta) /\ IsMoved(meta', c, 0) BY <2>1, <2>3
      <4> HIDE DEF c
      <4> QED BY <1>1, <2>1, <4>1, MovedFacts
    <3> QED BY <1>1, <2>1, <3>1, <3>2 DEF Healed
  <2> QED BY <2>2, <2>3
<1>5. CASE createFile(SCHEDULE)
  <2>1. Hits(meta, SCHEDULE) = {} /\ \E i \in FreeSlots(meta) : IsCreated(meta', SCHEDULE, i)
    BY <1>1, <1>5, CreateIs
  <2> QED BY <1>3, <2>1
<1>6. CASE UNCHANGED vars BY <1>1, <1>6, SameFiles
<1> QED BY <1>4, <1>5, <1>6 DEF arssched_load, loadScheduleFile

LEMMA QuietNext == ASSUME HealInv, [BootNext]_bvars PROVE HealInv'
<1>1. Inv(FALSE) /\ Steady /\ Quiet /\ Types /\ Queue /\ meta \in Metadata
  BY DEF HealInv, Inv, Types
<1>2. Inv(FALSE)'
  <2>1. [Next \/ PowerLoss]_vars BY <1>1, StepsOfDisk
  <2> QED BY <1>1, <2>1, NextInv, PowerLossInv
<1>3. Steady' BY <1>1, SteadyNext
<1>4. Quiet'
  <2>1. CASE UNCHANGED bvars
    <3>1. UNCHANGED vars /\ pc' = pc /\ calm' = calm BY <2>1 DEF bvars
    <3> QED BY <1>1, <3>1, SameFiles DEF Quiet
  <2>2. CASE mount
    <3>1. pc = "off" /\ pc' = "probe" /\ calm' = calm /\ arsfs_init BY <2>2 DEF mount
    <3>2. flash.meta # ERASED => meta' = flash.meta BY <3>1 DEF arsfs_init
    <3> QED BY <1>1, <3>1, <3>2 DEF Quiet
  <2>3. CASE provision
    <3>1. UNCHANGED vars /\ calm' = calm /\ pc = "probe" /\ Ready BY <2>3 DEF provision
    <3>2. meta' = meta /\ Files' = Files BY <3>1, SameFiles
    <3>3. CASE IsBlank(Probe)
      <4>1. pc' = "lay" BY <2>3, <3>3 DEF provision
      <4> QED BY <1>1, <3>1, <3>2, <4>1 DEF Quiet
    <3>4. CASE ~IsBlank(Probe)
      <4>1. pc' = "load" BY <2>3, <3>4 DEF provision
      <4>2. Files[SCHEDULE] = Probe
        <5>1. SCHEDULE \in Name BY OursIs
        <5> QED BY <1>1, <3>1, <5>1, AtRest DEF Ready, Probe
      <4>3. ~Unreadable(Probe)
        <5> DEFINE f == Probe
        <5>1. f.pages # <<>> /\ f.pages[1] # ERASED BY <3>4 DEF IsBlank
        <5>2. 1 \in DOMAIN f.pages
          <6>1. \E k \in Nat : \E p : f.pages = [j \in 1 .. k |-> p[j]]
            <7>1. CASE Hits(meta, SCHEDULE) = {}
              <8>1. f = ABSENT BY <7>1, ReadIs DEF Probe
              <8> QED BY <5>1, <8>1 DEF ABSENT
            <7>2. CASE Hits(meta, SCHEDULE) # {}
              <8> DEFINE i == arsfs_find(meta, SCHEDULE)
                         u == [k \in 1 .. pgCount(meta.fcb[i].size) |-> Nth(meta, meta.fcb[i].start, k - 1)]
              <8>1. i \in Slot BY <7>2, FindIs
              <8>2. f = ReadAt(meta, flash.page, i) BY <7>2, ReadIs DEF Probe
              <8> HIDE DEF i
              <8>3. PICK c \in 0 .. pgCount(meta.fcb[i].size) : Cardinality(Reads(meta, i)) = c
                BY <1>1, <8>1, ReadsInOrder
              <8>4. c \in Nat OBVIOUS
              <8>5. f.pages = [k \in 1 .. c |-> flash.page[u[k]]] BY <8>2, <8>3 DEF ReadAt
              <8> HIDE DEF u, f
              <8> DEFINE q == [k \in 1 .. c |-> flash.page[u[k]]]
              <8>6. q = [k \in 1 .. c |-> q[k]] OBVIOUS
              <8> QED BY <8>4, <8>5, <8>6
            <7> QED BY <7>1, <7>2
          <6>2. PICK k \in Nat : \E p : f.pages = [j \in 1 .. k |-> p[j]] BY <6>1
          <6>3. PICK p : f.pages = [j \in 1 .. k |-> p[j]]
            BY <6>2, Zenon
          <6> HIDE DEF f
          <6>4. k # 0 BY <5>1, <6>3
          <6> QED BY <6>3, <6>4
        <5> QED BY <5>1, <5>2 DEF Unreadable
      <4>4. Healed' BY <3>2, <4>2, <4>3 DEF Healed
      <4> QED BY <1>1, <3>1, <3>2, <4>1, <4>4 DEF Quiet
    <3> QED BY <3>3, <3>4
  <2>4. CASE layDown
    <3>1. /\ pc = "lay" /\ calm' = calm /\ pc' = IF Tail(left) = <<>> THEN "load" ELSE "lay"
      BY <2>4 DEF layDown
    <3>2. ASSUME calm >= 1 PROVE Placed(meta)'
      <4>1. Placed(meta) BY <1>1, <3>1, <3>2 DEF Quiet
      <4>2. CASE Possible(Head(left))
        <5>1. Performs(Head(left)) /\ Head(left) \in Steps BY <1>1, <2>4, <3>1, <4>2, LeftIs DEF layDown
        <5>2. \E n \in Name, d \in Data : createFile(n) \/ createFileAt(n, 0) \/ writeFile(n, d)
          BY <5>1, LaidIs
        <5>3. PICK n \in Name : \E d \in Data : createFile(n) \/ createFileAt(n, 0) \/ writeFile(n, d)
          BY <5>2
        <5>4. PICK d \in Data : createFile(n) \/ createFileAt(n, 0) \/ writeFile(n, d) BY <5>3
        <5> QED BY <1>1, <4>1, <5>4, PlacedKept
      <4>3. CASE ~Possible(Head(left))
        <5>1. UNCHANGED vars BY <2>4, <4>3 DEF layDown
        <5>2. meta' = meta BY <5>1, SameFiles
        <5> QED BY <4>1, <5>2
      <4> QED BY <4>2, <4>3
    <3>3. ASSUME calm >= 1, Tail(left) = <<>> PROVE Healed' BY <2>4, <3>3, HealedByScript
    <3> QED BY <3>1, <3>2, <3>3 DEF Quiet
  <2>5. CASE arssched_load
    <3>1. Placed(meta)' BY <2>5, PlacedByLoad
    <3>2. pc' = "run" /\ calm' = IF calm < 2 THEN calm + 1 ELSE 2 BY <2>5 DEF arssched_load, loadScheduleFile
    <3>3. calm' = 2 => calm >= 1 BY <1>1, <3>2 DEF Steady
    <3>4. calm >= 1 => Healed' BY <2>5, HealedByLoad
    <3> QED BY <3>1, <3>2, <3>3, <3>4 DEF Quiet
  <2>6. CASE Host
    <3>1. calm' = 0 BY <2>6 DEF Host
    <3> QED BY <3>1 DEF Quiet
  <2>7. CASE Device
    <3>1. Files' = Files
      <4>1. Erase \/ Program BY <2>7 DEF Device
      <4> QED BY <1>1, <4>1, EraseKeepsFiles, ProgramKeepsFiles
    <3>2. meta' = meta /\ pc' = pc /\ calm' = calm BY <2>7 DEF Device, Erase, Program
    <3>3. pc # "off"
      <4>1. todo # <<>> BY <1>1, <2>7 DEF Device, Erase, Program, Queue
      <4> QED BY <1>1, <4>1 DEF Queue, Steady
    <3>4. Healed => Healed' BY <3>1, <3>2 DEF Healed, Has
    <3>5. Placed(meta) => Placed(meta)' BY <3>2
    <3> QED BY <1>1, <3>2, <3>3, <3>4, <3>5 DEF Quiet
  <2>8. CASE Outage
    <3>1. PowerLoss /\ pc' = "off" /\ calm' = IF pc = "run" /\ todo = <<>> THEN calm ELSE 0
      BY <2>8 DEF Outage
    <3>2. ASSUME pc = "run", todo = <<>>, calm >= 1
          PROVE  flash'.meta # ERASED /\ Placed(flash'.meta)
      <4>1. up BY <3>1 DEF PowerLoss
      <4>2. secBuf = NONE /\ flash.meta = meta BY <1>1, <3>2, <4>1 DEF Queue
      <4>3. flash' = flash BY <3>1, <4>2 DEF PowerLoss
      <4>4. Placed(meta) BY <1>1, <3>2 DEF Quiet
      <4> QED BY <1>1, <4>2, <4>3, <4>4, MarkerAssumption
    <3> QED BY <3>1, <3>2 DEF Quiet
  <2> QED BY <2>1, <2>2, <2>3, <2>4, <2>5, <2>6, <2>7, <2>8 DEF BootNext
<1> QED BY <1>2, <1>3, <1>4 DEF HealInv

\* Whatever the host left and wherever the power failed, in the metadata sector too, a
\* schedule that is missing, empty or erased is back after two quiet starts, unless there
\* is no entry or no page for it.
THEOREM ScheduleIsRestored == BootSpec => []SelfHeals
<1>1. HealInv /\ [BootNext]_bvars => HealInv' BY QuietNext
<1>2. HealInv => SelfHeals
  <2> SUFFICES ASSUME HealInv, pc = "run", todo = <<>>, calm = 2, Unreadable(Probe)
               PROVE  \/ ~Has(SCHEDULE) /\ FreeSlots(meta) = {}
                      \/ Cardinality(FreePages(meta)) < pgCount(SizeOf[Factory[SCHEDULE]])
    BY DEF SelfHeals
  <2>1. Types /\ Queue /\ Healed /\ SCHEDULE \in Name BY OursIs DEF HealInv, Inv, Quiet
  <2>2. Files[SCHEDULE] = Probe BY <2>1, AtRest DEF Probe
  <2> QED BY <2>1, <2>2 DEF Healed, Need
<1> QED BY <1>1, <1>2, QuietInit, PTL DEF BootSpec

\* Under provisioning, outages and the host's commands what a start finds is in order,
\* and an outage costs only the file that is written and those with a page in the sector
\* just erased, unless it hits the metadata sector.
THEOREM DiskStaysSound == BootSpec => [](FlashSound /\ OthersSurvive)
<1>1. Inv(FALSE) => FlashSound /\ OthersSurvive BY Consequences
<1> QED BY <1>1, BootUsesDisk, CrashInv, PTL
-----------------------------------------------------------------------------
(***************************************************************************)
(* The demos come before the schedule.  ARS_provision begins on an empty   *)
(* disk or goes on where it was cut off, and as long as nobody else has    *)
(* written these files they take the first entries and, first fit, the     *)
(* first pages: the i-th file the entry i, the i-th demo the pages         *)
(* Region(i), SCHEDULE the pages behind them.                              *)
(***************************************************************************)
At(i) == IF i = 0 THEN SCHEDULE ELSE Demo[i]
Region(i) == DemoPages[i - 1] .. DemoPages[i] - 1

\* A directory with the first e entries made and the first w demos written.
EarlyAt(m, e, w) ==
  /\ InUse(m) = 0 .. e - 1
  /\ \A i \in 0 .. e - 1 : m.fcb[i].fileName = At(i)
  /\ w = 0 \/ w < e
  /\ \A i \in 1 .. w : ChainOf(m, i) = Region(i)
  /\ \A i \in 0 .. e - 1 : i \notin 1 .. w => m.fcb[i].start = EOF_PG /\ m.fcb[i].size = 0
  /\ FreePages(m) = DemoPages[w] .. BMP - 1
Early(m) == \E e \in 0 .. Len(Demo) + 1, w \in 0 .. Len(Demo) : EarlyAt(m, e, w)

\* One with all of them; the host may have added others.
Base(m) ==
  /\ \A i \in 0 .. Len(Demo) : i \in InUse(m) /\ m.fcb[i].fileName = At(i)
  /\ \A i \in 1 .. Len(Demo) : ChainOf(m, i) = Region(i)
  /\ m.fcb[0].start = DemoPages[Len(Demo)]

LEMMA DemoPagesAre ==
  LET n == Len(Demo) IN
  /\ DemoPages[0] = 0 /\ \A k \in 0 .. n : DemoPages[k] \in Nat
  /\ \A k \in 1 .. n : DemoPages[k] = DemoPages[k - 1] + Need(Factory[Demo[k]])
  /\ DemoPages[n] + Need(Factory[SCHEDULE]) <= BMP
<1> DEFINE n == Len(Demo)
           H == Nat
           P(f) == f = [k \in 0 .. n |-> IF k = 0 THEN 0
                                         ELSE f[k - 1] + pgCount(SizeOf[Factory[Demo[k]]])]
           dp == CHOOSE f : P(f)
           B == [p \in Nat \X H |-> p[2] + Need(Factory[Demo[p[1] + 1]])]
           T == [k \in Nat |-> H]
<1>1. DemoPages = dp BY DEF DemoPages
<1>2. n \in Nat /\ \A k \in 1 .. n : Need(Factory[Demo[k]]) \in Nat BY OursIs
<1>3. \A k \in Nat, h \in H : B[<<k, h>>] = h + Need(Factory[Demo[k + 1]]) OBVIOUS
<1>4. 0 \in H /\ \A k \in Nat : T[k] = H OBVIOUS
<1> HIDE DEF B, T, n, dp
<1>5. ASSUME NEW k \in Nat, NEW h \in H, k < n, h \in T[k]
      PROVE  B[<<k, h>>] \in H /\ B[<<k, h>>] \in T[k + 1]
  <2>1. k + 1 \in 1 .. n BY <1>2, <1>5
  <2>2. Need(Factory[Demo[k + 1]]) \in Nat BY <1>2, <2>1
  <2>3. k + 1 \in Nat OBVIOUS
  <2> QED BY <1>3, <1>4, <2>2, <2>3
<1>6. Stages(n, H, B, T, 0) BY <1>2, <1>4, <1>5 DEF Stages
<1>7. P(dp)
  <2>1. PICK f \in [0 .. n -> H] :
          f[0] = 0 /\ \A k \in 1 .. n : f[k] = B[<<k - 1, f[k - 1]>>]
    BY <1>6, StagesExist
  <2>2. ASSUME NEW k \in 0 .. n, k # 0
        PROVE  f[k] = f[k - 1] + pgCount(SizeOf[Factory[Demo[k]]])
    <3>1. k \in 1 .. n /\ k - 1 \in Nat /\ k - 1 \in 0 .. n /\ (k - 1) + 1 = k BY <1>2, <2>2
    <3>2. f[k - 1] \in H BY <2>1, <3>1
    <3> QED BY <1>3, <2>1, <3>1, <3>2 DEF Need
  <2>3. P(f) BY <2>1, <2>2
  <2> HIDE DEF P
  <2> QED BY <2>3 DEF dp
<1>8. dp[0] = 0 BY <1>2, <1>7
<1>9. \A k \in 1 .. n : dp[k] = dp[k - 1] + Need(Factory[Demo[k]])
  BY <1>2, <1>7 DEF Need
<1>10. ASSUME NEW k \in 1 .. n, dp[k - 1] \in H PROVE dp[k] = B[<<k - 1, dp[k - 1]>>]
  <2>1. k - 1 \in Nat /\ (k - 1) + 1 = k BY <1>2
  <2> HIDE DEF P
  <2> QED BY <1>3, <1>9, <1>10, <2>1
<1> HIDE DEF P
<1>11. \A k \in 0 .. n : dp[k] \in H BY <1>6, <1>8, <1>10, StagesHold
<1>12. dp[n] + Need(Factory[SCHEDULE]) <= BMP BY <1>1, FactoryFits DEF Need, n
<1> QED BY <1>1, <1>8, <1>9, <1>11, <1>12 DEF n

\* The demos' pages lie one behind the other.
LEMMA DemoPagesGrow ==
  /\ \A j, k \in 0 .. Len(Demo) : j <= k => DemoPages[j] <= DemoPages[k]
  /\ \A p \in Nat, k \in 0 .. Len(Demo) : p < DemoPages[k] => \E i \in 1 .. k : p \in Region(i)
<1> DEFINE n == Len(Demo)
           T == {k \in Nat : k <= n => /\ \A j \in 0 .. k : DemoPages[j] <= DemoPages[k]
                                       /\ \A p \in Nat : p < DemoPages[k] =>
                                            \E i \in 1 .. k : p \in Region(i)}
<1>1. /\ n \in Nat /\ DemoPages[0] = 0 /\ \A k \in 0 .. n : DemoPages[k] \in Nat
      /\ \A k \in 1 .. n : DemoPages[k] >= DemoPages[k - 1]
  <2>1. n \in Nat /\ \A k \in 1 .. n : Need(Factory[Demo[k]]) \in Nat BY OursIs
  <2>2. ASSUME NEW k \in 1 .. n PROVE DemoPages[k] >= DemoPages[k - 1]
    <3>1. k - 1 \in 0 .. n BY <2>1
    <3>2. /\ DemoPages[k - 1] \in Nat /\ Need(Factory[Demo[k]]) \in Nat
          /\ DemoPages[k] = DemoPages[k - 1] + Need(Factory[Demo[k]])
      BY <2>1, <3>1, DemoPagesAre
    <3> QED BY <3>2
  <2> QED BY <2>1, <2>2, DemoPagesAre
<1>2. 0 \in T BY <1>1
<1>3. ASSUME NEW k \in Nat, k \in T PROVE k + 1 \in T
  <2> SUFFICES ASSUME k + 1 <= n
               PROVE  /\ \A j \in 0 .. k + 1 : DemoPages[j] <= DemoPages[k + 1]
                      /\ \A p \in Nat : p < DemoPages[k + 1] =>
                           \E i \in 1 .. k + 1 : p \in Region(i)
    OBVIOUS
  <2>1. k \in 0 .. n /\ k + 1 \in 1 .. n /\ k + 1 \in 0 .. n /\ (k + 1) - 1 = k BY <1>1
  <2>2. DemoPages[k] \in Nat /\ DemoPages[k + 1] \in Nat /\ DemoPages[k] <= DemoPages[k + 1]
    BY <1>1, <2>1
  <2>3. /\ \A j \in 0 .. k : DemoPages[j] <= DemoPages[k]
        /\ \A p \in Nat : p < DemoPages[k] => \E i \in 1 .. k : p \in Region(i)
    BY <1>1, <1>3, <2>1
  <2>4. ASSUME NEW j \in 0 .. k + 1 PROVE DemoPages[j] <= DemoPages[k + 1]
    <3>1. j \in 0 .. n /\ DemoPages[j] \in Nat /\ (j \in 0 .. k \/ j = k + 1) BY <1>1, <2>1
    <3> QED BY <2>2, <2>3, <3>1
  <2>5. ASSUME NEW p \in Nat, p < DemoPages[k + 1] PROVE \E i \in 1 .. k + 1 : p \in Region(i)
    <3>1. CASE p < DemoPages[k]
      <4>1. PICK i \in 1 .. k : p \in Region(i) BY <2>3, <3>1
      <4> QED BY <4>1
    <3>2. CASE ~(p < DemoPages[k])
      <4>1. p \in Region(k + 1) BY <2>1, <2>2, <2>5, <3>2 DEF Region
      <4> QED BY <4>1
    <3> QED BY <3>1, <3>2
  <2> QED BY <2>4, <2>5
<1> HIDE DEF T
<1>4. Nat \subseteq T BY <1>2, <1>3, SetInduction
<1>5. \A k \in 0 .. n : k \in T /\ k <= n BY <1>1, <1>4
<1> QED BY <1>5 DEF T, n

\* The names of the factory's files and where they are looked for.
LEMMA AtIs ==
  /\ Len(Demo) \in Nat /\ \A i \in 0 .. Len(Demo) : i \in Slot /\ At(i) \in Ours /\ At(i) \in Name
  /\ At(0) = SCHEDULE /\ \A i \in 1 .. Len(Demo) : At(i) = Demo[i]
  /\ \A i, j \in 0 .. Len(Demo) : i # j => At(i) # At(j)
  /\ \A o \in Ours : \E i \in 0 .. Len(Demo) : o = At(i)
<1> DEFINE n == Len(Demo)
<1>1. /\ n \in Nat /\ Ours \subseteq Name /\ SCHEDULE \in Ours /\ \A k \in 1 .. n : Demo[k] \in Ours
      /\ \A o \in Ours : o = SCHEDULE \/ \E k \in 1 .. n : o = Demo[k]
  BY OursIs
<1>2. DOMAIN Demo = 1 .. n BY FactoryAssumption
<1>3. /\ \A j \in 1 .. n : Demo[j] # SCHEDULE
      /\ \A j, k \in 1 .. n : j # k => Demo[j] # Demo[k]
      /\ n < FCB_CNT
  BY <1>2, FactoryFits
<1> HIDE DEF n
<1>4. At(0) = SCHEDULE /\ \A i \in 1 .. n : At(i) = Demo[i] BY <1>1 DEF At
<1>5. \A i \in 0 .. n : i = 0 \/ i \in 1 .. n BY <1>1
<1>6. \A i \in 0 .. n : i \in Slot
  <2>1. FCB_CNT \in Nat BY GeometryAssumption
  <2> QED BY <1>1, <1>3, <2>1 DEF Slot
<1>7. \A i \in 0 .. n : At(i) \in Ours /\ At(i) \in Name BY <1>1, <1>4, <1>5
<1>8. \A i, j \in 0 .. n : i # j => At(i) # At(j) BY <1>3, <1>4, <1>5
<1>9. 0 \in 0 .. n /\ \A i \in 1 .. n : i \in 0 .. n BY <1>1
<1>10. \A o \in Ours : \E i \in 0 .. n : o = At(i) BY <1>1, <1>4, <1>9
<1> QED BY <1>1, <1>4, <1>6, <1>7, <1>8, <1>10 DEF n

LEMMA FoundAt ==
  ASSUME NEW m, Order(m, FALSE), NEW i \in 0 .. Len(Demo), i \in InUse(m), m.fcb[i].fileName = At(i)
  PROVE  Hits(m, At(i)) = {i} /\ arsfs_find(m, At(i)) = i
<1>1. At(i) # NONE BY AtIs, NamesAssumption
<1>2. \A j \in InUse(m) : j # i => m.fcb[i].fileName # m.fcb[j].fileName
  BY <1>1 DEF Order
<1>3. Hits(m, At(i)) = {i} BY <1>2 DEF Hits
<1> QED BY <1>3, FindIs DEF Hits

\* An operation on file n, as a start and the host do them.
Operates(n) == createFile(n) \/ createFileAt(n, 0) \/ \E d \in Data : writeFile(n, d)

\* The other files: the entries, the pages and what is read.
LEMMA OthersStay ==
  ASSUME Inv(FALSE), NEW n \in Name, Operates(n)
  PROVE  /\ Ready /\ todo' # <<>> /\ secBuf' = NONE /\ flash' = flash /\ target' = n
         /\ meta' \in Metadata
         /\ \A j \in InUse(meta) : meta.fcb[j].fileName # n =>
              j \in InUse(meta') /\ meta'.fcb[j] = meta.fcb[j] /\ ChainOf(meta', j) = ChainOf(meta, j)
         /\ \A o \in Name \ {n} : Files'[o] = Files[o]
<1>1. Order(meta, FALSE) /\ Types /\ Queue /\ meta \in Metadata BY DEF Inv, OrderBoth, Types
<1>2. PICK m, w : Does_orderly(FALSE, n, m, w)
  <2>1. \E m, w : Does_orderly(FALSE, n, m, w) BY <1>1, FileOperationDoes DEF Operates
  <2> QED BY <2>1
<1>3. /\ Does(n, m, w) /\ Order(m, FALSE) /\ w \in Seq(PageWrite) /\ Distinct(w)
      /\ Untouched(n, meta, m, w)
  BY <1>2, MarkerAssumption DEF Does_orderly
<1>4. Ready /\ meta' = m /\ todo' = w \o Flush /\ flash' = flash /\ target' = n /\ secBuf' = NONE
  BY <1>1, <1>3 DEF Does, Ready, Queue
<1>5. w \o Flush # <<>> BY <1>3, QueueOf
<1>6. ASSUME NEW j \in InUse(meta), meta.fcb[j].fileName # n
      PROVE  j \in InUse(m) /\ m.fcb[j] = meta.fcb[j] /\ ChainOf(m, j) = ChainOf(meta, j)
  <2>1. Kept(meta, m, j, j) BY <1>3, <1>6 DEF Untouched
  <2>2. j \in InUse(m) BY <2>1 DEF Kept, InUse
  <2> QED BY <1>1, <1>3, <2>1, <2>2, KeptSame DEF Kept, Order
<1>7. \A o \in Name \ {n} : Files'[o] = Files[o] BY <1>2, OthersRead
<1> QED BY <1>3, <1>4, <1>5, <1>6, <1>7 DEF Order

-----------------------------------------------------------------------------
(***************************************************************************)
(* The steps of the script on a directory that is begun.                   *)
(***************************************************************************)
LEMMA BlankEarly == EarlyAt(Blank, 0, 0)
<1>1. InUse(Blank) = {} BY DEF InUse, Blank, NoFcb
<1>2. FreePages(Blank) = Page BY DEF FreePages, Blank
<1>3. 0 .. 0 - 1 = {} /\ 1 .. 0 = {} OBVIOUS
<1> QED BY <1>1, <1>2, <1>3, DemoPagesAre DEF EarlyAt, Page

\* SCHEDULE is not there or empty.
LEMMA EarlySchedule ==
  ASSUME NEW m, Order(m, FALSE), Early(m), NEW pg
  PROVE  readFile(m, pg, SCHEDULE) \in {ABSENT, EMPTY}
<1>1. PICK e \in 0 .. Len(Demo) + 1 : \E w \in 0 .. Len(Demo) : EarlyAt(m, e, w) BY DEF Early
<1>2. PICK w \in 0 .. Len(Demo) : EarlyAt(m, e, w) BY <1>1
<1>3. At(0) = SCHEDULE /\ 0 \in 0 .. Len(Demo) /\ 0 \in Slot BY AtIs
<1>4. CASE e = 0
  <2>1. InUse(m) = {} BY <1>2, <1>4 DEF EarlyAt
  <2>2. Hits(m, SCHEDULE) = {} BY <2>1 DEF Hits
  <2> QED BY <2>2, ReadIs
<1>5. CASE e # 0
  <2>1. 0 \in 0 .. e - 1 /\ 0 \notin 1 .. w BY <1>5
  <2>2. 0 \in InUse(m) /\ m.fcb[0].fileName = At(0) /\ m.fcb[0].size = 0
    BY <1>2, <2>1 DEF EarlyAt
  <2>3. Hits(m, SCHEDULE) = {0} /\ arsfs_find(m, SCHEDULE) = 0 BY <1>3, <2>2, FoundAt
  <2>4. ReadAt(m, pg, 0) = EMPTY BY <1>3, <2>2, EmptyRead DEF Order
  <2> QED BY <2>3, <2>4, ReadIs
<1> QED BY <1>4, <1>5

LEMMA EarlyFirst ==
  ASSUME Inv(FALSE), NEW e \in Nat, NEW w \in Nat, EarlyAt(meta, e, w), createFileAt(SCHEDULE, 0)
  PROVE  e = 0 /\ w = 0 /\ EarlyAt(meta', 1, 0)
<1>1. SCHEDULE \in Name /\ At(0) = SCHEDULE /\ meta \in Metadata
  BY AtIs, OursIs DEF Inv, Types
<1>2. /\ 0 \in FreeSlots(meta)
      /\ \/ IsCreated(meta', SCHEDULE, 0)
         \/ arsfs_find(meta, SCHEDULE) \in InUse(meta)
  BY <1>1, CreateAtIs
<1>3. 0 \notin 0 .. e - 1 BY <1>2 DEF FreeSlots, EarlyAt
<1>4. e = 0 /\ w = 0 BY <1>3 DEF EarlyAt
<1>5. InUse(meta) = {} BY <1>4 DEF EarlyAt
<1>6. IsCreated(meta', SCHEDULE, 0) BY <1>2, <1>5
<1>7. /\ FreePages(meta') = FreePages(meta) /\ meta'.fcb[0] = EmptyFcb(SCHEDULE)
      /\ InUse(meta') = {0}
  BY <1>1, <1>2, <1>5, <1>6, CreatedFacts
<1>8. 0 .. 1 - 1 = {0} /\ 1 .. 0 = {} OBVIOUS
<1>9. FreePages(meta') = DemoPages[0] .. BMP - 1 BY <1>4, <1>7 DEF EarlyAt
<1> QED BY <1>1, <1>4, <1>7, <1>8, <1>9 DEF EarlyAt, EmptyFcb

\* The next demo takes the next entry.
LEMMA EarlyCreate ==
  ASSUME Inv(FALSE), NEW e \in Nat, NEW w \in 0 .. Len(Demo), EarlyAt(meta, e, w),
         NEW k \in 1 .. Len(Demo), k <= e, createFile(Demo[k])
  PROVE  e = k /\ EarlyAt(meta', k + 1, w)
<1>1. /\ k \in 0 .. Len(Demo) /\ k \in Slot /\ At(k) = Demo[k] /\ Demo[k] \in Name
      /\ meta \in Metadata /\ Len(Demo) \in Nat
  BY AtIs DEF Inv, Types
<1>2. /\ Hits(meta, Demo[k]) = {}
      /\ \E i \in FreeSlots(meta) : /\ IsCreated(meta', Demo[k], i)
                                    /\ \A j \in FreeSlots(meta) : i <= j
  BY <1>1, CreateIs
<1>3. e = k
  <2>1. ASSUME k < e PROVE FALSE
    <3>1. k \in 0 .. e - 1 BY <2>1
    <3>2. k \in Hits(meta, Demo[k]) BY <1>1, <3>1 DEF EarlyAt, Hits
    <3> QED BY <1>2, <3>2
  <2> QED BY <2>1
<1>4. PICK i \in FreeSlots(meta) : IsCreated(meta', Demo[k], i) /\ \A j \in FreeSlots(meta) : i <= j
  BY <1>2
<1>5. i = k
  <2>1. k \in FreeSlots(meta) BY <1>1, <1>3 DEF FreeSlots, EarlyAt
  <2>2. i \in Nat /\ i \notin 0 .. k - 1 BY <1>3 DEF FreeSlots, EarlyAt, Slot
  <2> QED BY <1>4, <2>1, <2>2
<1>6. /\ FreePages(meta') = FreePages(meta) /\ meta'.fcb[k] = EmptyFcb(Demo[k])
      /\ InUse(meta') = InUse(meta) \cup {k}
      /\ \A j \in Slot \ {k} : meta'.fcb[j] = meta.fcb[j]
  BY <1>1, <1>4, <1>5, CreatedFacts
<1>7. 0 .. (k + 1) - 1 = (0 .. k - 1) \cup {k} OBVIOUS
<1>8. ASSUME NEW j \in 0 .. k - 1
      PROVE  meta'.fcb[j] = meta.fcb[j] /\ ChainOf(meta', j) = ChainOf(meta, j)
  <2>1. j \in InUse(meta) /\ meta.fcb[j].fileName = At(j) /\ j \in 0 .. Len(Demo) /\ j # k
    BY <1>1, <1>3 DEF EarlyAt
  <2>2. At(j) # Demo[k] BY <1>1, <2>1, AtIs
  <2> QED BY <1>1, <2>1, <2>2, OthersStay DEF Operates
<1>9. w < k + 1 /\ \A j \in 1 .. w : j \in 0 .. k - 1 BY <1>3 DEF EarlyAt
<1>10. \A j \in 1 .. w : ChainOf(meta', j) = Region(j) BY <1>8, <1>9 DEF EarlyAt
<1>11. ASSUME NEW j \in 0 .. k
       PROVE  /\ meta'.fcb[j].fileName = At(j)
              /\ j \notin 1 .. w => meta'.fcb[j].start = EOF_PG /\ meta'.fcb[j].size = 0
  <2>1. CASE j = k BY <1>1, <1>6, <2>1 DEF EmptyFcb
  <2>2. CASE j # k
    <3>1. j \in 0 .. k - 1 BY <2>2
    <3> QED BY <1>3, <1>8, <3>1 DEF EarlyAt
  <2> QED BY <2>1, <2>2
<1>12. InUse(meta') = 0 .. (k + 1) - 1 /\ FreePages(meta') = DemoPages[w] .. BMP - 1
  BY <1>3, <1>6, <1>7 DEF EarlyAt
<1> QED BY <1>3, <1>9, <1>10, <1>11, <1>12 DEF EarlyAt

\* A file gets the pages behind the demos, or its own ones again.
LEMMA FillsRegion ==
  ASSUME Inv(FALSE), NEW n \in Name, NEW d \in Data, writeFile(n, d), NEW a \in Nat,
         a + Need(d) <= BMP,
         LET free == FreePages(Gone(meta, arsfs_find(meta, n)))
         IN  (\A p \in free : a <= p) /\ (\A p \in a .. a + Need(d) - 1 : p \in free)
  PROVE  LET i == arsfs_find(meta, n) IN
         /\ i \in InUse(meta) /\ InUse(meta') = InUse(meta) /\ Files'[n] = File(d)
         /\ \A j \in Slot : meta'.fcb[j].fileName = meta.fcb[j].fileName
         /\ ChainOf(meta', i) = a .. a + Need(d) - 1
         /\ FreePages(meta') = FreePages(Gone(meta, i)) \ (a .. a + Need(d) - 1)
         /\ Need(d) > 0 => meta'.fcb[i].start = a
<1> DEFINE i == arsfs_find(meta, n)
           free == FreePages(Gone(meta, i))
           c == Need(d)
<1>1. c \in Nat BY DataAssumption, CountIs DEF Need
<1>2. \A p \in free : a <= p BY SMT
<1>3. \A p \in a .. a + c - 1 : p \in free BY SMT
<1>4. c <= Cardinality(free) /\ \A j \in 1 .. c : Ascending(free)[j] = a + j - 1
  <2>1. free \subseteq Page BY DEF FreePages
  <2> HIDE DEF free, c
  <2>2. \A j \in 1 .. c : a + j - 1 \in free
    <3>1. \A j \in 1 .. c : a + j - 1 \in a .. a + c - 1 BY <1>1
    <3> QED BY <1>3, <3>1
  <2> QED BY <1>1, <1>2, <2>1, <2>2, FirstFit
<1>5. /\ i \in InUse(meta) /\ InUse(meta') = InUse(meta)
      /\ \A j \in Slot : meta'.fcb[j].fileName = meta.fcb[j].fileName
      /\ Files'[n] = File(d) /\ ChainOf(meta', i) = {Ascending(free)[k] : k \in 1 .. c}
      /\ FreePages(meta') = free \ ChainOf(meta', i)
      /\ c > 0 => meta'.fcb[i].start = Ascending(free)[1]
  BY <1>4, WrittenFacts
<1> HIDE DEF free, c, i
<1>6. {Ascending(free)[k] : k \in 1 .. c} = a .. a + c - 1
  <2>1. \A k \in 1 .. c : Ascending(free)[k] \in a .. a + c - 1 BY <1>1, <1>4
  <2>2. ASSUME NEW p \in a .. a + c - 1 PROVE \E k \in 1 .. c : p = Ascending(free)[k]
    <3>1. p - a + 1 \in 1 .. c /\ a + (p - a + 1) - 1 = p BY <1>1
    <3> QED BY <1>4, <3>1
  <2> QED BY <2>1, <2>2
<1>7. c > 0 => meta'.fcb[i].start = a
  <2> SUFFICES ASSUME c > 0 PROVE meta'.fcb[i].start = a OBVIOUS
  <2>1. 1 \in 1 .. c /\ a + 1 - 1 = a BY <1>1
  <2> QED BY <1>4, <1>5, <2>1
<1> QED BY <1>5, <1>6, <1>7 DEF free, c, i

\* Demo k takes the pages behind the demos before it, or gets its own ones again.
LEMMA EarlyWrite ==
  ASSUME Inv(FALSE), NEW e \in Nat, NEW w \in 0 .. Len(Demo), EarlyAt(meta, e, w),
         NEW k \in 1 .. Len(Demo), k < e, k - 1 <= w, writeFile(Demo[k], Factory[Demo[k]])
  PROVE  /\ Files'[Demo[k]] = File(Factory[Demo[k]])
         /\ EarlyAt(meta', e, IF k <= w THEN w ELSE k)
<1> DEFINE n == Len(Demo)
           d == Factory[Demo[k]]
           a == DemoPages[k - 1]
           b == DemoPages[k]
           v == IF k <= w THEN w ELSE k
           free == FreePages(Gone(meta, k))
<1>1. /\ n \in Nat /\ k \in 0 .. n /\ k - 1 \in 0 .. n /\ v \in 0 .. n /\ k \in Slot
      /\ At(k) = Demo[k] /\ Demo[k] \in Name /\ Demo[k] \in Ours /\ d \in Data /\ meta \in Metadata
      /\ Order(meta, FALSE)
  <2>1. n \in Nat /\ k \in 0 .. n /\ k - 1 \in 0 .. n /\ v \in 0 .. n /\ k = 0 + k BY OursIs
  <2>2. k \in Slot /\ At(k) = Demo[k] /\ At(k) \in Name /\ At(k) \in Ours BY <2>1, AtIs
  <2>3. d \in Data BY <2>2, OursIs
  <2>4. meta \in Metadata /\ Order(meta, FALSE) BY DEF Inv, Types, OrderBoth
  <2> QED BY <2>1, <2>2, <2>3, <2>4
<1>2. k \in 0 .. e - 1 /\ k \in InUse(meta) /\ meta.fcb[k].fileName = At(k) BY DEF EarlyAt
<1>3. arsfs_find(meta, Demo[k]) = k BY <1>1, <1>2, FoundAt
<1>4. /\ a \in Nat /\ b \in Nat /\ Need(d) \in Nat /\ a + Need(d) = b /\ b <= BMP /\ BMP \in Nat
      /\ DemoPages[w] \in Nat /\ a <= DemoPages[w] /\ (k <= w => b <= DemoPages[w])
  <2>1. /\ \A j \in 0 .. n : DemoPages[j] \in Nat
        /\ DemoPages[k] = DemoPages[k - 1] + Need(Factory[Demo[k]])
        /\ DemoPages[n] + Need(Factory[SCHEDULE]) <= BMP
    BY DemoPagesAre
  <2>2. n \in 0 .. n /\ k <= n /\ Need(Factory[SCHEDULE]) \in Nat /\ Need(d) \in Nat
    BY <1>1, OursIs
  <2>3. DemoPages[k] <= DemoPages[n] /\ DemoPages[k - 1] <= DemoPages[w]
        /\ (k <= w => DemoPages[k] <= DemoPages[w])
    BY <1>1, <2>2, DemoPagesGrow
  <2>4. DemoPages[n] \in Nat /\ DemoPages[w] \in Nat /\ a \in Nat /\ b \in Nat BY <1>1, <2>1, <2>2
  <2>5. BMP \in Nat BY GeometryAssumption
  <2> QED BY <2>1, <2>2, <2>3, <2>4, <2>5, SMTT(30)
<1>5. free = FreePages(meta) \cup ChainOf(meta, k) /\ FreePages(meta) = DemoPages[w] .. BMP - 1
  BY <1>1, <1>2, GoneOrder DEF EarlyAt
<1>6. Region(k) = a .. b - 1 BY DEF Region
<1> HIDE DEF v, free, n, d, a, b
<1>7. /\ free = (a .. b - 1) \cup (DemoPages[w] .. BMP - 1)
      /\ ~(k <= w) => DemoPages[w] = a /\ ChainOf(meta, k) = {}
  <2>1. CASE k <= w
    <3>1. k \in 1 .. w BY <1>1, <2>1
    <3>2. ChainOf(meta, k) = a .. b - 1 BY <1>6, <3>1 DEF EarlyAt
    <3> QED BY <1>5, <2>1, <3>2
  <2>2. CASE ~(k <= w)
    <3>1. w = k - 1 /\ k \notin 1 .. w BY <1>1, <2>2 DEF n
    <3>2. meta.fcb[k].start = EOF_PG BY <1>2, <3>1 DEF EarlyAt
    <3>3. ChainOf(meta, k) = {} BY <1>1, <3>2, EmptyChain
    <3>4. DemoPages[w] = a BY <3>1 DEF a
    <3>5. free = a .. BMP - 1 BY <1>5, <3>3, <3>4
    <3>6. (a .. b - 1) \cup (a .. BMP - 1) = a .. BMP - 1 BY <1>4
    <3> QED BY <2>2, <3>3, <3>4, <3>5, <3>6
  <2> QED BY <2>1, <2>2
<1>8. /\ InUse(meta') = InUse(meta) /\ Files'[Demo[k]] = File(d)
      /\ \A j \in Slot : meta'.fcb[j].fileName = meta.fcb[j].fileName
      /\ ChainOf(meta', k) = a .. b - 1
      /\ FreePages(meta') = free \ (a .. b - 1)
  <2>1. writeFile(Demo[k], d) BY DEF d
  <2>2. /\ \A p \in free : a <= p
        /\ \A p \in a .. b - 1 : p \in free
        /\ a + Need(d) <= BMP /\ a + Need(d) - 1 = b - 1
    BY <1>4, <1>7, SMTT(30)
  <2>3. LET fr == FreePages(Gone(meta, arsfs_find(meta, Demo[k])))
        IN  (\A p \in fr : a <= p) /\ (\A p \in a .. a + Need(d) - 1 : p \in fr)
    BY <1>3, <2>2, Zenon DEF free
  <2>4. LET i == arsfs_find(meta, Demo[k]) IN
         /\ i \in InUse(meta) /\ InUse(meta') = InUse(meta) /\ Files'[Demo[k]] = File(d)
         /\ \A j \in Slot : meta'.fcb[j].fileName = meta.fcb[j].fileName
         /\ ChainOf(meta', i) = a .. a + Need(d) - 1
         /\ FreePages(meta') = FreePages(Gone(meta, i)) \ (a .. a + Need(d) - 1)
         /\ Need(d) > 0 => meta'.fcb[i].start = a
    BY <1>1, <1>4, <2>1, <2>2, <2>3, FillsRegion
  <2> QED BY <1>3, <2>2, <2>4, Zenon DEF free
<1>9. FreePages(meta') = DemoPages[v] .. BMP - 1
  <2>1. CASE k <= w
    <3>1. v = w BY <2>1 DEF v
    <3>2. ((a .. b - 1) \cup (DemoPages[w] .. BMP - 1)) \ (a .. b - 1) = DemoPages[w] .. BMP - 1
      BY <1>4, <2>1, SMTT(30)
    <3> QED BY <1>7, <1>8, <3>1, <3>2
  <2>2. CASE ~(k <= w)
    <3>1. DemoPages[v] = b /\ DemoPages[w] = a BY <1>7, <2>2 DEF v, b
    <3>2. ((a .. b - 1) \cup (a .. BMP - 1)) \ (a .. b - 1) = b .. BMP - 1 BY <1>4, SMTT(30)
    <3> QED BY <1>7, <1>8, <3>1, <3>2
  <2> QED BY <2>1, <2>2
<1>10. ASSUME NEW j \in 0 .. e - 1, j # k
       PROVE  meta'.fcb[j] = meta.fcb[j] /\ ChainOf(meta', j) = ChainOf(meta, j)
  <2>1. j \in InUse(meta) /\ meta.fcb[j].fileName = At(j) BY DEF EarlyAt
  <2>2. At(j) # Demo[k]
    <3>1. j # k => meta.fcb[j].fileName # meta.fcb[k].fileName
      BY <1>1, <1>2, <2>1, NamesAssumption DEF Order
    <3> QED BY <1>1, <1>2, <1>10, <2>1, <3>1
  <2>3. Operates(Demo[k]) BY <1>1 DEF Operates, d
  <2> QED BY <1>1, <2>1, <2>2, <2>3, OthersStay
<1>11. v = 0 \/ v < e BY DEF v, EarlyAt
<1>12. ASSUME NEW j \in 1 .. v PROVE ChainOf(meta', j) = Region(j)
  <2>1. CASE j = k BY <1>6, <1>8, <2>1
  <2>2. CASE j # k
    <3>1. j \in 0 .. e - 1 /\ j \in 1 .. w BY <1>1, <1>11, <2>2 DEF v, n
    <3> QED BY <1>10, <2>2, <3>1 DEF EarlyAt
  <2> QED BY <2>1, <2>2
<1>13. ASSUME NEW j \in 0 .. e - 1, j \notin 1 .. v
       PROVE  meta'.fcb[j].start = EOF_PG /\ meta'.fcb[j].size = 0
  <2>1. j # k /\ j \notin 1 .. w BY <1>1, <1>13 DEF v
  <2> QED BY <1>10, <2>1 DEF EarlyAt
<1>14. \A j \in 0 .. e - 1 : meta'.fcb[j].fileName = At(j)
  <2>1. \A j \in 0 .. e - 1 : j \in Slot /\ meta.fcb[j].fileName = At(j) BY DEF EarlyAt, InUse
  <2> QED BY <1>8, <2>1
<1>15. InUse(meta') = 0 .. e - 1 BY <1>8 DEF EarlyAt
<1> QED BY <1>8, <1>9, <1>11, <1>12, <1>13, <1>14, <1>15 DEF EarlyAt, v, d

\* With the last step of the script the directory is complete.
LEMMA LastWrite ==
  ASSUME Inv(FALSE), EarlyAt(meta, Len(Demo) + 1, Len(Demo)), writeFile(SCHEDULE, Factory[SCHEDULE])
  PROVE  Files'[SCHEDULE] = File(Factory[SCHEDULE]) /\ Base(meta')
<1> DEFINE n == Len(Demo)
           d == Factory[SCHEDULE]
           a == DemoPages[n]
           free == FreePages(Gone(meta, 0))
<1>1. /\ n \in Nat /\ 0 \in 0 .. n /\ 0 \in Slot /\ At(0) = SCHEDULE /\ SCHEDULE \in Name /\ d \in Data
      /\ meta \in Metadata /\ Order(meta, FALSE) /\ Need(d) \in Nat /\ Need(d) > 0
  <2>1. n \in Nat /\ 0 \in 0 .. n BY OursIs
  <2>2. 0 \in Slot /\ At(0) = SCHEDULE /\ SCHEDULE \in Name BY <2>1, AtIs
  <2>3. d \in Data /\ Need(d) \in Nat /\ Need(d) > 0 BY OursIs
  <2>4. meta \in Metadata /\ Order(meta, FALSE) BY DEF Inv, Types, OrderBoth
  <2> QED BY <2>1, <2>2, <2>3, <2>4
<1>2. /\ 0 \in 0 .. (n + 1) - 1 /\ 0 \notin 1 .. n /\ \A i \in 0 .. n : i \in 0 .. (n + 1) - 1
  BY <1>1
<1>3. /\ 0 \in InUse(meta) /\ meta.fcb[0].fileName = At(0) /\ meta.fcb[0].start = EOF_PG
      /\ \A i \in 0 .. n : i \in InUse(meta) /\ meta.fcb[i].fileName = At(i)
      /\ \A i \in 1 .. n : ChainOf(meta, i) = Region(i)
      /\ FreePages(meta) = a .. BMP - 1
  BY <1>2 DEF EarlyAt
<1>4. arsfs_find(meta, SCHEDULE) = 0
  <2>1. arsfs_find(meta, At(0)) = 0 BY <1>1, <1>3, FoundAt
  <2> QED BY <1>1, <2>1
<1>5. a \in Nat /\ BMP \in Nat /\ a + Need(d) <= BMP BY <1>1, DemoPagesAre, GeometryAssumption
<1>6. free = a .. BMP - 1
  <2>1. ChainOf(meta, 0) = {} BY <1>1, <1>3, EmptyChain
  <2>2. free = FreePages(meta) \cup ChainOf(meta, 0) BY <1>1, <1>3, GoneOrder
  <2> QED BY <1>3, <2>1, <2>2
<1> HIDE DEF n, d, a, free
<1>7. /\ InUse(meta') = InUse(meta) /\ Files'[SCHEDULE] = File(d)
      /\ \A j \in Slot : meta'.fcb[j].fileName = meta.fcb[j].fileName
      /\ meta'.fcb[0].start = a
  <2>1. writeFile(SCHEDULE, d) BY DEF d
  <2>2. (\A p \in free : a <= p) /\ (\A p \in a .. a + Need(d) - 1 : p \in free)
    BY <1>1, <1>5, <1>6
  <2>3. LET fr == FreePages(Gone(meta, arsfs_find(meta, SCHEDULE)))
        IN  (\A p \in fr : a <= p) /\ (\A p \in a .. a + Need(d) - 1 : p \in fr)
    BY <1>4, <2>2, Zenon DEF free
  <2>4. LET i == arsfs_find(meta, SCHEDULE) IN
         /\ i \in InUse(meta) /\ InUse(meta') = InUse(meta) /\ Files'[SCHEDULE] = File(d)
         /\ \A j \in Slot : meta'.fcb[j].fileName = meta.fcb[j].fileName
         /\ ChainOf(meta', i) = a .. a + Need(d) - 1
         /\ FreePages(meta') = FreePages(Gone(meta, i)) \ (a .. a + Need(d) - 1)
         /\ Need(d) > 0 => meta'.fcb[i].start = a
    BY <1>1, <1>5, <2>1, <2>3, FillsRegion
  <2> QED BY <1>1, <1>4, <2>4, Zenon
<1>8. ASSUME NEW i \in 1 .. n PROVE ChainOf(meta', i) = Region(i)
  <2>1. i \in 0 .. Len(Demo) /\ i # 0 /\ 0 \in 0 .. Len(Demo) BY <1>1 DEF n
  <2>2. i \in InUse(meta) /\ meta.fcb[i].fileName # SCHEDULE BY <1>1, <1>3, <2>1, AtIs DEF n
  <2>3. Operates(SCHEDULE) BY <1>1 DEF Operates, d
  <2> QED BY <1>1, <1>3, <2>2, <2>3, OthersStay
<1>9. \A i \in 0 .. n : i \in InUse(meta') /\ meta'.fcb[i].fileName = At(i)
  <2>1. \A i \in 0 .. n : i \in Slot BY AtIs DEF n
  <2> QED BY <1>3, <1>7, <2>1
<1> QED BY <1>7, <1>8, <1>9 DEF Base, n, d, a

-----------------------------------------------------------------------------
(***************************************************************************)
(* The invariant.  Until all is laid down the flash has no directory or    *)
(* one of the beginnings; from then on it has the complete one, and what   *)
(* the host writes besides lies behind the demos.                          *)
(***************************************************************************)
Whole(g) == \A o \in Ours : g[o] = File(Factory[o])
Bare == flash.meta = ERASED \/ Early(flash.meta)
Settled == Base(flash.meta) /\ (todo # <<>> => pc = "run" /\ target \notin Ours \cup {ALL})

\* Where the script is after q steps.
LeftFrom(q) ==
  /\ Len(left) = 2 * Len(Demo) + 2 - q
  /\ \A j \in 1 .. Len(left) : left[j] = Script[q + j]
Progress(q, e, w) ==
  /\ EarlyAt(meta, e, w) /\ (q >= 1 => e >= 1)
  /\ \A k \in 1 .. Len(Demo) :
       /\ q >= 2 * k => k < e
       /\ q >= 2 * k + 1 => k <= w /\ Files[Demo[k]] = File(Factory[Demo[k]])
Got(q) == \E e \in 0 .. Len(Demo) + 1, w \in 0 .. Len(Demo) : Progress(q, e, w)
Laying == \E q \in 0 .. 2 * Len(Demo) + 1 : LeftFrom(q) /\ Got(q)

SectorErased ==
  secBuf # NONE =>
    IF Head(todo).page = META THEN flash.meta = ERASED
    ELSE \A q \in Neighbours(Head(todo).page) : flash.page[q] = ERASED
DemosFirst ==
  /\ SectorErased
  /\ pc \in {"off", "probe"} => Bare \/ (Base(flash.meta) /\ Whole(OnFlash))
  /\ pc = "probe" /\ todo # <<>> => meta = Blank /\ Len(todo) = 1
  /\ pc = "lay" => Bare /\ Laying
  /\ pc \in {"load", "run"} => Base(meta) /\ Whole(Files) /\ (Bare \/ Settled)
FirstInv == Inv(FALSE) /\ Steady /\ (harm \/ DemosFirst)

LEMMA BlankIsEarly == Early(Blank)
<1>1. 0 \in 0 .. Len(Demo) + 1 /\ 0 \in 0 .. Len(Demo) BY OursIs
<1> QED BY <1>1, BlankEarly DEF Early

\* What is read of SCHEDULE when the firmware's contents are: not nothing, and its
\* first page is not erased.
LEMMA FirstPageRead ==
  LET f == File(Factory[SCHEDULE]) IN
  f.pages # <<>> /\ 1 \in DOMAIN f.pages /\ f.pages[1] # ERASED /\ f \notin {ABSENT, EMPTY}
<1> DEFINE d == Factory[SCHEDULE]
           f == File(d)
<1>1. d \in Data /\ Need(d) \in Nat /\ Need(d) > 0 BY OursIs
<1>2. f.pages = [k \in 1 .. Need(d) |-> <<d, k>>] BY DEF File, Need
<1>3. ABSENT.pages = <<>> /\ EMPTY.pages = <<>> BY DEF ABSENT, EMPTY
<1> HIDE DEF f
<1>4. 1 \in DOMAIN f.pages /\ f.pages[1] = <<d, 1>> BY <1>1, <1>2
<1>5. <<d, 1>> \in Data \X (Nat \ {0}) BY <1>1
<1>6. <<d, 1>> # ERASED BY <1>5, MarkerAssumption
<1>7. DOMAIN <<>> = {} OBVIOUS
<1>8. f.pages # <<>> BY <1>4, <1>7
<1> QED BY <1>3, <1>4, <1>6, <1>8 DEF f

\* The first page that is read is the one the chain begins with.
LEMMA ReadsFirst ==
  ASSUME NEW m \in Metadata, NEW i \in Slot, NEW pg, 1 \in DOMAIN ReadAt(m, pg, i).pages
  PROVE  ReadAt(m, pg, i).pages[1] = pg[m.fcb[i].start]
<1> DEFINE u == [k \in 1 .. pgCount(m.fcb[i].size) |-> Nth(m, m.fcb[i].start, k - 1)]
<1>1. PICK c \in 0 .. pgCount(m.fcb[i].size) : Cardinality(Reads(m, i)) = c BY ReadsInOrder
<1>2. pgCount(m.fcb[i].size) \in Nat BY EntryFacts, CountIs
<1>3. ReadAt(m, pg, i).pages = [k \in 1 .. c |-> pg[u[k]]] BY <1>1 DEF ReadAt
<1>4. 1 \in 1 .. c /\ 1 \in 1 .. pgCount(m.fcb[i].size) BY <1>2, <1>3
<1>5. u[1] = Nth(m, m.fcb[i].start, 0)
  <2>1. 1 - 1 = 0 OBVIOUS
  <2> QED BY <1>4, <2>1
<1>6. Links(m) /\ m.fcb[i].start \in Place BY EntryFacts
<1>7. u[1] = m.fcb[i].start BY <1>5, <1>6, NthFacts
<1> HIDE DEF u
<1> QED BY <1>3, <1>4, <1>7

\* A step of the script that is not possible has been done already.
LEMMA FirstLaid ==
  ASSUME Inv(FALSE), Got(0),
         IF 0 \in FreeSlots(meta) THEN createFileAt(SCHEDULE, 0) ELSE UNCHANGED vars
  PROVE  Got(1)'
<1> DEFINE n == Len(Demo)
<1>1. n \in Nat /\ 0 \in Slot /\ Len(Demo)' = n BY OursIs, AtIs
<1>2. PICK e \in 0 .. n + 1, w \in 0 .. n : Progress(0, e, w) BY DEF Got
<1>3. e \in Nat /\ w \in Nat /\ EarlyAt(meta, e, w) BY <1>1, <1>2 DEF Progress
<1>4. \A k \in 1 .. n : ~(1 >= 2 * k) /\ ~(1 >= 2 * k + 1) BY <1>1
<1>5. CASE 0 \in FreeSlots(meta)
  <2>1. EarlyAt(meta', 1, 0) BY <1>3, <1>5, EarlyFirst
  <2>2. Progress(1, 1, 0)' BY <1>4, <2>1 DEF Progress
  <2>3. 1 \in 0 .. n + 1 /\ 0 \in 0 .. n BY <1>1
  <2> QED BY <2>2, <2>3 DEF Got
<1>6. CASE 0 \notin FreeSlots(meta)
  <2>1. 0 \in 0 .. e - 1 BY <1>1, <1>3, <1>6 DEF FreeSlots, EarlyAt
  <2>2. meta' = meta BY <1>6 DEF vars
  <2>3. Progress(1, e, w)' BY <1>3, <1>4, <2>1, <2>2 DEF Progress
  <2> QED BY <2>3 DEF Got
<1> QED BY <1>5, <1>6

LEMMA CreateLaid ==
  ASSUME Inv(FALSE), NEW k \in 1 .. Len(Demo), Got(2 * k - 1),
         IF ~Has(Demo[k]) /\ FreeSlots(meta) # {} THEN createFile(Demo[k]) ELSE UNCHANGED vars
  PROVE  Got(2 * k)'
<1> DEFINE n == Len(Demo)
<1>1. /\ n \in Nat /\ k \in 0 .. n /\ k \in Slot /\ At(k) = Demo[k] /\ Demo[k] \in Name
      /\ \A j \in 0 .. n : j # k => At(j) # Demo[k]
  <2>1. n \in Nat /\ k \in 0 .. n BY OursIs
  <2> QED BY <2>1, AtIs
<1>2. PICK e \in 0 .. n + 1, w \in 0 .. n : Progress(2 * k - 1, e, w) BY DEF Got
<1>3. EarlyAt(meta, e, w) /\ e \in Nat BY <1>1, <1>2 DEF Progress
<1>4. k <= e
  <2>1. CASE k = 1 BY <1>1, <1>2, <2>1 DEF Progress
  <2>2. CASE k # 1
    <3>1. k - 1 \in 1 .. n /\ 2 * k - 1 >= 2 * (k - 1) BY <1>1, <2>2
    <3>2. k - 1 < e BY <1>2, <3>1 DEF Progress
    <3> QED BY <1>1, <1>3, <3>2
  <2> QED BY <2>1, <2>2
<1>5. ASSUME NEW j \in 1 .. n, 2 * k >= 2 * j + 1
      PROVE  j <= w /\ Files[Demo[j]] = File(Factory[Demo[j]]) /\ j # k /\ Demo[j] # Demo[k] /\ Demo[j] \in Name
  <2>1. 2 * k - 1 >= 2 * j + 1 /\ j # k /\ j \in 0 .. n BY <1>1, <1>5
  <2>2. j <= w /\ Files[Demo[j]] = File(Factory[Demo[j]]) BY <1>2, <2>1 DEF Progress
  <2>3. At(j) = Demo[j] /\ Demo[j] \in Name BY <2>1, AtIs
  <2> QED BY <1>1, <2>1, <2>2, <2>3
<1>6. CASE ~Has(Demo[k]) /\ FreeSlots(meta) # {}
  <2>1. createFile(Demo[k]) BY <1>6
  <2>2. e = k /\ EarlyAt(meta', k + 1, w) BY <1>3, <1>4, <2>1, EarlyCreate
  <2>3. \A o \in Name \ {Demo[k]} : Files'[o] = Files[o] BY <1>1, <2>1, OthersStay DEF Operates
  <2>4. Progress(2 * k, k + 1, w)'
    <3>1. \A j \in 1 .. n : 2 * k >= 2 * j => j < k + 1 BY <1>1
    <3>2. \A j \in 1 .. n : 2 * k >= 2 * j + 1 => j <= w /\ Files'[Demo[j]] = File(Factory[Demo[j]])
      BY <1>5, <2>3
    <3>3. k + 1 >= 1 BY <1>1
    <3> QED BY <2>2, <3>1, <3>2, <3>3 DEF Progress
  <2>5. k + 1 \in 0 .. n + 1 BY <1>1
  <2> QED BY <2>4, <2>5 DEF Got
<1>7. CASE ~(~Has(Demo[k]) /\ FreeSlots(meta) # {})
  <2>1. UNCHANGED vars BY <1>7
  <2>2. meta' = meta /\ Files' = Files BY <2>1, SameFiles
  <2>3. k < e
    <3>1. ASSUME e = k PROVE FALSE
      <4>1. k \in FreeSlots(meta) BY <1>1, <1>3, <3>1 DEF FreeSlots, EarlyAt
      <4>2. PICK i : i \in Hits(meta, Demo[k]) BY <1>7, <4>1 DEF Has
      <4>3. i \in 0 .. k - 1 /\ meta.fcb[i].fileName = Demo[k] BY <1>3, <3>1, <4>2 DEF Hits, EarlyAt
      <4>4. At(i) = Demo[k] BY <1>3, <3>1, <4>3 DEF EarlyAt
      <4> QED BY <1>1, <4>3, <4>4
    <3> QED BY <1>1, <1>3, <1>4, <3>1
  <2>4. Progress(2 * k, e, w)'
    <3>1. \A j \in 1 .. n : 2 * k >= 2 * j => j < e BY <1>1, <1>3, <2>3
    <3>2. \A j \in 1 .. n : 2 * k >= 2 * j + 1 => j <= w /\ Files'[Demo[j]] = File(Factory[Demo[j]])
      BY <1>5, <2>2
    <3>3. e >= 1 BY <1>1, <1>3, <2>3
    <3> QED BY <1>3, <2>2, <3>1, <3>2, <3>3 DEF Progress
  <2> QED BY <2>4 DEF Got
<1> QED BY <1>6, <1>7

LEMMA WriteLaid ==
  ASSUME Inv(FALSE), NEW k \in 1 .. Len(Demo), Got(2 * k),
         IF Has(Demo[k]) THEN writeFile(Demo[k], Factory[Demo[k]]) ELSE UNCHANGED vars
  PROVE  Got(2 * k + 1)'
<1> DEFINE n == Len(Demo)
           d == Factory[Demo[k]]
<1>1. /\ n \in Nat /\ k \in 0 .. n /\ k \in Slot /\ At(k) = Demo[k] /\ Demo[k] \in Name /\ d \in Data
      /\ \A j \in 0 .. n : j # k => At(j) # Demo[k]
  <2>1. n \in Nat /\ k \in 0 .. n BY OursIs
  <2>2. Demo[k] \in Ours BY OursIs
  <2>3. d \in Data BY <2>2, OursIs
  <2> QED BY <2>1, <2>3, AtIs
<1>2. PICK e \in 0 .. n + 1, w \in 0 .. n : Progress(2 * k, e, w) BY DEF Got
<1>3. EarlyAt(meta, e, w) /\ e \in Nat /\ k < e BY <1>1, <1>2 DEF Progress
<1>4. k - 1 <= w
  <2>1. CASE k = 1 BY <1>1, <2>1
  <2>2. CASE k # 1
    <3>1. k - 1 \in 1 .. n /\ 2 * k >= 2 * (k - 1) + 1 BY <1>1, <2>2
    <3> QED BY <1>2, <3>1 DEF Progress
  <2> QED BY <2>1, <2>2
<1>5. writeFile(Demo[k], d)
  <2>1. k \in 0 .. e - 1 BY <1>1, <1>3
  <2>2. k \in Hits(meta, Demo[k]) BY <1>1, <1>3, <2>1 DEF EarlyAt, Hits
  <2> QED BY <2>2 DEF Has
<1> DEFINE v == IF k <= w THEN w ELSE k
<1>6. Files'[Demo[k]] = File(d) /\ EarlyAt(meta', e, v)
  <2>1. writeFile(Demo[k], Factory[Demo[k]]) BY <1>5
  <2> QED BY <1>3, <1>4, <2>1, EarlyWrite
<1>7. \A o \in Name \ {Demo[k]} : Files'[o] = Files[o] BY <1>1, <1>5, OthersStay DEF Operates
<1> HIDE DEF d
<1>8. ASSUME NEW j \in 1 .. n, 2 * k + 1 >= 2 * j + 1
      PROVE  j <= v /\ Files'[Demo[j]] = File(Factory[Demo[j]])
  <2>1. CASE j = k BY <1>1, <1>6, <2>1 DEF d
  <2>2. CASE j # k
    <3>1. 2 * k >= 2 * j + 1 /\ j \in 0 .. n BY <1>1, <1>8, <2>2, SMTT(30)
    <3>2. j <= w /\ Files[Demo[j]] = File(Factory[Demo[j]]) BY <1>2, <3>1 DEF Progress
    <3>3. At(j) = Demo[j] /\ Demo[j] \in Name BY <3>1, AtIs
    <3>4. Files'[Demo[j]] = Files[Demo[j]] BY <1>1, <1>7, <2>2, <3>1, <3>3
    <3>5. j <= v BY <1>1, <3>2
    <3> QED BY <3>2, <3>4, <3>5
  <2> QED BY <2>1, <2>2
<1>9. \A j \in 1 .. n : 2 * k + 1 >= 2 * j => j < e BY <1>1, <1>3
<1>10. v \in 0 .. n /\ e >= 1 BY <1>1, <1>3
<1> HIDE DEF v
<1>11. Progress(2 * k + 1, e, v)' BY <1>6, <1>8, <1>9, <1>10 DEF Progress
<1> QED BY <1>10, <1>11 DEF Got

LEMMA LastLaid ==
  ASSUME Inv(FALSE), Got(2 * Len(Demo) + 1),
         IF Has(SCHEDULE) THEN writeFile(SCHEDULE, Factory[SCHEDULE]) ELSE UNCHANGED vars
  PROVE  Base(meta') /\ Whole(Files')
<1> DEFINE n == Len(Demo)
           d == Factory[SCHEDULE]
<1>1. n \in Nat /\ 0 \in 0 .. n /\ At(0) = SCHEDULE /\ SCHEDULE \in Name /\ d \in Data
  <2>1. n \in Nat /\ 0 \in 0 .. n BY OursIs
  <2> QED BY <2>1, AtIs, OursIs
<1>2. PICK e \in 0 .. n + 1, w \in 0 .. n : Progress(2 * n + 1, e, w) BY DEF Got
<1>3. e = n + 1 /\ w = n
  <2>1. CASE n = 0
    <3>1. e >= 1 BY <2>1, <1>2 DEF Progress
    <3> QED BY <1>1, <2>1, <3>1
  <2>2. CASE n # 0
    <3>1. n \in 1 .. n /\ 2 * n + 1 >= 2 * n /\ 2 * n + 1 >= 2 * n + 1 BY <1>1, <2>2
    <3>2. n < e /\ n <= w BY <1>2, <3>1 DEF Progress
    <3> QED BY <1>1, <3>2
  <2> QED BY <2>1, <2>2
<1>4. EarlyAt(meta, n + 1, n) BY <1>2, <1>3 DEF Progress
<1>5. writeFile(SCHEDULE, d)
  <2>1. 0 \in 0 .. (n + 1) - 1 BY <1>1
  <2>2. 0 \in Hits(meta, SCHEDULE) BY <1>1, <1>4, <2>1 DEF EarlyAt, Hits
  <2> QED BY <2>2 DEF Has
<1>6. Files'[SCHEDULE] = File(d) /\ Base(meta')
  <2>1. writeFile(SCHEDULE, Factory[SCHEDULE]) BY <1>5
  <2> QED BY <1>4, <2>1, LastWrite
<1>7. \A o \in Name \ {SCHEDULE} : Files'[o] = Files[o] BY <1>1, <1>5, OthersStay DEF Operates
<1> HIDE DEF d
<1>8. ASSUME NEW o \in Ours PROVE Files'[o] = File(Factory[o])
  <2>1. CASE o = SCHEDULE BY <1>6, <2>1 DEF d
  <2>2. CASE o # SCHEDULE
    <3>1. PICK k \in 1 .. n : o = Demo[k] BY <2>2, OursIs
    <3>2. 2 * n + 1 >= 2 * k + 1 BY <1>1
    <3>3. Files[Demo[k]] = File(Factory[Demo[k]]) BY <1>2, <3>2 DEF Progress
    <3>4. o \in Name \ {SCHEDULE} BY <2>2, OursIs
    <3> QED BY <1>7, <3>1, <3>3, <3>4
  <2> QED BY <2>1, <2>2
<1> QED BY <1>6, <1>8 DEF Whole

-----------------------------------------------------------------------------
(***************************************************************************)
(* The steps of the device, one by one.                                    *)
(***************************************************************************)
LEMMA LaidFrom ==
  ASSUME Steady, pc = "lay", NEW q \in 0 .. 2 * Len(Demo) + 1, LeftFrom(q)
  PROVE  /\ Head(left) = Script[q + 1] /\ (Tail(left) = <<>> <=> q = 2 * Len(Demo) + 1)
         /\ Len(Tail(left)) = 2 * Len(Demo) + 2 - (q + 1)
         /\ \A j \in 1 .. Len(Tail(left)) : Tail(left)[j] = Script[(q + 1) + j]
<1>1. Len(Demo) \in Nat BY OursIs
<1>2. left \in Seq(Steps) /\ left # <<>> BY DEF Steady
<1>3. /\ Len(left) \in Nat /\ Len(left) > 0 /\ Head(left) = left[1] /\ Tail(left) \in Seq(Steps)
      /\ Len(Tail(left)) = Len(left) - 1
      /\ \A k \in 1 .. Len(Tail(left)) : Tail(left)[k] = left[k + 1]
  BY <1>2, HeadTailProperties, EmptySeq
<1>4. Len(left) = 2 * Len(Demo) + 2 - q /\ \A j \in 1 .. Len(left) : left[j] = Script[q + j]
  BY DEF LeftFrom
<1>5. Tail(left) = <<>> <=> Len(Tail(left)) = 0 BY <1>3, EmptySeq
<1>6. \A j \in 1 .. Len(Tail(left)) : j + 1 \in 1 .. Len(left) /\ q + (j + 1) = (q + 1) + j BY <1>3
<1>7. \A j \in 1 .. Len(Tail(left)) : Tail(left)[j] = Script[(q + 1) + j]
  <2>1. \A j \in 1 .. Len(Tail(left)) : left[j + 1] = Script[q + (j + 1)] BY <1>4, <1>6
  <2> QED BY <1>3, <1>6, <2>1
<1>8. Head(left) = Script[q + 1] BY <1>3, <1>4
<1> DEFINE l == Len(left)
           t == Len(Tail(left))
           n == Len(Demo)
<1>9. l \in Nat /\ l > 0 /\ t = l - 1 /\ l = 2 * n + 2 - q /\ n \in Nat BY <1>1, <1>3, <1>4
<1> HIDE DEF l, t, n
<1>10. t = 2 * n + 2 - (q + 1) /\ (t = 0 <=> q = 2 * n + 1) BY <1>9 DEF n
<1> QED BY <1>5, <1>7, <1>8, <1>10, Zenon DEF t, n

\* A step s of the script: what is done if it is possible.
Does1(s) == IF Possible(s) THEN Performs(s) ELSE UNCHANGED vars
LEMMA StepIs ==
  /\ Does1(Step("createFileAt", SCHEDULE)) =>
       IF 0 \in FreeSlots(meta) THEN createFileAt(SCHEDULE, 0) ELSE UNCHANGED vars
  /\ \A n : Does1(Step("createFile", n)) =>
       IF ~Has(n) /\ FreeSlots(meta) # {} THEN createFile(n) ELSE UNCHANGED vars
  /\ \A n : Does1(Step("writeFile", n)) =>
       IF Has(n) THEN writeFile(n, Factory[n]) ELSE UNCHANGED vars
<1>1. ASSUME NEW f, NEW n PROVE Step(f, n).does = f /\ Step(f, n).name = n BY DEF Step
<1>2. Does1(Step("createFileAt", SCHEDULE)) =>
        IF 0 \in FreeSlots(meta) THEN createFileAt(SCHEDULE, 0) ELSE UNCHANGED vars
  <2> DEFINE s == Step("createFileAt", SCHEDULE)
  <2>1. s.does = "createFileAt" /\ s.name = SCHEDULE BY <1>1
  <2> HIDE DEF s
  <2>2. /\ Possible(s) <=> 0 \in FreeSlots(meta)
        /\ Performs(s) <=> createFileAt(s.name, 0)
    BY <2>1 DEF Possible, Performs
  <2> QED BY <2>1, <2>2 DEF Does1, s
<1>3. ASSUME NEW n
      PROVE  Does1(Step("createFile", n)) =>
               IF ~Has(n) /\ FreeSlots(meta) # {} THEN createFile(n) ELSE UNCHANGED vars
  <2> DEFINE s == Step("createFile", n)
  <2>1. s.does = "createFile" /\ s.name = n BY <1>1
  <2> HIDE DEF s
  <2>2. /\ Possible(s) <=> ~Has(s.name) /\ FreeSlots(meta) # {}
        /\ Performs(s) <=> createFile(s.name)
    BY <2>1 DEF Possible, Performs
  <2> QED BY <2>1, <2>2 DEF Does1, s
<1>4. ASSUME NEW n
      PROVE  Does1(Step("writeFile", n)) =>
               IF Has(n) THEN writeFile(n, Factory[n]) ELSE UNCHANGED vars
  <2> DEFINE s == Step("writeFile", n)
  <2>1. s.does = "writeFile" /\ s.name = n BY <1>1
  <2> HIDE DEF s
  <2>2. /\ Possible(s) <=> Has(s.name)
        /\ Performs(s) <=> writeFile(s.name, Factory[s.name])
    BY <2>1 DEF Possible, Performs
  <2> QED BY <2>1, <2>2 DEF Does1, s
<1> QED BY <1>2, <1>3, <1>4

LEMMA LayStep ==
  ASSUME Inv(FALSE), Steady, Laying, layDown
  PROVE  /\ flash' = flash /\ secBuf' = NONE
         /\ \/ pc' = "lay" /\ Laying'
            \/ pc' = "load" /\ Base(meta') /\ Whole(Files')
<1> DEFINE n == Len(Demo)
           s == Head(left)
<1>1. /\ pc = "lay" /\ Ready /\ Does1(s) /\ left' = Tail(left) /\ Queue
      /\ pc' = IF Tail(left) = <<>> THEN "load" ELSE "lay"
  BY DEF layDown, Does1, Inv
<1>2. flash' = flash /\ secBuf' = NONE
  <2>1. CASE Performs(s)
    <3>1. s \in Steps BY <1>1, LeftIs
    <3>2. s.name \in Name /\ Operates(s.name) BY <2>1, <3>1, LaidIs DEF Operates
    <3> QED BY <3>2, OthersStay
  <2>2. CASE UNCHANGED vars BY <1>1, <2>2 DEF vars, Ready, Queue
  <2> QED BY <1>1, <2>1, <2>2 DEF Does1
<1>3. PICK q \in 0 .. 2 * n + 1 : LeftFrom(q) /\ Got(q) BY DEF Laying
<1>4. /\ s = Script[q + 1] /\ (Tail(left) = <<>> <=> q = 2 * n + 1)
      /\ Len(Tail(left)) = 2 * n + 2 - (q + 1)
      /\ \A j \in 1 .. Len(Tail(left)) : Tail(left)[j] = Script[(q + 1) + j]
  BY <1>1, <1>3, LaidFrom
<1>5. n \in Nat BY OursIs
<1> HIDE DEF s
<1>6. CASE q # 2 * n + 1
  <2>1. pc' = "lay" BY <1>1, <1>4, <1>6
  <2>2. LeftFrom(q + 1)'
    <3>1. /\ Len(left') = 2 * n + 2 - (q + 1)
          /\ \A j \in 1 .. Len(left') : left'[j] = Script[(q + 1) + j]
      BY <1>1, <1>4
    <3> QED BY <3>1 DEF LeftFrom
  <2>3. Got(q + 1)'
    <3>1. CASE q = 0
      <4>1. s = Step("createFileAt", SCHEDULE) BY <1>4, <3>1, ScriptIs
      <4>2. IF 0 \in FreeSlots(meta) THEN createFileAt(SCHEDULE, 0) ELSE UNCHANGED vars
        BY <1>1, <4>1, StepIs
      <4>3. Got(0) BY <1>3, <3>1
      <4>4. Got(1)' BY <4>2, <4>3, FirstLaid
      <4> QED BY <3>1, <4>4
    <3>2. ASSUME NEW k \in 1 .. n, q = 2 * k - 1 PROVE Got(q + 1)'
      <4>1. q + 1 = 2 * k BY <1>5, <3>2
      <4>2. s = Step("createFile", Demo[k]) BY <1>4, <4>1, ScriptIs
      <4>3. IF ~Has(Demo[k]) /\ FreeSlots(meta) # {} THEN createFile(Demo[k]) ELSE UNCHANGED vars
        BY <1>1, <4>2, StepIs
      <4>4. Got(2 * k - 1) BY <1>3, <3>2
      <4>5. Got(2 * k)' BY <4>3, <4>4, CreateLaid
      <4> QED BY <4>1, <4>5
    <3>3. ASSUME NEW k \in 1 .. n, q = 2 * k PROVE Got(q + 1)'
      <4>1. s = Step("writeFile", Demo[k]) BY <1>4, <3>3, ScriptIs
      <4>2. IF Has(Demo[k]) THEN writeFile(Demo[k], Factory[Demo[k]]) ELSE UNCHANGED vars
        BY <1>1, <4>1, StepIs
      <4>3. Got(2 * k) BY <1>3, <3>3
      <4>4. Got(2 * k + 1)' BY <4>2, <4>3, WriteLaid
      <4> QED BY <3>3, <4>4
    <3>4. q = 0 \/ \E k \in 1 .. n : q = 2 * k - 1 \/ q = 2 * k
      <4> SUFFICES ASSUME q # 0 PROVE \E k \in 1 .. n : q = 2 * k - 1 \/ q = 2 * k OBVIOUS
      <4> DEFINE k == (q + 1) \div 2
      <4>1. k \in 1 .. n /\ (q = 2 * k - 1 \/ q = 2 * k) BY <1>5, <1>6
      <4> QED BY <4>1
    <3> QED BY <3>1, <3>2, <3>3, <3>4
  <2>4. q + 1 \in 0 .. 2 * Len(Demo)' + 1 BY <1>5, <1>6
  <2>5. Laying' BY <2>2, <2>3, <2>4 DEF Laying
  <2> QED BY <1>2, <2>1, <2>5
<1>7. CASE q = 2 * n + 1
  <2>1. pc' = "load" BY <1>1, <1>4, <1>7
  <2>2. q + 1 = 2 * n + 2 BY <1>5, <1>7
  <2>3. s = Step("writeFile", SCHEDULE) BY <1>4, <2>2, ScriptIs
  <2>4. IF Has(SCHEDULE) THEN writeFile(SCHEDULE, Factory[SCHEDULE]) ELSE UNCHANGED vars
    BY <1>1, <2>3, StepIs
  <2>5. Got(2 * n + 1) BY <1>3, <1>7
  <2>6. Base(meta') /\ Whole(Files') BY <2>4, <2>5, LastLaid
  <2> QED BY <1>2, <2>1, <2>6
<1> QED BY <1>6, <1>7

\* At rest the flash and RAM agree.
LEMMA RestIs ==
  ASSUME Inv(FALSE), Ready
  PROVE  /\ flash.meta = meta /\ meta # ERASED /\ secBuf = NONE
         /\ \A n \in Name : OnFlash[n] = Files[n] /\ Files[n] = readFile(meta, flash.page, n)
         /\ (Whole(OnFlash) <=> Whole(Files))
<1>1. Types /\ Queue /\ todo = <<>> /\ up BY DEF Inv, Ready
<1>2. flash.meta = meta /\ secBuf = NONE /\ meta \in Metadata BY <1>1 DEF Queue, Types
<1>3. meta # ERASED BY <1>2, MarkerAssumption
<1>4. \A n \in Name : OnFlash[n] = readFile(meta, flash.page, n) BY <1>2, <1>3 DEF OnFlash
<1>5. \A n \in Name : Files[n] = readFile(meta, flash.page, n) BY <1>1, AtRest
<1>6. \A o \in Ours : OnFlash[o] = Files[o] BY <1>4, <1>5, OursIs
<1>7. Whole(OnFlash) <=> Whole(Files) BY <1>6 DEF Whole
<1> QED BY <1>2, <1>3, <1>4, <1>5, <1>7

LEMMA ProvisionStep ==
  ASSUME Inv(FALSE), Steady, DemosFirst, provision
  PROVE  DemosFirst'
<1> DEFINE f == Probe
<1>1. /\ pc = "probe" /\ Ready /\ UNCHANGED vars
      /\ IF IsBlank(f) THEN pc' = "lay" /\ left' = Script ELSE pc' = "load"
  BY DEF provision
<1>2. /\ flash.meta = meta /\ meta # ERASED /\ secBuf = NONE /\ todo = <<>>
      /\ \A n \in Name : OnFlash[n] = Files[n] /\ Files[n] = readFile(meta, flash.page, n)
  BY <1>1, RestIs DEF Ready
<1>3. meta' = meta /\ flash' = flash /\ Files' = Files /\ todo' = <<>> /\ secBuf' = NONE
  BY <1>1, <1>2, SameFiles DEF vars
<1>4. SCHEDULE \in Ours /\ SCHEDULE \in Name BY OursIs
<1>5. f = Files[SCHEDULE] /\ f = OnFlash[SCHEDULE] BY <1>2, <1>4 DEF Probe
<1>6. SectorErased' BY <1>3 DEF SectorErased
<1>7. CASE Bare
  <2>1. Early(meta) BY <1>2, <1>7 DEF Bare
  <2>2. Order(meta, FALSE) BY DEF Inv, OrderBoth
  <2>3. f \in {ABSENT, EMPTY} BY <2>1, <2>2, EarlySchedule DEF Probe
  <2>4. IsBlank(f) BY <2>3 DEF IsBlank, ABSENT, EMPTY
  <2>5. pc' = "lay" /\ left' = Script BY <1>1, <2>4
  <2>6. Bare' BY <1>3, <1>7 DEF Bare
  <2>7. Laying'
    <3>1. /\ Len(Demo) \in Nat /\ Len(Script) = 2 * Len(Demo) + 2 - 0
          /\ \A j \in 1 .. Len(Script) : Script[j] = Script[0 + j]
      BY OursIs, ScriptIs
    <3>2. LeftFrom(0)' BY <2>5, <3>1 DEF LeftFrom
    <3>3. PICK e \in 0 .. Len(Demo) + 1, w \in 0 .. Len(Demo) : EarlyAt(meta, e, w)
      BY <2>1 DEF Early
    <3>4. \A k \in 1 .. Len(Demo) : ~(0 >= 2 * k) /\ ~(0 >= 2 * k + 1) OBVIOUS
    <3>5. Progress(0, e, w)' BY <1>3, <3>3, <3>4 DEF Progress
    <3>6. Got(0)' BY <3>5 DEF Got
    <3>7. 0 \in 0 .. 2 * Len(Demo)' + 1 BY <3>1
    <3> QED BY <3>2, <3>6, <3>7 DEF Laying
  <2> QED BY <1>6, <2>5, <2>6, <2>7 DEF DemosFirst
<1>8. CASE ~Bare
  <2>1. Base(flash.meta) /\ Whole(OnFlash) BY <1>1, <1>8 DEF DemosFirst
  <2>2. f = File(Factory[SCHEDULE]) BY <1>4, <1>5, <2>1 DEF Whole
  <2>3. ~IsBlank(f) BY <2>2, FirstPageRead DEF IsBlank
  <2>4. pc' = "load" BY <1>1, <2>3
  <2>5. Whole(Files) BY <1>1, <2>1, RestIs
  <2>6. Settled' BY <1>3, <2>1 DEF Settled
  <2>7. Base(meta)' /\ Whole(Files)' BY <1>2, <1>3, <2>1, <2>5
  <2> QED BY <1>6, <2>4, <2>6, <2>7 DEF DemosFirst
<1> QED BY <1>7, <1>8

\* A SCHEDULE in its place is left there.
LEMMA InPlace ==
  ASSUME Inv(FALSE), Base(meta), loadScheduleFile
  PROVE  UNCHANGED vars
<1>1. Order(meta, FALSE) /\ 0 \in 0 .. Len(Demo) /\ At(0) = SCHEDULE
  <2>1. Order(meta, FALSE) BY DEF Inv, OrderBoth
  <2>2. Len(Demo) \in Nat BY OursIs
  <2>3. 0 \in 0 .. Len(Demo) BY <2>2
  <2> QED BY <2>1, <2>3, AtIs
<1>2. Hits(meta, SCHEDULE) = {0} /\ arsfs_find(meta, SCHEDULE) = 0
  <2>1. 0 \in InUse(meta) /\ meta.fcb[0].fileName = At(0) BY <1>1 DEF Base
  <2> QED BY <1>1, <2>1, FoundAt
<1>3. ~Possible(Step("createFile", SCHEDULE))
  <2> DEFINE s == Step("createFile", SCHEDULE)
  <2>1. s.does = "createFile" /\ s.name = SCHEDULE BY DEF Step
  <2> HIDE DEF s
  <2>2. ~Possible(s) BY <1>2, <2>1 DEF Possible, Has
  <2> QED BY <2>2 DEF s
<1> QED BY <1>2, <1>3 DEF loadScheduleFile

LEMMA LoadStep ==
  ASSUME Inv(FALSE), Steady, DemosFirst, arssched_load
  PROVE  DemosFirst'
<1>1. pc = "load" /\ Ready /\ pc' = "run" BY DEF arssched_load
<1>2. Base(meta) /\ Whole(Files) /\ (Bare \/ Settled) BY <1>1 DEF DemosFirst
<1>3. UNCHANGED vars BY <1>2, InPlace DEF arssched_load
<1>4. secBuf = NONE /\ todo = <<>> BY <1>1, RestIs DEF Ready
<1>5. meta' = meta /\ flash' = flash /\ Files' = Files /\ secBuf' = NONE /\ todo' = <<>>
  BY <1>3, <1>4, SameFiles DEF vars
<1>6. Bare' \/ Settled' BY <1>2, <1>5 DEF Bare, Settled
<1>7. Base(meta)' /\ Whole(Files)' BY <1>2, <1>5
<1>8. SectorErased' BY <1>5 DEF SectorErased
<1> QED BY <1>1, <1>6, <1>7, <1>8 DEF DemosFirst

\* What the host does to other files leaves the directory complete.
LEMMA HostStep ==
  ASSUME Inv(FALSE), Steady, ~harm, DemosFirst, Host
  PROVE  harm' \/ DemosFirst'
<1>1. pc = "run" /\ Ready BY DEF Host
<1>2. Base(meta) /\ Whole(Files) BY <1>1 DEF DemosFirst
<1>3. flash.meta = meta /\ meta # ERASED /\ secBuf = NONE /\ Whole(OnFlash) BY <1>1, <1>2, RestIs
<1>4. CASE /\ \E n \in Name :
                /\ createFile(n) \/ \E d \in Uploads : writeFile(n, d)
                /\ harm' = (harm \/ n \in Ours)
           /\ pc' = pc
  <2>1. PICK n \in Name : /\ createFile(n) \/ \E d \in Uploads : writeFile(n, d)
                          /\ harm' = (harm \/ n \in Ours)
    BY <1>4
  <2> SUFFICES ASSUME n \notin Ours PROVE DemosFirst' BY <2>1
  <2>2. Uploads \subseteq Data BY FactoryAssumption
  <2>3. Operates(n) BY <2>1, <2>2 DEF Operates
  <2>4. /\ secBuf' = NONE /\ flash' = flash /\ target' = n
        /\ \A j \in InUse(meta) : meta.fcb[j].fileName # n =>
             j \in InUse(meta') /\ meta'.fcb[j] = meta.fcb[j] /\ ChainOf(meta', j) = ChainOf(meta, j)
        /\ \A o \in Name \ {n} : Files'[o] = Files[o]
    BY <2>3, OthersStay
  <2>5. ASSUME NEW i \in 0 .. Len(Demo)
        PROVE  i \in InUse(meta') /\ meta'.fcb[i] = meta.fcb[i] /\ ChainOf(meta', i) = ChainOf(meta, i)
    <3>1. i \in InUse(meta) /\ meta.fcb[i].fileName = At(i) BY <1>2 DEF Base
    <3>2. At(i) # n BY AtIs
    <3> QED BY <2>4, <3>1, <3>2
  <2>6. Base(meta')
    <3>1. Len(Demo) \in Nat BY OursIs
    <3>2. 0 \in 0 .. Len(Demo) /\ \A i \in 1 .. Len(Demo) : i \in 0 .. Len(Demo) BY <3>1
    <3> QED BY <1>2, <2>5, <3>2 DEF Base
  <2>7. Whole(Files')
    <3>1. \A o \in Ours : o \in Name \ {n} BY OursIs
    <3> QED BY <1>2, <2>4, <3>1 DEF Whole
  <2>8. Settled'
    <3>1. n # ALL BY MarkerAssumption
    <3> QED BY <1>1, <1>2, <1>3, <1>4, <2>4, <3>1 DEF Settled
  <2>9. SectorErased' BY <2>4 DEF SectorErased
  <2> QED BY <1>1, <1>4, <2>6, <2>7, <2>8, <2>9 DEF DemosFirst
<1>5. CASE format /\ pc' = "probe"
  <2>1. /\ meta' = Blank /\ todo' = <<>> \o Flush /\ flash' = flash /\ secBuf' = NONE
    BY <1>3, <1>5 DEF format, Does
  <2>2. Len(todo') = 1
    <3>1. <<>> \o Flush = Flush BY DEF Flush
    <3> QED BY <2>1, <3>1 DEF Flush
  <2>3. Base(flash'.meta) BY <1>2, <1>3, <2>1
  <2>4. Whole(OnFlash)' BY <1>3, <2>1 DEF Whole, OnFlash
  <2>5. SectorErased' BY <2>1 DEF SectorErased
  <2> QED BY <1>5, <2>1, <2>2, <2>3, <2>4, <2>5 DEF DemosFirst
<1>6. CASE loadScheduleFile /\ pc' = pc
  <2>1. UNCHANGED vars BY <1>2, <1>6, InPlace
  <2>2. /\ meta' = meta /\ flash' = flash /\ Files' = Files /\ secBuf' = secBuf /\ todo' = todo
        /\ target' = target
    BY <2>1, SameFiles DEF vars
  <2>3. Bare' \/ Settled' BY <1>1, <1>6, <2>2 DEF DemosFirst, Bare, Settled
  <2>4. Base(meta)' /\ Whole(Files)' BY <1>2, <2>2
  <2>5. SectorErased' BY <1>3, <2>2 DEF SectorErased
  <2> QED BY <1>1, <1>6, <2>2, <2>3, <2>4, <2>5 DEF DemosFirst
<1> QED BY <1>4, <1>5, <1>6 DEF Host

LEMMA MountStep ==
  ASSUME Inv(FALSE), Steady, DemosFirst, mount
  PROVE  DemosFirst'
<1>1. pc = "off" /\ pc' = "probe" /\ arsfs_init BY DEF mount
<1>2. todo = <<>> /\ secBuf = NONE BY <1>1 DEF Inv, Queue, Steady
<1>3. flash' = flash /\ secBuf' = NONE BY <1>1, <1>2 DEF arsfs_init
<1>4. todo' # <<>> => meta' = Blank /\ Len(todo') = 1 BY <1>1, <1>2 DEF arsfs_init, Flush
<1>5. Bare \/ (Base(flash.meta) /\ Whole(OnFlash)) BY <1>1 DEF DemosFirst
<1>6. Bare' \/ (Base(flash.meta) /\ Whole(OnFlash))'
  <2>1. OnFlash' = OnFlash BY <1>3 DEF OnFlash
  <2> QED BY <1>3, <1>5, <2>1 DEF Bare
<1>7. SectorErased' BY <1>3 DEF SectorErased
<1> QED BY <1>1, <1>4, <1>6, <1>7 DEF DemosFirst

\* The device's steps for a write that waits: the metadata is the last one.
LEMMA WaitsFor ==
  ASSUME Inv(FALSE), Steady, todo # <<>>
  PROVE  /\ pc # "off" /\ Types /\ Queue
         /\ Head(todo).page = META => Tail(todo) = <<>>
         /\ Len(todo) = 1 => Head(todo).page = META
<1>1. Types /\ Queue BY DEF Inv
<1>2. up BY <1>1 DEF Queue
<1>3. Head(todo) = todo[1] /\ (Head(todo).page = META => Tail(todo) = <<>>) BY <1>1, FirstWrite
<1>4. Len(todo) = 1 => todo[1].page = META
  <2> SUFFICES ASSUME Len(todo) = 1 PROVE todo[1].page = META OBVIOUS
  <2>1. 1 \in 1 .. Len(todo) BY SMT
  <2> QED BY <1>1, <2>1 DEF Queue
<1> QED BY <1>1, <1>2, <1>3, <1>4 DEF Steady

LEMMA EraseStep ==
  ASSUME Inv(FALSE), Steady, DemosFirst, Erase, pc' = pc, left' = left
  PROVE  DemosFirst'
<1>1. todo # <<>> /\ meta' = meta /\ todo' = todo /\ target' = target BY DEF Erase
<1>2. /\ pc # "off" /\ Types /\ Queue /\ (Len(todo) = 1 => Head(todo).page = META)
      /\ Files' = Files /\ flash \in [meta : Metadata \cup {ERASED}, page : [Page -> Chunk]]
  BY <1>1, WaitsFor, EraseKeepsFiles DEF Types
<1>3. /\ Head(todo).page = META => flash'.meta = ERASED
      /\ Head(todo).page # META =>
           /\ flash'.meta = flash.meta
           /\ \A q \in Neighbours(Head(todo).page) : flash'.page[q] = ERASED
  <2>1. CASE Head(todo).page = META BY <1>2, <2>1 DEF Erase
  <2>2. CASE Head(todo).page # META
    <3> DEFINE N == Neighbours(Head(todo).page)
    <3>1. flash' = [flash EXCEPT !.page = [q \in Page |-> IF q \in N THEN ERASED ELSE flash.page[q]]]
      BY <2>2 DEF Erase
    <3>2. N \subseteq Page BY DEF Neighbours
    <3> HIDE DEF N
    <3>3. /\ flash'.meta = flash.meta
          /\ flash'.page = [q \in Page |-> IF q \in N THEN ERASED ELSE flash.page[q]]
      BY <1>2, <3>1
    <3>4. \A q \in N : flash'.page[q] = ERASED BY <3>2, <3>3
    <3> QED BY <2>2, <3>3, <3>4 DEF N
  <2> QED BY <2>1, <2>2
<1>4. SectorErased' BY <1>1, <1>3 DEF SectorErased
<1>5. Bare => Bare' BY <1>3 DEF Bare
<1>6. Head(todo).page = META => Bare' BY <1>3 DEF Bare
<1>7. Settled => Bare' \/ Settled' BY <1>1, <1>3, <1>6 DEF Settled
<1>8. Laying => Laying' BY <1>1, <1>2 DEF Laying, LeftFrom, Got, Progress
<1>9. pc = "probe" => Bare' BY <1>1, <1>2, <1>6 DEF DemosFirst
<1> QED BY <1>1, <1>2, <1>4, <1>5, <1>7, <1>8, <1>9 DEF DemosFirst

LEMMA ProgramStep ==
  ASSUME Inv(FALSE), Steady, DemosFirst, Program, pc' = pc, left' = left
  PROVE  DemosFirst'
<1>1. todo # <<>> BY DEF Program, Inv, Queue
<1>2. /\ pc # "off" /\ Types /\ Queue /\ Files' = Files
      /\ Head(todo).page = META => Tail(todo) = <<>>
      /\ Len(todo) = 1 => Head(todo).page = META
  BY <1>1, WaitsFor, ProgramKeepsFiles
<1>3. /\ meta' = meta /\ secBuf' = NONE /\ todo' = Tail(todo)
      /\ todo' # <<>> => target' = target
  BY DEF Program
<1>4. /\ Head(todo).page = META => flash'.meta = meta /\ todo' = <<>>
      /\ Head(todo).page # META => flash'.meta = flash.meta
  <2>1. CASE Head(todo).page = META
    <3>1. secBuf = meta BY <1>2, <2>1 DEF Queue, Program
    <3>2. flash' = [flash EXCEPT !.meta = secBuf] BY <2>1 DEF Program
    <3>3. flash'.meta = secBuf BY <1>2, <3>2 DEF Types
    <3> QED BY <1>2, <1>3, <2>1, <3>1, <3>3
  <2>2. CASE Head(todo).page # META
    <3>1. flash' = WithPages(DOMAIN secBuf) BY <2>2 DEF Program
    <3>2. flash'.meta = flash.meta BY <1>2, <3>1 DEF WithPages, Types
    <3> QED BY <2>2, <3>2
  <2> QED BY <2>1, <2>2
<1>5. SectorErased' BY <1>3 DEF SectorErased
<1>6. CASE Head(todo).page = META
  <2>1. flash'.meta = meta /\ todo' = <<>> BY <1>4, <1>6
  <2>2. pc = "probe" => Bare'
    <3>1. pc = "probe" => meta = Blank BY <1>1 DEF DemosFirst
    <3> QED BY <2>1, <3>1, BlankIsEarly DEF Bare
  <2>3. pc = "lay" => Bare' /\ Laying'
    <3>1. Laying => Early(meta)
      <4> SUFFICES ASSUME Laying PROVE Early(meta) OBVIOUS
      <4>1. PICK q \in 0 .. 2 * Len(Demo) + 1 : Got(q) BY DEF Laying
      <4> QED BY <4>1 DEF Got, Progress, Early
    <3>2. Laying => Laying' BY <1>2, <1>3 DEF Laying, LeftFrom, Got, Progress
    <3> QED BY <2>1, <3>1, <3>2 DEF DemosFirst, Bare
  <2>4. pc \in {"load", "run"} => Base(meta)' /\ Whole(Files)' /\ Settled'
    <3>1. pc \in {"load", "run"} => Base(meta) /\ Whole(Files) BY DEF DemosFirst
    <3> QED BY <1>2, <1>3, <2>1, <3>1 DEF Settled
  <2> QED BY <1>2, <1>5, <2>1, <2>2, <2>3, <2>4 DEF DemosFirst
<1>7. CASE Head(todo).page # META
  <2>1. flash'.meta = flash.meta BY <1>4, <1>7
  <2>2. pc # "probe" BY <1>1, <1>2, <1>7 DEF DemosFirst
  <2>3. Bare => Bare' BY <2>1 DEF Bare
  <2>4. Laying => Laying' BY <1>2, <1>3 DEF Laying, LeftFrom, Got, Progress
  <2>5. Settled => Settled' BY <1>1, <1>3, <2>1 DEF Settled
  <2> QED BY <1>2, <1>3, <1>5, <2>2, <2>3, <2>4, <2>5 DEF DemosFirst
<1> QED BY <1>6, <1>7

\* What a start would find while the host's writes wait.
LEMMA SettledFiles ==
  ASSUME Inv(FALSE), Steady, pc # "off", Settled, Whole(Files), secBuf = NONE
  PROVE  Whole(OnFlash)
<1>1. CASE todo = <<>>
  <2>1. Ready BY <1>1 DEF Ready, Steady
  <2> QED BY <2>1, RestIs
<1>2. CASE todo # <<>>
  <2>1. target # ALL /\ target \notin Ours /\ up BY <1>2 DEF Settled, Steady
  <2>2. OthersSurvive BY SurvivesStep
  <2>3. \A o \in Ours : OnFlash[o] = Files[o] BY <2>1, <2>2, OursIs DEF OthersSurvive
  <2> QED BY <2>3 DEF Whole
<1> QED BY <1>1, <1>2

LEMMA OutageStep ==
  ASSUME Inv(FALSE), Steady, ~harm, DemosFirst, Outage
  PROVE  harm' \/ DemosFirst'
<1> SUFFICES ASSUME ~harm' PROVE DemosFirst' OBVIOUS
<1>1. /\ PowerLoss /\ pc' = "off" /\ secBuf' = NONE
      /\ ~(secBuf # NONE /\ (pc = "run" \/ flash' # flash))
  BY DEF Outage, PowerLoss
<1>2. flash' = flash BY <1>1 DEF PowerLoss
<1>3. OnFlash' = OnFlash BY <1>2 DEF OnFlash
<1>4. Bare \/ (Base(flash.meta) /\ Whole(OnFlash))
  <2>1. pc # "off" /\ pc \in {"off", "probe", "lay", "load", "run"} BY <1>1 DEF PowerLoss, Steady
  <2>2. CASE pc = "probe" BY <2>2 DEF DemosFirst
  <2>3. CASE pc = "lay" BY <2>3 DEF DemosFirst
  <2>4. CASE pc \in {"load", "run"} /\ ~Bare
    <3>1. Whole(Files) /\ Settled BY <2>4 DEF DemosFirst
    <3>2. secBuf = NONE
      <4>1. CASE pc = "run" BY <1>1, <4>1
      <4>2. CASE pc = "load"
        <5>1. todo = <<>> BY <3>1, <4>2 DEF Settled
        <5> QED BY <5>1 DEF Inv, Queue
      <4> QED BY <2>4, <4>1, <4>2
    <3>3. Whole(OnFlash) BY <2>1, <3>1, <3>2, SettledFiles
    <3> QED BY <3>1, <3>3 DEF Settled
  <2> QED BY <2>1, <2>2, <2>3, <2>4
<1>5. SectorErased' BY <1>1 DEF SectorErased
<1>6. Bare' \/ (Base(flash.meta) /\ Whole(OnFlash))' BY <1>2, <1>3, <1>4 DEF Bare
<1> QED BY <1>1, <1>5, <1>6 DEF DemosFirst

LEMMA FirstInit == BootInit => FirstInv
<1> SUFFICES ASSUME BootInit PROVE FirstInv OBVIOUS
<1>1. Init /\ Steady /\ pc = "off" BY SteadyInit DEF BootInit
<1>2. Inv(FALSE) BY <1>1, InitInv
<1>3. Bare /\ SectorErased BY <1>1 DEF Init, Bare, SectorErased
<1>4. DemosFirst BY <1>1, <1>3 DEF DemosFirst
<1> QED BY <1>1, <1>2, <1>4 DEF FirstInv

LEMMA FirstNext == ASSUME FirstInv, [BootNext]_bvars PROVE FirstInv'
<1>1. Inv(FALSE) /\ Steady BY DEF FirstInv
<1>2. Inv(FALSE)'
  <2>1. [Next \/ PowerLoss]_vars BY <1>1, StepsOfDisk
  <2> QED BY <1>1, <2>1, NextInv, PowerLossInv
<1>3. Steady' BY <1>1, SteadyNext
<1>4. harm => harm'
  BY DEF BootNext, mount, provision, layDown, arssched_load, Host, Device, Outage, bvars
<1>5. ASSUME ~harm, DemosFirst PROVE harm' \/ DemosFirst'
  <2>1. CASE UNCHANGED bvars
    <3>1. UNCHANGED vars /\ pc' = pc /\ left' = left BY <2>1 DEF bvars
    <3>2. /\ meta' = meta /\ flash' = flash /\ Files' = Files /\ todo' = todo /\ secBuf' = secBuf
          /\ target' = target
      BY <3>1, SameFiles DEF vars
    <3>3. OnFlash' = OnFlash BY <3>2 DEF OnFlash
    <3> QED BY <1>5, <3>1, <3>2, <3>3
            DEF DemosFirst, SectorErased, Bare, Settled, Laying, LeftFrom, Got, Progress
  <2>2. CASE mount BY <1>1, <1>5, <2>2, MountStep
  <2>3. CASE provision BY <1>1, <1>5, <2>3, ProvisionStep
  <2>4. CASE layDown
    <3>1. pc = "lay" BY <2>4 DEF layDown
    <3>2. Bare /\ Laying BY <1>5, <3>1 DEF DemosFirst
    <3>3. /\ flash' = flash /\ secBuf' = NONE
          /\ \/ pc' = "lay" /\ Laying'
             \/ pc' = "load" /\ Base(meta') /\ Whole(Files')
      BY <1>1, <2>4, <3>2, LayStep
    <3>4. Bare' /\ SectorErased' BY <3>2, <3>3 DEF Bare, SectorErased
    <3> QED BY <3>3, <3>4 DEF DemosFirst
  <2>5. CASE arssched_load BY <1>1, <1>5, <2>5, LoadStep
  <2>6. CASE Host BY <1>1, <1>5, <2>6, HostStep
  <2>7. CASE Device
    <3>1. (Erase \/ Program) /\ pc' = pc /\ left' = left BY <2>7 DEF Device
    <3> QED BY <1>1, <1>5, <3>1, EraseStep, ProgramStep
  <2>8. CASE Outage BY <1>1, <1>5, <2>8, OutageStep
  <2> QED BY <2>1, <2>2, <2>3, <2>4, <2>5, <2>6, <2>7, <2>8 DEF BootNext
<1> QED BY <1>2, <1>3, <1>4, <1>5 DEF FirstInv

\* A directory that is only begun has no schedule to be read.
LEMMA BareHasNone ==
  ASSUME Inv(FALSE), Bare PROVE OnFlash[SCHEDULE] # File(Factory[SCHEDULE])
<1>1. SCHEDULE \in Name BY OursIs
<1>2. CASE flash.meta = ERASED
  <2>1. OnFlash[SCHEDULE] = ABSENT BY <1>1, <1>2 DEF OnFlash
  <2> QED BY <2>1, FirstPageRead
<1>3. CASE flash.meta # ERASED
  <2>1. Order(flash.meta, FALSE) /\ Early(flash.meta) BY <1>3 DEF Inv, OrderBoth, Bare
  <2>2. OnFlash[SCHEDULE] = readFile(flash.meta, flash.page, SCHEDULE) BY <1>1, <1>3 DEF OnFlash
  <2>3. OnFlash[SCHEDULE] \in {ABSENT, EMPTY} BY <2>1, <2>2, EarlySchedule
  <2> QED BY <2>3, FirstPageRead
<1> QED BY <1>2, <1>3

LEMMA DivMonotone ==
  ASSUME NEW x \in Nat, NEW y \in Nat, x <= y, NEW s \in Nat, s > 0
  PROVE  x \div s <= y \div s
<1> DEFINE q == x \div s
           r == y \div s
<1>1. /\ q \in Int /\ s * q <= x /\ x < s * q + s
      /\ r \in Int /\ s * r <= y /\ y < s * r + s
  OBVIOUS
<1> HIDE DEF q, r
<1>2. ASSUME r < q PROVE FALSE
  <2>1. r + 1 <= q BY <1>1, <1>2
  <2>2. s * (r + 1) <= s * q BY <1>1, <2>1
  <2>3. s * (r + 1) = s * r + s BY <1>1
  <2> QED BY <1>1, <2>2, <2>3
<1> QED BY <1>1, <1>2 DEF q, r

\* A sector that is erased for another file lies behind the demos, but for its first
\* pages; if one of these is a demo's, then the first page of SCHEDULE is in it too.
LEMMA DemoInSector ==
  ASSUME Inv(FALSE), SectorErased, Base(flash.meta), Base(meta), up, secBuf # NONE,
         Head(todo).page # META, target \notin Ours \cup {ALL},
         NEW k \in 1 .. Len(Demo), PagesOf(Demo[k]) \cap DOMAIN secBuf # {}
  PROVE  OnFlash[SCHEDULE] # File(Factory[SCHEDULE])
<1> DEFINE n == Len(Demo)
           f == flash.meta
           v == Head(todo).page
           a == DemoPages[n]
<1>1. Types /\ Queue /\ Order(meta, FALSE) /\ todo # <<>> BY DEF Inv, OrderBoth, Queue
<1>2. f \in Metadata /\ Untouched(target, f, meta, todo) BY DEF Inv, OldDirectory
<1>3. f # ERASED /\ Order(f, FALSE) BY <1>2, MarkerAssumption DEF Inv, OrderBoth
<1>4. v \in Page /\ v = todo[1].page /\ 1 \in 1 .. Len(todo) /\ Tail(todo) # <<>> BY <1>1, FirstWrite
<1>5. DOMAIN secBuf = Neighbours(v) BY <1>1 DEF Queue
<1>6. n \in Nat /\ k \in 0 .. n /\ n \in 0 .. n /\ 0 \in 0 .. n /\ k <= n BY OursIs
<1> HIDE DEF v, f, n, a
<1>7. PagesOf(Demo[k]) = Region(k)
  <2>1. k \in InUse(meta) /\ meta.fcb[k].fileName = At(k) /\ ChainOf(meta, k) = Region(k) /\ At(k) = Demo[k]
    BY <1>6, AtIs DEF Base, n
  <2>2. arsfs_find(meta, Demo[k]) = k
    <3>1. arsfs_find(meta, At(k)) = k BY <1>1, <1>6, <2>1, FoundAt DEF n
    <3> QED BY <2>1, <3>1
  <2> QED BY <2>1, <2>2 DEF PagesOf
<1>8. PICK p : p \in Region(k) /\ p \in Neighbours(v) BY <1>5, <1>7
<1>9. a \in Nat /\ DemoPages[k] \in Nat /\ DemoPages[k - 1] \in Nat /\ DemoPages[k] <= a
      /\ a \in Page
  <2>1. k - 1 \in 0 .. n BY <1>6 DEF n
  <2>2. a \in Nat /\ DemoPages[k] \in Nat /\ DemoPages[k - 1] \in Nat BY <1>6, <2>1, DemoPagesAre DEF n, a
  <2>3. DemoPages[k] <= a BY <1>6, DemoPagesGrow DEF n, a
  <2>4. a + Need(Factory[SCHEDULE]) <= BMP BY DemoPagesAre DEF n, a
  <2>5. Need(Factory[SCHEDULE]) \in Nat /\ Need(Factory[SCHEDULE]) > 0 /\ BMP \in Nat
    BY OursIs, GeometryAssumption
  <2>6. a \in Page BY <2>2, <2>4, <2>5 DEF Page
  <2> QED BY <2>2, <2>3, <2>6
<1>10. a <= v
  <2>1. ASSUME NEW i \in 1 .. n PROVE v \notin Region(i)
    <3>1. i \in 0 .. n BY <1>6
    <3>2. i \in InUse(f) /\ f.fcb[i].fileName = At(i) /\ ChainOf(f, i) = Region(i)
      BY <3>1 DEF Base, n, f
    <3>3. At(i) # target BY <3>1, AtIs DEF n
    <3>4. todo[1].page \notin ChainOf(f, i) BY <1>2, <1>4, <3>2, <3>3 DEF Untouched
    <3> QED BY <1>4, <3>2, <3>4
  <2>2. v \in Nat BY <1>4 DEF Page
  <2>3. ~(v < a)
    <3>1. v < DemoPages[n] => \E i \in 1 .. n : v \in Region(i) BY <1>6, <2>2, DemoPagesGrow DEF n
    <3> QED BY <2>1, <3>1 DEF a
  <2> QED BY <1>9, <2>2, <2>3
<1>11. a \in Neighbours(v)
  <2>1. p \in Nat /\ p < a BY <1>8, <1>9 DEF Region
  <2>2. p \div SECTOR = v \div SECTOR BY <1>8 DEF Neighbours
  <2>3. v \in Nat /\ SECTOR \in Nat /\ SECTOR > 0 BY <1>4, GeometryAssumption DEF Page
  <2>4. a \div SECTOR = v \div SECTOR
    <3>1. p \div SECTOR <= a \div SECTOR /\ a \div SECTOR <= v \div SECTOR
      BY <1>9, <1>10, <2>1, <2>3, DivMonotone
    <3>2. p \div SECTOR \in Int /\ a \div SECTOR \in Int /\ v \div SECTOR \in Int
      BY <1>9, <2>1, <2>3
    <3> QED BY <2>2, <3>1, <3>2
  <2> QED BY <1>9, <2>4 DEF Neighbours
<1>12. flash.page[a] = ERASED BY <1>11 DEF SectorErased, v
<1>13. /\ 0 \in Slot /\ 0 \in InUse(f) /\ f.fcb[0].fileName = At(0) /\ At(0) = SCHEDULE
       /\ f.fcb[0].start = a /\ SCHEDULE \in Name
  BY <1>6, AtIs DEF Base, n, f, a
<1>14. Hits(f, SCHEDULE) = {0} /\ arsfs_find(f, SCHEDULE) = 0
  <2>1. Hits(f, At(0)) = {0} /\ arsfs_find(f, At(0)) = 0 BY <1>3, <1>6, <1>13, FoundAt DEF n
  <2> QED BY <1>13, <2>1
<1>15. OnFlash[SCHEDULE] = ReadAt(f, flash.page, 0)
  <2>1. OnFlash[SCHEDULE] = readFile(f, flash.page, SCHEDULE) BY <1>3, <1>13 DEF OnFlash, f
  <2> QED BY <1>14, <2>1, ReadIs
<1> SUFFICES ASSUME OnFlash[SCHEDULE] = File(Factory[SCHEDULE]) PROVE FALSE OBVIOUS
<1>16. 1 \in DOMAIN ReadAt(f, flash.page, 0).pages /\ ReadAt(f, flash.page, 0).pages[1] # ERASED
  BY <1>15, FirstPageRead
<1>17. ReadAt(f, flash.page, 0).pages[1] = flash.page[f.fcb[0].start]
  BY <1>2, <1>13, <1>16, ReadsFirst
<1> QED BY <1>12, <1>13, <1>16, <1>17

\* The invariant says what a start finds.
LEMMA FirstMeans == ASSUME FirstInv PROVE DemosBeforeSchedule
<1> SUFFICES ASSUME ~harm, OnFlash[SCHEDULE] = File(Factory[SCHEDULE]), NEW k \in DOMAIN Demo
             PROVE  OnFlash[Demo[k]] = File(Factory[Demo[k]])
  BY DEF DemosBeforeSchedule
<1>1. Inv(FALSE) /\ Steady /\ DemosFirst /\ Types /\ Queue BY DEF FirstInv, Inv
<1>2. ~Bare BY <1>1, BareHasNone
<1>3. k \in 1 .. Len(Demo) /\ Demo[k] \in Ours /\ Demo[k] \in Name
  <2>1. k \in 1 .. Len(Demo) BY FactoryAssumption
  <2> QED BY <2>1, OursIs
<1>4. CASE Whole(OnFlash) BY <1>3, <1>4 DEF Whole
<1>5. CASE ~Whole(OnFlash)
  <2>1. pc \in {"load", "run"} /\ Base(meta) /\ Whole(Files) /\ Settled /\ pc # "off" /\ up
    BY <1>1, <1>2, <1>5 DEF DemosFirst, Steady
  <2>2. secBuf # NONE BY <1>1, <1>5, <2>1, SettledFiles
  <2>3. todo # <<>> BY <1>1, <2>2 DEF Queue
  <2>4. target \notin Ours \cup {ALL} /\ Base(flash.meta) BY <2>1, <2>3 DEF Settled
  <2>5. Head(todo).page # META
    <3>1. Head(todo).page = META => flash.meta = ERASED BY <1>1, <2>2 DEF DemosFirst, SectorErased
    <3> QED BY <1>2, <3>1 DEF Bare
  <2>6. SectorErased BY <1>1 DEF DemosFirst
  <2>7. ~(PagesOf(Demo[k]) \cap DOMAIN secBuf # {})
    BY <1>1, <1>3, <2>1, <2>2, <2>4, <2>5, <2>6, DemoInSector
  <2>8. OnFlash[Demo[k]] = Files[Demo[k]]
    <3>1. OthersSurvive BY <1>1, SurvivesStep
    <3> QED BY <1>3, <2>1, <2>4, <2>5, <2>7, <3>1 DEF OthersSurvive
  <2> QED BY <1>3, <2>1, <2>8 DEF Whole
<1> QED BY <1>4, <1>5

\* Wherever the power fails while the demos are laid down, a start that finds the
\* factory's SCHEDULE finds all the demos it lists, unless the host has written or deleted
\* such files or the power has failed over a sector in a way harm records.
THEOREM DemosComeFirst == BootSpec => []DemosBeforeSchedule
<1>1. FirstInv /\ [BootNext]_bvars => FirstInv' BY FirstNext
<1>2. FirstInv => DemosBeforeSchedule BY FirstMeans
<1> QED BY <1>1, <1>2, FirstInit, PTL DEF BootSpec
=============================================================================
