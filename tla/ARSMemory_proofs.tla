--------------------------- MODULE ARSMemory_proofs ---------------------------
(***************************************************************************)
(* Lemmas about ARSMemory: doubly linked lists, the geometry of blocks     *)
(* that tile the memory, the heap with its free list, and the heap with    *)
(* one list of frames per task.  The theorems they lead to are about       *)
(* ARSHeap, the program that uses the operators (ARSHeap_proofs).          *)
(***************************************************************************)
EXTENDS ARSMemory, IterationTheorems, FiniteSetTheorems

-----------------------------------------------------------------------------
(***************************************************************************)
(* The doubly linked lists of ARSMemory.  HasList(hdr, S, h, t, n) says    *)
(* that the blocks of S, n of them, form one list from h to t: what the    *)
(* free list and the list of frames of each task are between any two       *)
(* operations.  The lemmas say how the pointer updates of the allocator    *)
(* change such a list, and what a walk along it meets.                     *)
(***************************************************************************)
\* The sequence s of n blocks enumerates the list.
IsList(hdr, S, h, t, n, s) ==
  /\ n \in Nat /\ s \in [1 .. n -> S]
  /\ \A i, j \in 1 .. n : s[i] = s[j] => i = j
  /\ \A a \in S : \E i \in 1 .. n : s[i] = a
  /\ h = IF n = 0 THEN NULL ELSE s[1]
  /\ t = IF n = 0 THEN NULL ELSE s[n]
  /\ \A i \in 1 .. n : /\ hdr[s[i]].next = IF i = n THEN NULL ELSE s[i + 1]
                       /\ hdr[s[i]].last = IF i = 1 THEN NULL ELSE s[i - 1]

HasList(hdr, S, h, t, n) == \E s : IsList(hdr, S, h, t, n, s)

\* Headers that agree on the blocks of a list hold the same list.
LEMMA ListSame ==
  ASSUME NEW hdr, NEW hdr2, NEW S, NEW h, NEW t, NEW n,
         HasList(hdr, S, h, t, n),
         \A a \in S : hdr2[a].next = hdr[a].next /\ hdr2[a].last = hdr[a].last
  PROVE  HasList(hdr2, S, h, t, n)
<1> PICK s : IsList(hdr, S, h, t, n, s) BY DEF HasList
<1>1. \A i \in 1 .. n : s[i] \in S BY DEF IsList
<1>2. IsList(hdr2, S, h, t, n, s) BY <1>1 DEF IsList
<1> QED BY <1>2 DEF HasList

\* No block: nothing to list.
LEMMA ListEmpty ==
  ASSUME NEW hdr PROVE HasList(hdr, {}, NULL, NULL, 0)
<1> DEFINE s == [i \in 1 .. 0 |-> NULL]
<1>1. 1 .. 0 = {} OBVIOUS
<1>2. s \in [1 .. 0 -> {}] BY <1>1
<1> HIDE DEF s
<1>3. IsList(hdr, {}, NULL, NULL, 0, s) BY <1>1, <1>2 DEF IsList
<1> QED BY <1>3 DEF HasList

\* A list of n blocks has n blocks.
LEMMA ListCard ==
  ASSUME NEW hdr, NEW S, NEW h, NEW t, NEW n, HasList(hdr, S, h, t, n)
  PROVE  n \in Nat /\ IsFiniteSet(S) /\ Cardinality(S) = n
<1> PICK s : IsList(hdr, S, h, t, n, s) BY DEF HasList
<1>1. n \in Nat BY DEF IsList
<1>2. s \in Bijection(1 .. n, S)
  BY DEF IsList, Bijection, Injection, Surjection, IsInjective
<1>3. ExistsBijection(1 .. n, S) BY <1>2 DEF ExistsBijection
<1> QED BY <1>1, <1>3, FS_NatBijection, FS_CountingElements

\* Block a of a list from h to t and its neighbours.
Links(hdr, S, h, t, a) ==
  /\ hdr[a].next \in S \cup {NULL}
  /\ hdr[a].last \in S \cup {NULL}
  /\ hdr[a].next = NULL <=> a = t
  /\ hdr[a].last = NULL <=> a = h
  /\ a # t => hdr[hdr[a].next].last = a
  /\ a # h => hdr[hdr[a].last].next = a

\* The links of a block of a list lead to blocks of the list, which lead back; they
\* are null at the ends and only there.
LEMMA ListLinks ==
  ASSUME NEW hdr, NEW S, NEW h, NEW t, NEW n, HasList(hdr, S, h, t, n), S \subseteq Nat,
         NEW a \in S
  PROVE  Links(hdr, S, h, t, a)
<1> PICK s : IsList(hdr, S, h, t, n, s) BY DEF HasList
<1>1. n \in Nat /\ \A i \in 1 .. n : s[i] \in S /\ s[i] # NULL BY DEF IsList, NULL
<1> PICK i \in 1 .. n : s[i] = a BY DEF IsList
<1>2. n # 0 /\ h = s[1] /\ t = s[n] /\ 1 \in 1 .. n /\ n \in 1 .. n BY <1>1 DEF IsList
<1>3. (i = n <=> a = t) /\ (i = 1 <=> a = h) BY <1>2 DEF IsList
<1>4. i # n => i + 1 \in 1 .. n /\ (i + 1) - 1 = i /\ i + 1 # 1 BY <1>1
<1>5. i # 1 => i - 1 \in 1 .. n /\ (i - 1) + 1 = i /\ i - 1 # n BY <1>1
<1>6. /\ hdr[a].next = IF i = n THEN NULL ELSE s[i + 1]
      /\ hdr[a].last = IF i = 1 THEN NULL ELSE s[i - 1] BY DEF IsList
<1>7. i # n => hdr[s[i + 1]].last = s[i] BY <1>4 DEF IsList
<1>8. i # 1 => hdr[s[i - 1]].next = s[i] BY <1>5 DEF IsList
<1> QED BY <1>1, <1>3, <1>4, <1>5, <1>6, <1>7, <1>8 DEF Links

\* What the ends of a list say about each other.
LEMMA ListEnds ==
  ASSUME NEW hdr, NEW S, NEW h, NEW t, NEW n, HasList(hdr, S, h, t, n), S \subseteq Nat
  PROVE  /\ n \in Nat
         /\ n = 0 => S = {} /\ h = NULL /\ t = NULL
         /\ n # 0 => h \in S /\ t \in S
         /\ \A a \in S : /\ hdr[a].next \in S \cup {NULL}
                         /\ hdr[a].last \in S \cup {NULL}
                         /\ hdr[a].next = NULL <=> a = t
                         /\ hdr[a].last = NULL <=> a = h
                         /\ a # t => hdr[hdr[a].next].last = a
                         /\ a # h => hdr[hdr[a].last].next = a
         /\ n = 1 => h = t
         /\ n > 1 => h # t
<1> PICK s : IsList(hdr, S, h, t, n, s) BY DEF HasList
<1>1. n \in Nat /\ \A i \in 1 .. n : s[i] \in S BY DEF IsList
<1>2. n = 0 => S = {} /\ h = NULL /\ t = NULL BY <1>1 DEF IsList
<1>3. n # 0 => h \in S /\ t \in S BY <1>1 DEF IsList
<1>4. HasList(hdr, S, h, t, n) /\ S \subseteq Nat OBVIOUS
<1>5. ASSUME NEW a \in S
      PROVE  Links(hdr, S, h, t, a)
  BY <1>4, ListLinks
<1>6. n > 1 => h # t
  <2>1. n > 1 => 1 \in 1 .. n /\ n \in 1 .. n /\ h = s[1] /\ t = s[n] BY <1>1 DEF IsList
  <2> QED BY <2>1, <1>1 DEF IsList
<1>7. n = 1 => h = t BY DEF IsList
<1> QED BY <1>1, <1>2, <1>3, <1>5, <1>6, <1>7 DEF Links

\* A block is appended behind the last one (AppendFree, Own).
Appends(hdr, hdr2, S, t, b) ==
  /\ S \subseteq Nat /\ b \in Nat \ S
  /\ \A a \in S : /\ hdr2[a].next = IF a = t THEN b ELSE hdr[a].next
                  /\ hdr2[a].last = hdr[a].last
  /\ hdr2[b].next = NULL /\ hdr2[b].last = t

\* The list grows by one block at its tail.
LEMMA ListAppend ==
  ASSUME NEW hdr, NEW hdr2, NEW S, NEW h, NEW t, NEW n, NEW b,
         HasList(hdr, S, h, t, n), Appends(hdr, hdr2, S, t, b),
         NEW S2, NEW h2, NEW n2,
         S2 = S \cup {b}, h2 = IF n = 0 THEN b ELSE h, n2 = n + 1
  PROVE  HasList(hdr2, S2, h2, b, n2)
<1> USE DEF Appends
<1> PICK s : IsList(hdr, S, h, t, n, s) BY DEF HasList
<1>1. n \in Nat /\ \A i \in 1 .. n : s[i] \in S BY DEF IsList
<1> DEFINE s2 == [i \in 1 .. n + 1 |-> IF i = n + 1 THEN b ELSE s[i]]
<1>2. s2 \in [1 .. n + 1 -> S \cup {b}] BY <1>1
<1>3. \A i \in 1 .. n : s2[i] = s[i] /\ i \in 1 .. n + 1 /\ i # n + 1 BY <1>1
<1>4. s2[n + 1] = b /\ n + 1 \in 1 .. n + 1 BY <1>1
<1>5. \A i \in 1 .. n + 1 : i \in 1 .. n \/ i = n + 1 BY <1>1
<1> HIDE DEF s2
<1>6. ASSUME NEW i \in 1 .. n + 1, NEW j \in 1 .. n + 1, s2[i] = s2[j] PROVE i = j
  <2>1. CASE i \in 1 .. n /\ j \in 1 .. n BY <1>3, <1>6, <2>1 DEF IsList
  <2>2. CASE i = n + 1 \/ j = n + 1 BY <1>1, <1>3, <1>4, <1>5, <1>6, <2>2
  <2> QED BY <1>5, <2>1, <2>2
<1>7. \A a \in S \cup {b} : \E i \in 1 .. n + 1 : s2[i] = a
  <2>1. \A a \in S : \E i \in 1 .. n : s[i] = a BY DEF IsList
  <2>2. \A a \in S : \E i \in 1 .. n + 1 : s2[i] = a BY <1>3, <2>1
  <2> QED BY <1>4, <2>2
<1>8. ASSUME NEW i \in 1 .. n
      PROVE  /\ hdr2[s2[i]].next = s2[i + 1]
             /\ hdr2[s2[i]].last = IF i = 1 THEN NULL ELSE s2[i - 1]
  <2>1. s2[i] = s[i] /\ s[i] \in S BY <1>1, <1>3
  <2>2. i # 1 => i - 1 \in 1 .. n /\ s2[i - 1] = s[i - 1] BY <1>1, <1>3
  <2>3. hdr2[s[i]].last = IF i = 1 THEN NULL ELSE s[i - 1] BY <2>1 DEF IsList
  <2>4. CASE i = n
    <3>1. s[i] = t BY <2>4, <1>1 DEF IsList
    <3> QED BY <2>1, <2>2, <2>3, <3>1, <2>4, <1>4
  <2>5. CASE i # n
    <3>1. i + 1 \in 1 .. n /\ n \in 1 .. n /\ s2[i + 1] = s[i + 1] BY <2>5, <1>1, <1>3
    <3>2. s[i] # t BY <2>5, <3>1 DEF IsList
    <3>3. hdr[s[i]].next = s[i + 1] BY <2>5 DEF IsList
    <3> QED BY <2>1, <2>2, <2>3, <3>1, <3>2, <3>3
  <2> QED BY <2>4, <2>5
<1>9. hdr2[s2[n + 1]].last = IF n + 1 = 1 THEN NULL ELSE s2[n]
  <2>1. n # 0 => n \in 1 .. n /\ t = s[n] /\ s2[n] = s[n] BY <1>1, <1>3 DEF IsList
  <2> QED BY <1>1, <1>4, <2>1 DEF IsList
<1>10. \A i \in 1 .. n + 1 :
         /\ hdr2[s2[i]].next = IF i = n + 1 THEN NULL ELSE s2[i + 1]
         /\ hdr2[s2[i]].last = IF i = 1 THEN NULL ELSE s2[i - 1]
  BY <1>1, <1>3, <1>4, <1>5, <1>8, <1>9
<1>11. (IF n = 0 THEN b ELSE h) = s2[1]
  <2>1. n # 0 => 1 \in 1 .. n /\ s2[1] = s[1] BY <1>1, <1>3
  <2> QED BY <1>1, <1>4, <2>1 DEF IsList
<1>12. IsList(hdr2, S \cup {b}, IF n = 0 THEN b ELSE h, b, n + 1, s2)
  BY <1>1, <1>2, <1>4, <1>6, <1>7, <1>10, <1>11 DEF IsList
<1> QED BY <1>12 DEF HasList

\* A block takes the place of another (MergeNext, Split).
Replaces(hdr, hdr2, S, a, b) ==
  /\ S \subseteq Nat /\ a \in S /\ b \in Nat \ S
  /\ \A x \in S \ {a} :
       /\ hdr2[x].next = IF x = hdr[a].last THEN b ELSE hdr[x].next
       /\ hdr2[x].last = IF x = hdr[a].next THEN b ELSE hdr[x].last
  /\ hdr2[b].next = hdr[a].next /\ hdr2[b].last = hdr[a].last

\* A block of the list is replaced by one outside it, in the same place.
LEMMA ListReplace ==
  ASSUME NEW hdr, NEW hdr2, NEW S, NEW h, NEW t, NEW n, NEW a, NEW b,
         HasList(hdr, S, h, t, n), Replaces(hdr, hdr2, S, a, b),
         NEW S2, NEW h2, NEW t2,
         S2 = (S \ {a}) \cup {b},
         h2 = IF h = a THEN b ELSE h, t2 = IF t = a THEN b ELSE t
  PROVE  HasList(hdr2, S2, h2, t2, n)
<1> USE DEF Replaces
<1> PICK s : IsList(hdr, S, h, t, n, s) BY DEF HasList
<1>1. n \in Nat /\ \A i \in 1 .. n : s[i] \in S /\ s[i] # NULL BY DEF IsList, NULL
<1> PICK k \in 1 .. n : s[k] = a BY DEF IsList
<1>2. \A i \in 1 .. n : s[i] = a <=> i = k BY DEF IsList
<1> DEFINE s2 == [i \in 1 .. n |-> IF i = k THEN b ELSE s[i]]
<1>3. \A i \in 1 .. n : s2[i] = IF i = k THEN b ELSE s[i] OBVIOUS
<1>4. s2 \in [1 .. n -> (S \ {a}) \cup {b}] BY <1>1, <1>2
<1> HIDE DEF s2
<1>5. \A i, j \in 1 .. n : s2[i] = s2[j] => i = j BY <1>1, <1>3 DEF IsList
<1>6. ASSUME NEW x \in (S \ {a}) \cup {b} PROVE \E i \in 1 .. n : s2[i] = x
  <2>1. CASE x = b BY <1>3, <2>1
  <2>2. CASE x \in S \ {a}
    <3> PICK i \in 1 .. n : s[i] = x BY <2>2 DEF IsList
    <3> QED BY <1>2, <1>3, <2>2
  <2> QED BY <2>1, <2>2
<1>7. n # 0 /\ h = s[1] /\ t = s[n] /\ 1 \in 1 .. n /\ n \in 1 .. n BY <1>1 DEF IsList
<1>8. /\ (IF h = a THEN b ELSE h) = s2[1]
      /\ (IF t = a THEN b ELSE t) = s2[n]
  BY <1>2, <1>3, <1>7
<1>9. /\ hdr[a].next = IF k = n THEN NULL ELSE s[k + 1]
      /\ hdr[a].last = IF k = 1 THEN NULL ELSE s[k - 1]
  BY DEF IsList
<1>10. ASSUME NEW i \in 1 .. n
       PROVE  /\ hdr2[s2[i]].next = IF i = n THEN NULL ELSE s2[i + 1]
              /\ hdr2[s2[i]].last = IF i = 1 THEN NULL ELSE s2[i - 1]
  <2>1. i # n => i + 1 \in 1 .. n BY <1>1
  <2>2. i # 1 => i - 1 \in 1 .. n BY <1>1
  <2>3. CASE i = k
    <3>1. s2[i] = b BY <1>3, <2>3
    <3>2. i # n => s2[i + 1] = s[i + 1] BY <1>3, <2>1, <2>3
    <3>3. i # 1 => s2[i - 1] = s[i - 1] BY <1>3, <2>2, <2>3
    <3> QED BY <1>9, <2>3, <3>1, <3>2, <3>3
  <2>4. CASE i # k
    <3>1. s2[i] = s[i] /\ s[i] \in S \ {a} BY <1>1, <1>2, <1>3, <2>4
    <3>2. /\ hdr[s[i]].next = IF i = n THEN NULL ELSE s[i + 1]
          /\ hdr[s[i]].last = IF i = 1 THEN NULL ELSE s[i - 1] BY DEF IsList
    <3>3. s[i] = hdr[a].last <=> i + 1 = k
      <4>1. k # 1 => k - 1 \in 1 .. n BY <1>1
      <4>2. k # 1 => (s[i] = s[k - 1] <=> i = k - 1) BY <4>1 DEF IsList
      <4>3. k = 1 => i + 1 # k OBVIOUS
      <4> QED BY <1>1, <1>9, <4>1, <4>2, <4>3
    <3>4. s[i] = hdr[a].next <=> i - 1 = k
      <4>1. k # n => k + 1 \in 1 .. n BY <1>1
      <4>2. k # n => (s[i] = s[k + 1] <=> i = k + 1) BY <4>1 DEF IsList
      <4>3. k = n => i - 1 # k BY <1>1
      <4> QED BY <1>1, <1>9, <4>1, <4>2, <4>3
    <3>5. hdr2[s2[i]].next = IF i = n THEN NULL ELSE s2[i + 1]
      <4>1. CASE i + 1 = k
        <5>1. i # n /\ s2[i + 1] = b BY <1>1, <1>3, <4>1
        <5>2. hdr2[s[i]].next = b BY <3>1, <3>3, <4>1
        <5> QED BY <3>1, <5>1, <5>2
      <4>2. CASE i + 1 # k BY <1>1, <1>3, <2>1, <3>1, <3>2, <3>3, <4>2
      <4> QED BY <4>1, <4>2
    <3>6. hdr2[s2[i]].last = IF i = 1 THEN NULL ELSE s2[i - 1]
      <4>1. CASE i - 1 = k
        <5>1. i # 1 /\ s2[i - 1] = b BY <1>1, <1>3, <4>1
        <5>2. hdr2[s[i]].last = b BY <3>1, <3>4, <4>1
        <5> QED BY <3>1, <5>1, <5>2
      <4>2. CASE i - 1 # k BY <1>1, <1>3, <2>2, <3>1, <3>2, <3>4, <4>2
      <4> QED BY <4>1, <4>2
    <3> QED BY <3>5, <3>6
  <2> QED BY <2>3, <2>4
<1>11. IsList(hdr2, (S \ {a}) \cup {b}, IF h = a THEN b ELSE h, IF t = a THEN b ELSE t, n, s2)
  BY <1>1, <1>4, <1>5, <1>6, <1>7, <1>8, <1>10 DEF IsList
<1> QED BY <1>11 DEF HasList

\* A block is unlinked (Relink to its own neighbours, DelLastFuncMem).
Removes(hdr, hdr2, S, a) ==
  /\ S \subseteq Nat /\ a \in S
  /\ \A x \in S \ {a} :
       /\ hdr2[x].next = IF x = hdr[a].last THEN hdr[a].next ELSE hdr[x].next
       /\ hdr2[x].last = IF x = hdr[a].next THEN hdr[a].last ELSE hdr[x].last

\* A block is taken out of the list and its neighbours are linked.
LEMMA ListRemove ==
  ASSUME NEW hdr, NEW hdr2, NEW S, NEW h, NEW t, NEW n, NEW a,
         HasList(hdr, S, h, t, n), Removes(hdr, hdr2, S, a),
         NEW S2, NEW h2, NEW t2, NEW n2, S2 = S \ {a}, n2 = n - 1,
         h2 = IF h = a THEN hdr[a].next ELSE h, t2 = IF t = a THEN hdr[a].last ELSE t
  PROVE  HasList(hdr2, S2, h2, t2, n2)
<1> USE DEF Removes
<1> PICK s : IsList(hdr, S, h, t, n, s) BY DEF HasList
<1>1. n \in Nat /\ \A i \in 1 .. n : s[i] \in S /\ s[i] # NULL BY DEF IsList, NULL
<1> PICK k \in 1 .. n : s[k] = a BY DEF IsList
<1>2. \A i \in 1 .. n : s[i] = a <=> i = k BY DEF IsList
<1> DEFINE s2 == [i \in 1 .. n - 1 |-> IF i < k THEN s[i] ELSE s[i + 1]]
<1>3. \A i \in 1 .. n - 1 : /\ i \in 1 .. n /\ i + 1 \in 1 .. n
                            /\ s2[i] = IF i < k THEN s[i] ELSE s[i + 1]
  BY <1>1
<1>4. s2 \in [1 .. n - 1 -> S \ {a}] BY <1>1, <1>2, <1>3
<1> HIDE DEF s2
<1>5. ASSUME NEW i \in 1 .. n - 1, NEW j \in 1 .. n - 1, s2[i] = s2[j] PROVE i = j
  <2> DEFINE p == IF i < k THEN i ELSE i + 1
             q == IF j < k THEN j ELSE j + 1
  <2>1. p \in 1 .. n /\ q \in 1 .. n /\ s[p] = s[q] BY <1>3, <1>5
  <2>2. p = q BY <2>1 DEF IsList
  <2> QED BY <2>2
<1>6. ASSUME NEW x \in S \ {a} PROVE \E i \in 1 .. n - 1 : s2[i] = x
  <2> PICK i \in 1 .. n : s[i] = x BY DEF IsList
  <2>1. CASE i < k
    <3>1. i \in 1 .. n - 1 BY <1>1, <2>1
    <3> QED BY <1>3, <2>1, <3>1
  <2>2. CASE i > k
    <3>1. i - 1 \in 1 .. n - 1 /\ ~(i - 1 < k) /\ (i - 1) + 1 = i BY <1>1, <2>2
    <3> QED BY <1>3, <3>1
  <2> QED BY <1>1, <1>2, <2>1, <2>2
<1>7. n # 0 /\ h = s[1] /\ t = s[n] /\ 1 \in 1 .. n /\ n \in 1 .. n BY <1>1 DEF IsList
<1>8. /\ hdr[a].next = IF k = n THEN NULL ELSE s[k + 1]
      /\ hdr[a].last = IF k = 1 THEN NULL ELSE s[k - 1]
  BY DEF IsList
<1>9. (IF h = a THEN hdr[a].next ELSE h) = IF n - 1 = 0 THEN NULL ELSE s2[1]
  <2>1. n - 1 # 0 => 1 \in 1 .. n - 1 BY <1>1, <1>7
  <2>2. h = a <=> k = 1 BY <1>2, <1>7
  <2>3. CASE k = 1 BY <1>1, <1>3, <1>8, <2>1, <2>2, <2>3
  <2>4. CASE k # 1
    <3>1. n - 1 # 0 /\ 1 < k BY <1>1, <2>4
    <3> QED BY <1>3, <1>7, <2>1, <2>2, <2>4, <3>1
  <2> QED BY <2>3, <2>4
<1>10. (IF t = a THEN hdr[a].last ELSE t) = IF n - 1 = 0 THEN NULL ELSE s2[n - 1]
  <2>1. n - 1 # 0 => n - 1 \in 1 .. n - 1 BY <1>1, <1>7
  <2>2. t = a <=> k = n BY <1>2, <1>7
  <2>3. CASE k = n
    <3>1. n - 1 < k /\ (n = 1 <=> n - 1 = 0) BY <1>1, <2>3
    <3> QED BY <1>3, <1>8, <2>1, <2>2, <2>3, <3>1
  <2>4. CASE k # n
    <3>1. n - 1 # 0 /\ ~(n - 1 < k) /\ (n - 1) + 1 = n BY <1>1, <2>4
    <3> QED BY <1>3, <1>7, <2>1, <2>2, <2>4, <3>1
  <2> QED BY <2>3, <2>4
<1>11. ASSUME NEW i \in 1 .. n - 1
       PROVE  /\ hdr2[s2[i]].next = IF i = n - 1 THEN NULL ELSE s2[i + 1]
              /\ hdr2[s2[i]].last = IF i = 1 THEN NULL ELSE s2[i - 1]
  <2> DEFINE p == IF i < k THEN i ELSE i + 1
  <2>1. p \in 1 .. n /\ p # k /\ s2[i] = s[p] /\ s[p] \in S \ {a} BY <1>1, <1>2, <1>3
  <2> HIDE DEF p
  <2>2. /\ hdr[s[p]].next = IF p = n THEN NULL ELSE s[p + 1]
        /\ hdr[s[p]].last = IF p = 1 THEN NULL ELSE s[p - 1] BY <2>1 DEF IsList
  <2>3. s[p] = hdr[a].last <=> p + 1 = k
    <3>1. k # 1 => k - 1 \in 1 .. n BY <1>1
    <3>2. k # 1 => (s[p] = s[k - 1] <=> p = k - 1) BY <2>1, <3>1 DEF IsList
    <3>3. k = 1 => p + 1 # k BY <2>1
    <3> QED BY <1>1, <1>8, <2>1, <3>1, <3>2, <3>3
  <2>4. s[p] = hdr[a].next <=> p - 1 = k
    <3>1. k # n => k + 1 \in 1 .. n BY <1>1
    <3>2. k # n => (s[p] = s[k + 1] <=> p = k + 1) BY <2>1, <3>1 DEF IsList
    <3>3. k = n => p - 1 # k BY <1>1, <2>1
    <3> QED BY <1>1, <1>8, <2>1, <3>1, <3>2, <3>3
  <2>5. hdr2[s2[i]].next = IF i = n - 1 THEN NULL ELSE s2[i + 1]
    <3>1. i # n - 1 => i + 1 \in 1 .. n - 1 BY <1>1
    <3>2. CASE p + 1 = k
      <4>1. i = p /\ i + 1 = k BY <2>1, <3>2 DEF p
      <4>2. hdr2[s2[i]].next = hdr[a].next BY <2>1, <2>3, <3>2, ZenonT(40)
      <4>3. i # n - 1 => s2[i + 1] = s[k + 1] BY <1>3, <3>1, <4>1
      <4>4. i = n - 1 <=> k = n BY <1>1, <4>1
      <4> QED BY <1>8, <4>2, <4>3, <4>4
    <3>3. CASE p + 1 # k
      <4>1. hdr2[s2[i]].next = IF p = n THEN NULL ELSE s[p + 1] BY <2>1, <2>2, <2>3, <3>3
      <4>2. i = n - 1 <=> p = n BY <1>1, <3>3 DEF p
      <4>3. i # n - 1 => s2[i + 1] = s[p + 1]
        <5>1. CASE i < k
          <6>1. p = i /\ i + 1 < k BY <3>3, <5>1 DEF p
          <6> QED BY <1>3, <3>1, <6>1
        <5>2. CASE ~(i < k)
          <6>1. p = i + 1 /\ ~(i + 1 < k) BY <5>2 DEF p
          <6> QED BY <1>3, <3>1, <6>1
        <5> QED BY <5>1, <5>2
      <4> QED BY <4>1, <4>2, <4>3
    <3> QED BY <3>2, <3>3
  <2>6. hdr2[s2[i]].last = IF i = 1 THEN NULL ELSE s2[i - 1]
    <3>1. i # 1 => i - 1 \in 1 .. n - 1 BY <1>1
    <3>2. CASE p - 1 = k
      <4>1. p = i + 1 /\ i = k BY <2>1, <3>2 DEF p
      <4>2. hdr2[s2[i]].last = hdr[a].last BY <2>1, <2>4, <3>2, ZenonT(40)
      <4>3. i # 1 => s2[i - 1] = s[k - 1]
        <5>1. i - 1 < k BY <4>1
        <5> QED BY <1>3, <3>1, <4>1, <5>1
      <4> QED BY <1>8, <4>1, <4>2, <4>3
    <3>3. CASE p - 1 # k
      <4>1. hdr2[s2[i]].last = IF p = 1 THEN NULL ELSE s[p - 1] BY <2>1, <2>2, <2>4, <3>3
      <4>2. i = 1 <=> p = 1 BY <1>1, <3>3 DEF p
      <4>3. i # 1 => s2[i - 1] = s[p - 1]
        <5>1. CASE i < k
          <6>1. p = i /\ i - 1 < k BY <5>1 DEF p
          <6> QED BY <1>3, <3>1, <6>1
        <5>2. CASE ~(i < k)
          <6>1. p = i + 1 /\ p - 1 = i /\ ~(i - 1 < k) /\ (i - 1) + 1 = i
            BY <3>3, <5>2 DEF p
          <6> QED BY <1>3, <3>1, <6>1
        <5> QED BY <5>1, <5>2
      <4> QED BY <4>1, <4>2, <4>3
    <3> QED BY <3>2, <3>3
  <2> QED BY <2>5, <2>6
<1>12. IsList(hdr2, S \ {a}, IF h = a THEN hdr[a].next ELSE h,
              IF t = a THEN hdr[a].last ELSE t, n - 1, s2)
  <2>1. n - 1 \in Nat BY <1>1, <1>7
  <2> QED BY <2>1, <1>4, <1>5, <1>6, <1>9, <1>10, <1>11 DEF IsList
<1> QED BY <1>12 DEF HasList

-----------------------------------------------------------------------------
WalkIs(m, h, n, s) ==
  \A k \in Nat : Walk(m, h, {})[k] = IF k < n THEN s[k + 1] ELSE NULL

\* A walk from the head meets the blocks in order, and then null.
LEMMA ListWalk ==
  ASSUME NEW m, NEW S, NEW h, NEW t, NEW n, NEW s,
         IsList(m.hdr, S, h, t, n, s), S \subseteq DOMAIN m.hdr, S \subseteq Nat
  PROVE  WalkIs(m, h, n, s)
<1> DEFINE H == S \cup {NULL}
           F == Hop(m, {})
<1>1. n \in Nat /\ \A i \in 1 .. n : s[i] \in S /\ s[i] # NULL BY DEF IsList, NULL
<1>2. \A a \in H : F[a] = IF a = NULL THEN NULL ELSE m.hdr[a].next BY DEF Hop
<1>3. ASSUME NEW a \in H PROVE F[a] \in H
  <2>1. CASE a = NULL BY <1>2, <2>1
  <2>2. CASE a # NULL
    <3> PICK i \in 1 .. n : s[i] = a BY <2>2 DEF IsList
    <3>1. i # n => i + 1 \in 1 .. n BY <1>1
    <3>2. m.hdr[a].next = IF i = n THEN NULL ELSE s[i + 1] BY DEF IsList
    <3> QED BY <1>1, <1>2, <3>1, <3>2
  <2> QED BY <2>1, <2>2
<1>4. h \in H
  <2>1. n # 0 => 1 \in 1 .. n BY <1>1
  <2> QED BY <1>1, <2>1 DEF IsList
<1> DEFINE W == Iterate(F, h)
<1>5. W[0] = h /\ \A k \in Nat : W[k + 1] = F[W[k]]
  <2> HIDE DEF F, H
  <2> QED BY <1>3, <1>4, IterateFacts
<1> HIDE DEF W, F
<1> DEFINE At(k) == IF k < n THEN s[k + 1] ELSE NULL
           K == {k \in Nat : W[k] = At(k)}
<1>6. 0 \in K BY <1>1, <1>5, SMTT(30) DEF IsList
<1>7. ASSUME NEW k \in Nat, k \in K PROVE k + 1 \in K
  <2>1. W[k] = At(k) /\ W[k + 1] = F[W[k]] BY <1>5, <1>7
  <2>2. CASE k < n
    <3>1. k + 1 \in 1 .. n /\ W[k] = s[k + 1] BY <1>1, <2>1, <2>2
    <3>2. m.hdr[s[k + 1]].next = IF k + 1 = n THEN NULL ELSE s[(k + 1) + 1]
      BY <3>1 DEF IsList
    <3>3. F[W[k]] = m.hdr[s[k + 1]].next BY <1>1, <1>2, <3>1
    <3>4. k + 1 < n <=> k + 1 # n BY <1>1, <2>2
    <3> QED BY <2>1, <3>2, <3>3, <3>4
  <2>3. CASE ~(k < n)
    <3>1. W[k] = NULL /\ ~(k + 1 < n) BY <1>1, <2>1, <2>3
    <3> QED BY <1>2, <2>1, <3>1
  <2> QED BY <2>2, <2>3
<1>8. Nat \subseteq K
  <2> HIDE DEF K
  <2> QED BY <1>6, <1>7, SetInduction
<1>9. Walk(m, h, {}) = W BY DEF W, F, Walk
<1> QED BY <1>8, <1>9 DEF WalkIs

\* What is reached from the head are the blocks of the list.
LEMMA ListReached ==
  ASSUME NEW m, NEW S, NEW h, NEW t, NEW n,
         HasList(m.hdr, S, h, t, n), S \subseteq DOMAIN m.hdr, S \subseteq Nat,
         IsFiniteSet(DOMAIN m.hdr)
  PROVE  Reached(m, h) = S
<1> PICK s : IsList(m.hdr, S, h, t, n, s) BY DEF HasList
<1>1. n \in Nat /\ \A i \in 1 .. n : s[i] \in S /\ s[i] # NULL BY DEF IsList, NULL
<1>2. n = Cardinality(S) BY ListCard
<1>3. Hops(m) \in Nat /\ n <= Hops(m) BY <1>2, FS_Subset, FS_CardinalityType DEF Hops
<1>0. WalkIs(m, h, n, s) BY ListWalk
<1> DEFINE W == Walk(m, h, {})
<1>4. \A k \in Nat : W[k] = IF k < n THEN s[k + 1] ELSE NULL BY <1>0 DEF WalkIs
<1>5. Reached(m, h) = {W[k] : k \in 0 .. Hops(m)} \ {NULL} BY DEF Reached
<1> HIDE DEF W
<1>6. ASSUME NEW a \in S PROVE a \in Reached(m, h)
  <2> PICK i \in 1 .. n : s[i] = a BY DEF IsList
  <2>1. i - 1 \in 0 .. Hops(m) /\ i - 1 < n /\ (i - 1) + 1 = i BY <1>1, <1>3
  <2>2. W[i - 1] = a BY <1>4, <2>1
  <2> QED BY <1>1, <1>5, <2>1, <2>2
<1>7. ASSUME NEW k \in 0 .. Hops(m), W[k] # NULL PROVE W[k] \in S
  <2>1. k \in Nat BY <1>3
  <2>2. k < n /\ W[k] = s[k + 1] BY <1>4, <1>7, <2>1
  <2>3. k + 1 \in 1 .. n BY <1>1, <2>1, <2>2
  <2> QED BY <1>1, <2>2, <2>3
<1> QED BY <1>5, <1>6, <1>7

\* A scan that stops at the blocks of stop finds one if there is one.
LEMMA ListScan ==
  ASSUME NEW m, NEW S, NEW h, NEW t, NEW n, NEW stop,
         HasList(m.hdr, S, h, t, n), S \subseteq DOMAIN m.hdr, S \subseteq Nat,
         IsFiniteSet(DOMAIN m.hdr)
  PROVE  LET a == Walk(m, h, stop)[Hops(m)] IN
         IF a = NULL THEN S \cap stop = {} ELSE a \in S \cap stop
<1> PICK s : IsList(m.hdr, S, h, t, n, s) BY DEF HasList
<1> DEFINE H == S \cup {NULL}
           F == Hop(m, stop)
<1>1. n \in Nat /\ \A i \in 1 .. n : s[i] \in S /\ s[i] # NULL BY DEF IsList, NULL
<1>2. \A a \in H : F[a] = IF a = NULL \/ a \in stop THEN a ELSE m.hdr[a].next BY DEF Hop
<1>3. ASSUME NEW a \in H PROVE F[a] \in H
  <2>1. CASE a = NULL \/ a \in stop BY <1>2, <2>1
  <2>2. CASE ~(a = NULL \/ a \in stop)
    <3> PICK i \in 1 .. n : s[i] = a BY <2>2 DEF IsList
    <3>1. i # n => i + 1 \in 1 .. n BY <1>1
    <3>2. m.hdr[a].next = IF i = n THEN NULL ELSE s[i + 1] BY DEF IsList
    <3> QED BY <1>1, <1>2, <2>2, <3>1, <3>2
  <2> QED BY <2>1, <2>2
<1>4. h \in H
  <2>1. n # 0 => 1 \in 1 .. n BY <1>1
  <2> QED BY <1>1, <2>1 DEF IsList
<1> DEFINE W == Iterate(F, h)
<1>5. W[0] = h /\ \A k \in Nat : W[k + 1] = F[W[k]]
  <2> HIDE DEF F, H
  <2> QED BY <1>3, <1>4, IterateFacts
<1> HIDE DEF W, F
<1> DEFINE None(k) == \A i \in 1 .. n : i <= k => s[i] \notin stop
           At(k) == \/ W[k] \in S \cap stop
                    \/ k < n /\ W[k] = s[k + 1] /\ None(k)
                    \/ ~(k < n) /\ W[k] = NULL /\ None(n)
           K == {k \in Nat : At(k)}
<1>6. 0 \in K
  <2>1. None(0) OBVIOUS
  <2>2. n = 0 => None(n) OBVIOUS
  <2> HIDE DEF None
  <2>3. n # 0 => 0 < n /\ 0 + 1 = 1 BY <1>1
  <2>4. n = 0 => ~(0 < n) OBVIOUS
  <2>5. h = IF n = 0 THEN NULL ELSE s[1] BY DEF IsList
  <2> QED BY <1>5, <2>1, <2>2, <2>3, <2>4, <2>5
<1>7. ASSUME NEW k \in Nat, k \in K PROVE k + 1 \in K
  <2>1. W[k + 1] = F[W[k]] BY <1>5
  <2>2. CASE W[k] \in S \cap stop BY <1>2, <2>1, <2>2
  <2>3. CASE ~(k < n) /\ W[k] = NULL /\ None(n)
    <3>1. ~(k + 1 < n) BY <1>1, <2>3
    <3>2. W[k + 1] = NULL BY <1>2, <2>1, <2>3
    <3> HIDE DEF None
    <3> QED BY <2>3, <3>1, <3>2
  <2>4. CASE k < n /\ W[k] = s[k + 1] /\ None(k) /\ s[k + 1] \notin stop
    <3>1. k + 1 \in 1 .. n BY <1>1, <2>4
    <3>2. m.hdr[s[k + 1]].next = IF k + 1 = n THEN NULL ELSE s[(k + 1) + 1]
      BY <3>1 DEF IsList
    <3>3. W[k + 1] = m.hdr[s[k + 1]].next BY <1>1, <1>2, <2>1, <2>4, <3>1
    <3>4. k + 1 < n <=> k + 1 # n BY <1>1, <2>4
    <3>5. None(k + 1)
      <4> SUFFICES ASSUME NEW i \in 1 .. n, i <= k + 1 PROVE s[i] \notin stop OBVIOUS
      <4>1. i <= k \/ i = k + 1 OBVIOUS
      <4> QED BY <2>4, <4>1
    <3>6. k + 1 = n => None(n) BY <3>5
    <3> HIDE DEF None
    <3> QED BY <3>2, <3>3, <3>4, <3>5, <3>6
  <2>5. CASE k < n /\ W[k] = s[k + 1] /\ s[k + 1] \in stop
    <3>1. k + 1 \in 1 .. n BY <1>1, <2>5
    <3>2. W[k] \in S \cap stop BY <1>1, <2>5, <3>1
    <3> QED BY <2>2, <3>2
  <2>6. At(k) BY <1>7
  <2> HIDE DEF None
  <2> QED BY <2>2, <2>3, <2>4, <2>5, <2>6
<1>8. Nat \subseteq K
  <2> HIDE DEF K
  <2> QED BY <1>6, <1>7, SetInduction
<1>9. n = Cardinality(S) BY ListCard
<1>10. Hops(m) \in Nat /\ ~(Hops(m) < n) BY <1>9, FS_Subset, FS_CardinalityType DEF Hops
<1>11. At(Hops(m))
  <2> HIDE DEF At
  <2> QED BY <1>8, <1>10
<1>12. None(n) => S \cap stop = {}
  <2> SUFFICES ASSUME None(n), NEW a \in S, a \in stop PROVE FALSE OBVIOUS
  <2> PICK i \in 1 .. n : s[i] = a BY DEF IsList
  <2> QED BY <1>1
<1>13. Walk(m, h, stop) = W BY DEF W, F, Walk
<1>14. \A a \in S : a # NULL BY DEF NULL
<1> HIDE DEF None
<1> QED BY <1>10, <1>11, <1>12, <1>13, <1>14

-----------------------------------------------------------------------------
(***************************************************************************)
(* Geometry.  D is the set of blocks, E[a] the first address after block   *)
(* a, and L the address up to which the memory is cut into blocks.         *)
(***************************************************************************)
Tiles(D, E, L) ==
  /\ D \subseteq Nat /\ L \in Nat
  /\ \A a \in D : E[a] \in Nat /\ a < E[a] /\ E[a] <= L /\ E[a] \in D \cup {L}
  /\ \A a, b \in D : a < b => E[a] <= b
  /\ 0 \in D \cup {L}
  /\ \A b \in D \cup {L} : b = 0 \/ \E a \in D : E[a] = b

\* Block b is swallowed by its neighbour on the left.
LEMMA TilesMerge ==
  ASSUME NEW D, NEW E, NEW L, NEW E2, NEW p, NEW b,
         Tiles(D, E, L), p \in D, b \in D, E[p] = b,
         \A a \in D \ {b} : E2[a] = IF a = p THEN E[b] ELSE E[a]
  PROVE  Tiles(D \ {b}, E2, L)
<1> DEFINE D2 == D \ {b}
<1>1. p # b /\ p < b /\ b # 0 /\ b # L /\ b < E[b] BY DEF Tiles
<1>2. \A a \in D2 : E2[a] \in Nat /\ a < E2[a] /\ E2[a] <= L
  BY <1>1 DEF Tiles
<1>3. ASSUME NEW a \in D2 PROVE E2[a] \in D2 \cup {L}
  <2>1. CASE a = p BY <1>1, <2>1 DEF Tiles
  <2>2. CASE a # p
    <3>1. a < p \/ p < a BY <2>2 DEF Tiles
    <3>2. a < p => E[a] <= p BY DEF Tiles
    <3>3. p < a => b <= a BY DEF Tiles
    <3>4. E[a] # b BY <1>1, <3>1, <3>2, <3>3 DEF Tiles
    <3> QED BY <2>2, <3>4 DEF Tiles
  <2> QED BY <2>1, <2>2
<1>4. ASSUME NEW a \in D2, NEW c \in D2, a < c PROVE E2[a] <= c
  <2>1. CASE a = p
    <3>1. b <= c BY <1>4, <2>1 DEF Tiles
    <3>2. b < c BY <1>1, <3>1 DEF Tiles
    <3> QED BY <2>1, <3>2 DEF Tiles
  <2>2. CASE a # p BY <1>4, <2>2 DEF Tiles
  <2> QED BY <2>1, <2>2
<1>5. ASSUME NEW c \in D2 \cup {L}, c # 0 PROVE \E a \in D2 : E2[a] = c
  <2> PICK a \in D : E[a] = c BY <1>5 DEF Tiles
  <2>1. CASE a = b BY <1>1, <2>1
  <2>2. CASE a # b
    <3>1. a # p BY <1>1
    <3> QED BY <2>2, <3>1
  <2> QED BY <2>1, <2>2
<1>6. 0 \in D2 \cup {L} BY <1>1 DEF Tiles
<1> QED BY <1>2, <1>3, <1>4, <1>5, <1>6 DEF Tiles

\* Block a is cut in two at c.
LEMMA TilesSplit ==
  ASSUME NEW D, NEW E, NEW L, NEW E2, NEW a, NEW c,
         Tiles(D, E, L), a \in D, c \in Nat, a < c, c < E[a],
         \A x \in D \ {a} : E2[x] = E[x], E2[a] = c, E2[c] = E[a]
  PROVE  c \notin D /\ Tiles(D \cup {c}, E2, L)
<1> DEFINE D2 == D \cup {c}
<1>1. c \notin D /\ c # L /\ c # 0 BY DEF Tiles
<1>2. \A x \in D2 : E2[x] \in Nat /\ x < E2[x] /\ E2[x] <= L /\ E2[x] \in D2 \cup {L}
  BY <1>1 DEF Tiles
<1>3. ASSUME NEW x \in D2, NEW y \in D2, x < y PROVE E2[x] <= y
  <2>1. CASE x = c /\ y \in D
    <3>1. a < y BY <1>3, <2>1 DEF Tiles
    <3> QED BY <2>1, <3>1 DEF Tiles
  <2>2. CASE x = a /\ y = c BY <2>2
  <2>3. CASE x \in D \ {a} /\ y = c
    <3>1. x < a BY <1>3, <2>3 DEF Tiles
    <3>2. E[x] <= a /\ E2[x] = E[x] /\ E[x] \in Nat /\ a \in Nat BY <2>3, <3>1 DEF Tiles
    <3> QED BY <2>3, <3>2
  <2>4. CASE x = a /\ y \in D BY <1>3, <2>4 DEF Tiles
  <2>5. CASE x \in D \ {a} /\ y \in D BY <1>3, <2>5 DEF Tiles
  <2> QED BY <1>1, <1>3, <2>1, <2>2, <2>3, <2>4, <2>5
<1>4. ASSUME NEW y \in D2 \cup {L}, y # 0 PROVE \E x \in D2 : E2[x] = y
  <2>1. CASE y = c BY <2>1
  <2>2. CASE y # c
    <3> PICK x \in D : E[x] = y BY <1>4, <2>2 DEF Tiles
    <3>1. CASE x = a BY <3>1
    <3>2. CASE x # a BY <3>2
    <3> QED BY <3>1, <3>2
  <2> QED BY <2>1, <2>2
<1>5. 0 \in D2 \cup {L} BY DEF Tiles
<1>6. D2 \subseteq Nat /\ L \in Nat BY DEF Tiles
<1> QED BY <1>1, <1>2, <1>3, <1>4, <1>5, <1>6 DEF Tiles

\* A block is added at the end.
LEMMA TilesGrow ==
  ASSUME NEW D, NEW E, NEW L, NEW E2, NEW L2,
         Tiles(D, E, L), L2 \in Nat, L < L2,
         \A x \in D : E2[x] = E[x], E2[L] = L2
  PROVE  L \notin D /\ Tiles(D \cup {L}, E2, L2)
<1> DEFINE D2 == D \cup {L}
<1>1. L \notin D BY DEF Tiles
<1>2. \A x \in D2 : E2[x] \in Nat /\ x < E2[x] /\ E2[x] <= L2 /\ E2[x] \in D2 \cup {L2}
  BY <1>1 DEF Tiles
<1>3. \A x, y \in D2 : x < y => E2[x] <= y BY <1>1 DEF Tiles
<1>4. ASSUME NEW y \in D2 \cup {L2}, y # 0 PROVE \E x \in D2 : E2[x] = y
  <2>1. CASE y = L2 BY <2>1
  <2>2. CASE y # L2
    <3> PICK x \in D : E[x] = y BY <1>4, <2>2 DEF Tiles
    <3> QED OBVIOUS
  <2> QED BY <2>1, <2>2
<1>5. 0 \in D2 \cup {L2} BY DEF Tiles
<1>6. D2 \subseteq Nat BY DEF Tiles
<1> QED BY <1>1, <1>2, <1>3, <1>4, <1>5, <1>6 DEF Tiles

-----------------------------------------------------------------------------
(***************************************************************************)
(* The record of the allocator's globals.                                  *)
(***************************************************************************)
Memory ==
  [hdr : UNION {[D -> Header] : D \in SUBSET Addr}, nz : SUBSET Addr,
   FreeHead : Link, FreeTail : Link, LastMEM : Addr,
   MemHead : [Task -> Link], MemTail : [Task -> Link],
   MemLevel : [Task -> Int], alive : [Task -> BOOLEAN]]

\* The fields that the free-list operators leave alone.
SameTasks(m, r) ==
  /\ r.LastMEM = m.LastMEM /\ r.MemHead = m.MemHead /\ r.MemTail = m.MemTail
  /\ r.MemLevel = m.MemLevel /\ r.alive = m.alive

\* Offsets in runMem are natural numbers, and null is none of them.
LEMMA AddrNat == Addr \subseteq Nat /\ NULL \notin Addr /\ IsFiniteSet(Addr)
  BY SizesAssumption, FS_Interval DEF Addr, NULL

\* The headers of a heap stand at finitely many offsets, and each is a Header.
LEMMA HeadersFacts ==
  ASSUME NEW m \in Memory
  PROVE  /\ m.hdr \in [DOMAIN m.hdr -> Header]
         /\ DOMAIN m.hdr \subseteq Addr
         /\ IsFiniteSet(DOMAIN m.hdr)
<1>1. PICK D \in SUBSET Addr : m.hdr \in [D -> Header] BY DEF Memory
<1>2. DOMAIN m.hdr = D BY <1>1
<1> QED BY <1>1, <1>2, AddrNat, FS_Subset

\* Cells are addresses.
LEMMA CellsAddr == \A a, n : Cells(a, n) \subseteq Addr
  BY TracedAssumption DEF Cells

\* SetNext and SetLast change one field of one header, if there is one.
LEMMA SetNextFacts ==
  ASSUME NEW D, NEW hdr \in [D -> Header], NULL \notin D, NEW a, NEW v \in Link
  PROVE  /\ SetNext(hdr, a, v) \in [D -> Header]
         /\ \A x \in D :
              /\ SetNext(hdr, a, v)[x].next = IF x = a THEN v ELSE hdr[x].next
              /\ SetNext(hdr, a, v)[x].last = hdr[x].last
              /\ SetNext(hdr, a, v)[x].len = hdr[x].len
              /\ SetNext(hdr, a, v)[x].magic = hdr[x].magic
              /\ SetNext(hdr, a, v)[x].id = hdr[x].id
              /\ x # a => SetNext(hdr, a, v)[x] = hdr[x]
  BY DEF SetNext, Header

\* A write to the last link of a block, if there is one, changes nothing else.
LEMMA SetLastFacts ==
  ASSUME NEW D, NEW hdr \in [D -> Header], NULL \notin D, NEW a, NEW v \in Link
  PROVE  /\ SetLast(hdr, a, v) \in [D -> Header]
         /\ \A x \in D :
              /\ SetLast(hdr, a, v)[x].last = IF x = a THEN v ELSE hdr[x].last
              /\ SetLast(hdr, a, v)[x].next = hdr[x].next
              /\ SetLast(hdr, a, v)[x].len = hdr[x].len
              /\ SetLast(hdr, a, v)[x].magic = hdr[x].magic
              /\ SetLast(hdr, a, v)[x].id = hdr[x].id
              /\ x # a => SetLast(hdr, a, v)[x] = hdr[x]
  BY DEF SetLast, Header

\* Taking a block out of the free list changes the links of its two neighbours in
\* the list, and FreeHead or FreeTail if it stood there, and nothing else.
LEMMA RelinkFacts ==
  ASSUME NEW m \in Memory, NEW a \in DOMAIN m.hdr, NEW f \in Link, NEW g \in Link
  PROVE  LET r == Relink(m, a, f, g) IN
         /\ r \in Memory /\ DOMAIN r.hdr = DOMAIN m.hdr
         /\ \A x \in DOMAIN m.hdr :
              /\ r.hdr[x].next = IF x = m.hdr[a].last THEN f ELSE m.hdr[x].next
              /\ r.hdr[x].last = IF x = m.hdr[a].next THEN g ELSE m.hdr[x].last
              /\ r.hdr[x].len = m.hdr[x].len
              /\ r.hdr[x].magic = m.hdr[x].magic /\ r.hdr[x].id = m.hdr[x].id
              /\ x \notin {m.hdr[a].last, m.hdr[a].next} => r.hdr[x] = m.hdr[x]
         /\ r.FreeHead = IF m.FreeHead = a THEN f ELSE m.FreeHead
         /\ r.FreeTail = IF m.FreeTail = a THEN g ELSE m.FreeTail
         /\ r.nz = m.nz /\ SameTasks(m, r)
<1> DEFINE D == DOMAIN m.hdr
           h1 == SetNext(m.hdr, m.hdr[a].last, f)
           h2 == SetLast(h1, m.hdr[a].next, g)
           r == Relink(m, a, f, g)
<1>1. m.hdr \in [D -> Header] /\ D \subseteq Addr /\ NULL \notin D
  BY HeadersFacts, AddrNat
<1>2. /\ h1 \in [D -> Header]
      /\ \A x \in D :
           /\ h1[x].next = IF x = m.hdr[a].last THEN f ELSE m.hdr[x].next
           /\ h1[x].last = m.hdr[x].last
           /\ h1[x].len = m.hdr[x].len
           /\ h1[x].magic = m.hdr[x].magic /\ h1[x].id = m.hdr[x].id
           /\ x # m.hdr[a].last => h1[x] = m.hdr[x]
  <2> HIDE DEF D
  <2> QED BY <1>1, SetNextFacts
<1> HIDE DEF h1
<1>3. /\ h2 \in [D -> Header]
      /\ \A x \in D :
           /\ h2[x].last = IF x = m.hdr[a].next THEN g ELSE h1[x].last
           /\ h2[x].next = h1[x].next
           /\ h2[x].len = h1[x].len
           /\ h2[x].magic = h1[x].magic /\ h2[x].id = h1[x].id
           /\ x # m.hdr[a].next => h2[x] = h1[x]
  <2> HIDE DEF D
  <2> QED BY <1>1, <1>2, SetLastFacts
<1> HIDE DEF h2
<1>4. r = [m EXCEPT !.hdr = h2, !.FreeHead = IF @ = a THEN f ELSE @,
                    !.FreeTail = IF @ = a THEN g ELSE @]
  BY DEF Relink, h1, h2
<1> HIDE DEF r
<1>5. /\ r.hdr = h2 /\ r.nz = m.nz /\ SameTasks(m, r)
      /\ r.FreeHead = IF m.FreeHead = a THEN f ELSE m.FreeHead
      /\ r.FreeTail = IF m.FreeTail = a THEN g ELSE m.FreeTail
  BY <1>4 DEF Memory, SameTasks
<1>6. r \in Memory
  <2>1. h2 \in UNION {[C -> Header] : C \in SUBSET Addr} BY <1>1, <1>3
  <2>2. /\ (IF m.FreeHead = a THEN f ELSE m.FreeHead) \in Link
        /\ (IF m.FreeTail = a THEN g ELSE m.FreeTail) \in Link BY DEF Memory
  <2> HIDE DEF D
  <2> QED BY <1>4, <2>1, <2>2 DEF Memory
<1>7. DOMAIN r.hdr = D BY <1>3, <1>5
<1> QED BY <1>2, <1>3, <1>5, <1>6, <1>7 DEF r

\* Clearing a header takes the block out of the heap and leaves the lists alone.
LEMMA EraseFacts ==
  ASSUME NEW m \in Memory, NEW a
  PROVE  LET r == Erase(m, a) IN
         /\ r \in Memory /\ DOMAIN r.hdr = DOMAIN m.hdr \ {a}
         /\ \A x \in DOMAIN m.hdr \ {a} : r.hdr[x] = m.hdr[x]
         /\ r.FreeHead = m.FreeHead /\ r.FreeTail = m.FreeTail /\ SameTasks(m, r)
         /\ r.nz = m.nz \ Cells(a, HDR)
<1> DEFINE D == DOMAIN m.hdr \ {a}
           r == Erase(m, a)
           h == Without(m.hdr, a)
<1>1. m.hdr \in [DOMAIN m.hdr -> Header] /\ DOMAIN m.hdr \subseteq Addr BY HeadersFacts
<1>2. h \in [D -> Header] /\ \A x \in D : h[x] = m.hdr[x] BY <1>1 DEF Without
<1>3. r = [m EXCEPT !.hdr = h, !.nz = @ \ Cells(a, HDR)] BY DEF Erase
<1> HIDE DEF h, r
<1>4. /\ r.hdr = h /\ r.FreeHead = m.FreeHead /\ r.FreeTail = m.FreeTail /\ SameTasks(m, r)
      /\ r.nz = m.nz \ Cells(a, HDR)
  BY <1>3 DEF Memory, SameTasks
<1>5. r \in Memory BY <1>1, <1>2, <1>3, ZenonT(40) DEF Memory
<1> QED BY <1>2, <1>4, <1>5 DEF r

-----------------------------------------------------------------------------
(***************************************************************************)
(* What the functions of Memory.cpp do to a heap that is in order.         *)
(***************************************************************************)
EndsOf(m) == [a \in DOMAIN m.hdr |-> Ends(m, a)]

(***************************************************************************)
(* The heap is in order and U is the set of the blocks in use: the blocks  *)
(* tile the memory up to LastMEM, and all the others are marked FREE and   *)
(* listed from FreeHead to FreeTail, no two of them side by side.          *)
(***************************************************************************)
Spare(m, U) == DOMAIN m.hdr \ U
Alone(m, U) == \A a \in Spare(m, U) : EndsOf(m)[a] \notin Spare(m, U)

Heap(m, U) ==
  /\ m \in Memory
  /\ U \subseteq DOMAIN m.hdr
  /\ Tiles(DOMAIN m.hdr, EndsOf(m), m.LastMEM)
  /\ \A a \in Spare(m, U) : m.hdr[a].magic = "FREE"
  /\ HasList(m.hdr, Spare(m, U), m.FreeHead, m.FreeTail, Cardinality(Spare(m, U)))
  /\ Alone(m, U)

\* r is m as far as the blocks of U and the tasks are concerned.
Kept(m, r, U) ==
  /\ SameTasks(m, r) /\ U \subseteq DOMAIN r.hdr
  /\ \A a \in U : r.hdr[a] = m.hdr[a]

\* Some blocks outside V are swallowed, and their headers are cleared.
HeaderCells(S) == UNION {Cells(a, HDR) : a \in S}
Swallows(m, r, G) == DOMAIN r.hdr = DOMAIN m.hdr \ G /\ r.nz = m.nz \ HeaderCells(G)
Cleared(m, r, V) == \E G \in SUBSET (DOMAIN m.hdr \ V) : Swallows(m, r, G)

\* For every free block of m there is one as long in r.
Roomier(m, r, U, V) ==
  \A x \in Spare(m, U) : \E y \in Spare(r, V) : r.hdr[y].len >= m.hdr[x].len

\* m, with the blocks V in use, becomes r by giving back those outside W.
Frees(m, r, V, W) ==
  Heap(r, W) /\ Kept(m, r, W) /\ Cleared(m, r, W) /\ Roomier(m, r, V, W)

\* A header takes up at least one byte.
LEMMA HdrPositive == HDR \in Nat /\ HDR > 0
  BY SizesAssumption

\* Only the length of one block changes.
Grown(m, p, n) == [m EXCEPT !.hdr[p].len = @ + n]

\* Growing a block changes its length and nothing else.
LEMMA GrowFacts ==
  ASSUME NEW m \in Memory, NEW p \in DOMAIN m.hdr, NEW n \in Nat
  PROVE  LET r == Grown(m, p, n) IN
         /\ r \in Memory /\ DOMAIN r.hdr = DOMAIN m.hdr
         /\ \A x \in DOMAIN m.hdr :
              /\ r.hdr[x].next = m.hdr[x].next /\ r.hdr[x].last = m.hdr[x].last
              /\ r.hdr[x].magic = m.hdr[x].magic
              /\ r.hdr[x].len = IF x = p THEN m.hdr[p].len + n ELSE m.hdr[x].len
              /\ x # p => r.hdr[x] = m.hdr[x]
         /\ r.FreeHead = m.FreeHead /\ r.FreeTail = m.FreeTail
         /\ r.nz = m.nz /\ SameTasks(m, r)
<1> DEFINE D == DOMAIN m.hdr
           h == [m.hdr EXCEPT ![p].len = @ + n]
           r == Grown(m, p, n)
<1>1. m.hdr \in [D -> Header] /\ D \subseteq Addr BY HeadersFacts
<1>2. /\ h \in [D -> Header]
      /\ \A x \in D :
           /\ h[x].next = m.hdr[x].next /\ h[x].last = m.hdr[x].last
           /\ h[x].magic = m.hdr[x].magic
           /\ h[x].len = IF x = p THEN m.hdr[p].len + n ELSE m.hdr[x].len
           /\ x # p => h[x] = m.hdr[x]
  <2> HIDE DEF D
  <2> QED BY <1>1 DEF Header
<1>3. r = [m EXCEPT !.hdr = h] BY DEF Memory, Grown
<1> HIDE DEF h, r
<1>4. /\ r.hdr = h /\ r.FreeHead = m.FreeHead /\ r.FreeTail = m.FreeTail
      /\ r.nz = m.nz /\ SameTasks(m, r)
  BY <1>3 DEF Memory, SameTasks
<1>5. r \in Memory BY <1>1, <1>2, <1>3 DEF Memory
<1> QED BY <1>2, <1>4, <1>5 DEF r

\* One header is replaced by another.
Put(m, a, h) == [m EXCEPT !.hdr[a] = h]

\* Replacing the header of one block leaves the others and the lists alone.
LEMMA PutFacts ==
  ASSUME NEW m \in Memory, NEW a \in DOMAIN m.hdr, NEW h \in Header
  PROVE  LET r == Put(m, a, h) IN
         /\ r \in Memory /\ DOMAIN r.hdr = DOMAIN m.hdr
         /\ r.hdr[a] = h
         /\ \A x \in DOMAIN m.hdr : x # a => r.hdr[x] = m.hdr[x]
         /\ r.FreeHead = m.FreeHead /\ r.FreeTail = m.FreeTail
         /\ r.nz = m.nz /\ SameTasks(m, r)
<1> DEFINE D == DOMAIN m.hdr
           g == [m.hdr EXCEPT ![a] = h]
           r == Put(m, a, h)
<1>1. m.hdr \in [D -> Header] /\ D \subseteq Addr BY HeadersFacts
<1>2. /\ g \in [D -> Header] /\ g[a] = h
      /\ \A x \in D : x # a => g[x] = m.hdr[x]
  <2> HIDE DEF D
  <2> QED BY <1>1
<1>3. r = [m EXCEPT !.hdr = g] BY DEF Memory, Put
<1> HIDE DEF g, r
<1>4. /\ r.hdr = g /\ r.FreeHead = m.FreeHead /\ r.FreeTail = m.FreeTail
      /\ r.nz = m.nz /\ SameTasks(m, r)
  BY <1>3 DEF Memory, SameTasks
<1>5. r \in Memory BY <1>1, <1>2, <1>3 DEF Memory
<1> QED BY <1>2, <1>4, <1>5 DEF r

\* What a heap in order says of one of its blocks.
LEMMA BlockFacts ==
  ASSUME NEW m, NEW U, Heap(m, U), NEW a \in DOMAIN m.hdr
  PROVE  /\ a \in Nat /\ a \in Addr /\ m.hdr[a] \in Header
         /\ EndsOf(m)[a] = a + HDR + m.hdr[a].len /\ Ends(m, a) = EndsOf(m)[a]
         /\ m.hdr[a].len \in Nat
  BY HeadersFacts, AddrNat DEF Heap, EndsOf, Ends, Header

-----------------------------------------------------------------------------
\* SuperFree, when the listed block before b ends where b begins.
LEMMA MergePrevHeap ==
  ASSUME NEW m, NEW U, Heap(m, U), NEW b \in U,
         NEW p \in Spare(m, U), Ends(m, p) = b,
         \A x \in Spare(m, U) : Ends(m, b) # x
  PROVE  Frees(m, MergePrev(m, p, b), U, U \ {b})
<1> DEFINE D == DOMAIN m.hdr
           grow == HDR + m.hdr[b].len
           q == Grown(m, p, grow)
           r == Erase(q, b)
<1>1. /\ m \in Memory /\ p \in D /\ b \in D /\ p # b /\ grow \in Nat
      /\ D \subseteq Nat
  <2>1. p \in D /\ b \in D /\ m \in Memory /\ p # b BY DEF Heap, Spare
  <2>2. m.hdr[b].len \in Nat BY <2>1, BlockFacts
  <2> QED BY <2>1, <2>2, SizesAssumption DEF Heap, Tiles
<1>2. MergePrev(m, p, b) = r
  <2>1. m.hdr[p].len \in Nat /\ m.hdr[b].len \in Nat BY <1>1, BlockFacts
  <2>2. m.hdr[p].len + HDR + m.hdr[b].len = m.hdr[p].len + grow
    BY <2>1, SizesAssumption
  <2> HIDE DEF grow
  <2> QED BY <2>2 DEF MergePrev, Grown
<1> HIDE DEF grow
<1>3. /\ q \in Memory /\ DOMAIN q.hdr = D
      /\ \A x \in D :
              /\ q.hdr[x].next = m.hdr[x].next /\ q.hdr[x].last = m.hdr[x].last
              /\ q.hdr[x].magic = m.hdr[x].magic
              /\ q.hdr[x].len = IF x = p THEN m.hdr[p].len + grow ELSE m.hdr[x].len
              /\ x # p => q.hdr[x] = m.hdr[x]
      /\ q.FreeHead = m.FreeHead /\ q.FreeTail = m.FreeTail
      /\ q.nz = m.nz /\ SameTasks(m, q)
  BY <1>1, GrowFacts
<1> HIDE DEF q
<1>4. /\ r \in Memory /\ DOMAIN r.hdr = D \ {b}
      /\ \A x \in D \ {b} : r.hdr[x] = q.hdr[x]
      /\ r.FreeHead = q.FreeHead /\ r.FreeTail = q.FreeTail /\ SameTasks(q, r)
      /\ r.nz = q.nz \ Cells(b, HDR)
  BY <1>3, EraseFacts
<1> HIDE DEF r
<1>5. Spare(r, U \ {b}) = Spare(m, U) BY <1>1, <1>4 DEF Spare
<1>6. HasList(r.hdr, Spare(m, U), r.FreeHead, r.FreeTail, Cardinality(Spare(m, U)))
  <2>1. \A a \in Spare(m, U) : r.hdr[a].next = m.hdr[a].next /\ r.hdr[a].last = m.hdr[a].last
    BY <1>3, <1>4 DEF Spare
  <2> QED BY <1>3, <1>4, <2>1, ListSame DEF Heap
<1>7. \A a \in D \ {b} :
        /\ EndsOf(r)[a] = IF a = p THEN EndsOf(m)[b] ELSE EndsOf(m)[a]
        /\ r.hdr[a].len = IF a = p THEN m.hdr[p].len + grow ELSE m.hdr[a].len
  <2> TAKE a \in D \ {b}
  <2> DEFINE E == EndsOf(m)
             E2 == EndsOf(r)
  <2>1. E2[a] = a + HDR + r.hdr[a].len BY <1>4 DEF EndsOf, Ends
  <2>2. E[a] = a + HDR + m.hdr[a].len /\ m.hdr[a].len \in Nat BY BlockFacts
  <2>3. E[b] = b + HDR + m.hdr[b].len /\ m.hdr[b].len \in Nat /\ b \in Nat BY <1>1, BlockFacts
  <2>4. CASE a = p
    <3>1. r.hdr[a].len = m.hdr[p].len + grow BY <1>3, <1>4, <2>4
    <3>2. E[p] = b /\ p \in Nat /\ m.hdr[p].len \in Nat BY <1>1, BlockFacts
    <3> QED BY <2>1, <2>2, <2>3, <2>4, <3>1, <3>2, SizesAssumption DEF grow
  <2>5. CASE a # p
    <3>1. r.hdr[a].len = m.hdr[a].len BY <1>3, <1>4, <2>5
    <3> QED BY <2>1, <2>2, <2>5, <3>1
  <2> QED BY <2>4, <2>5
<1>11. Tiles(DOMAIN r.hdr, EndsOf(r), r.LastMEM)
  <2>1. EndsOf(m)[p] = b BY <1>1, BlockFacts
  <2>2. Tiles(D, EndsOf(m), m.LastMEM) BY DEF Heap
  <2>3. r.LastMEM = m.LastMEM BY <1>3, <1>4 DEF SameTasks
  <2> DEFINE E == EndsOf(m)
             E2 == EndsOf(r)
  <2>5. \A a \in D \ {b} : E2[a] = IF a = p THEN E[b] ELSE E[a] BY <1>7
  <2>6. Tiles(D, E, m.LastMEM) /\ E[p] = b BY <2>1, <2>2
  <2> HIDE DEF E, E2, D
  <2>4. Tiles(D \ {b}, E2, m.LastMEM) BY <1>1, <2>5, <2>6, TilesMerge
  <2> QED BY <1>4, <2>3, <2>4 DEF E2, D
<1>12. Alone(r, U \ {b})
  <2>1. EndsOf(m)[b] \notin Spare(m, U) BY <1>1, BlockFacts
  <2>2. \A a \in Spare(m, U) : a \in D \ {b} BY DEF Spare
  <2> QED BY <1>5, <1>7, <2>1, <2>2 DEF Alone, Heap
<1>13. Cleared(m, r, U \ {b})
  <2>1. HeaderCells({b}) = Cells(b, HDR) BY DEF HeaderCells
  <2> QED BY <1>1, <1>3, <1>4, <2>1 DEF Cleared, Swallows
<1>14. Roomier(m, r, U, U \ {b})
  <2>1. \A x \in Spare(m, U) : m.hdr[x].len \in Nat /\ r.hdr[x].len >= m.hdr[x].len
    <3> TAKE x \in Spare(m, U)
    <3>1. x \in D \ {b} BY DEF Spare
    <3>2. m.hdr[x].len \in Nat BY <3>1, BlockFacts
    <3>3. r.hdr[x].len = IF x = p THEN m.hdr[p].len + grow ELSE m.hdr[x].len BY <1>7, <3>1
    <3> QED BY <1>1, <3>2, <3>3
  <2> QED BY <1>5, <2>1 DEF Roomier
<1>8. \A a \in Spare(m, U) : r.hdr[a].magic = "FREE"
  BY <1>3, <1>4 DEF Heap, Spare
<1>9. Kept(m, r, U \ {b})
  <2>1. SameTasks(m, r) BY <1>3, <1>4 DEF SameTasks
  <2>2. U \subseteq D BY DEF Heap
  <2>3. \A a \in U \ {b} : a # p BY DEF Spare
  <2> QED BY <1>3, <1>4, <2>1, <2>2, <2>3 DEF Kept
<1>10. Heap(r, U \ {b})
  <2>1. U \ {b} \subseteq DOMAIN r.hdr BY <1>4 DEF Heap
  <2> QED BY <1>4, <1>5, <1>6, <1>8, <1>11, <1>12, <2>1 DEF Heap
<1> QED BY <1>2, <1>9, <1>10, <1>13, <1>14 DEF Frees

\* SuperFree, when block b ends where the listed block s begins.
LEMMA MergeNextHeap ==
  ASSUME NEW m, NEW U, Heap(m, U), NEW b \in U,
         NEW s \in Spare(m, U), Ends(m, b) = s,
         \A x \in Spare(m, U) : Ends(m, x) # b
  PROVE  Frees(m, MergeNext(m, b, s), U, U \ {b})
<1> DEFINE D == DOMAIN m.hdr
           taken == [m.hdr[s] EXCEPT !.len = @ + HDR + m.hdr[b].len]
           c == Relink(m, s, b, b)
           q == Put(c, b, taken)
           r == Erase(q, s)
           n == Cardinality(Spare(m, U))
<1>1. /\ m \in Memory /\ s \in D /\ b \in D /\ s # b
      /\ D \subseteq Nat /\ D \subseteq Addr /\ Spare(m, U) \subseteq Nat
      /\ HasList(m.hdr, Spare(m, U), m.FreeHead, m.FreeTail, n)
      /\ b \notin Spare(m, U)
  BY HeadersFacts DEF Heap, Spare, Tiles
<1>2. MergeNext(m, b, s) = r BY DEF MergeNext, Put
<1>3. /\ m.hdr[s] \in Header /\ m.hdr[b] \in Header
      /\ m.hdr[s].len \in Nat /\ m.hdr[b].len \in Nat BY <1>1, BlockFacts
<1>4. taken \in Header /\ taken.next = m.hdr[s].next /\ taken.last = m.hdr[s].last
      /\ taken.len = m.hdr[s].len + HDR + m.hdr[b].len /\ taken.magic = m.hdr[s].magic
  BY <1>3, SizesAssumption DEF Header
<1> HIDE DEF taken
<1>5. /\ c \in Memory /\ DOMAIN c.hdr = D
      /\ \A x \in D :
           /\ c.hdr[x].next = IF x = m.hdr[s].last THEN b ELSE m.hdr[x].next
           /\ c.hdr[x].last = IF x = m.hdr[s].next THEN b ELSE m.hdr[x].last
           /\ c.hdr[x].len = m.hdr[x].len
           /\ c.hdr[x].magic = m.hdr[x].magic
           /\ x \notin {m.hdr[s].last, m.hdr[s].next} => c.hdr[x] = m.hdr[x]
      /\ c.FreeHead = IF m.FreeHead = s THEN b ELSE m.FreeHead
      /\ c.FreeTail = IF m.FreeTail = s THEN b ELSE m.FreeTail
      /\ c.nz = m.nz /\ SameTasks(m, c)
  <2>1. b \in Link BY <1>1 DEF Link
  <2> QED BY <1>1, <2>1, RelinkFacts
<1> HIDE DEF c
<1>6. /\ q \in Memory /\ DOMAIN q.hdr = D /\ q.hdr[b] = taken
      /\ \A x \in D : x # b => q.hdr[x] = c.hdr[x]
      /\ q.FreeHead = c.FreeHead /\ q.FreeTail = c.FreeTail /\ SameTasks(c, q)
      /\ q.nz = c.nz
  <2>1. b \in DOMAIN c.hdr BY <1>1, <1>5
  <2> QED BY <1>4, <1>5, <2>1, PutFacts
<1> HIDE DEF q
<1>7. /\ r \in Memory /\ DOMAIN r.hdr = D \ {s}
      /\ \A x \in D \ {s} : r.hdr[x] = q.hdr[x]
      /\ r.FreeHead = q.FreeHead /\ r.FreeTail = q.FreeTail /\ SameTasks(q, r)
      /\ r.nz = q.nz \ Cells(s, HDR)
  BY <1>6, EraseFacts
<1> HIDE DEF r
<1>8. Spare(r, U \ {b}) = (Spare(m, U) \ {s}) \cup {b} BY <1>1, <1>7 DEF Spare, Heap
<1>9. r.hdr[b] = taken /\ \A x \in D : x # b /\ x # s => r.hdr[x] = c.hdr[x]
  BY <1>1, <1>6, <1>7
<1>10. HasList(r.hdr, (Spare(m, U) \ {s}) \cup {b}, r.FreeHead, r.FreeTail, n)
  <2>1. \A x \in Spare(m, U) \ {s} :
           /\ r.hdr[x].next = IF x = m.hdr[s].last THEN b ELSE m.hdr[x].next
           /\ r.hdr[x].last = IF x = m.hdr[s].next THEN b ELSE m.hdr[x].last
    BY <1>1, <1>5, <1>9 DEF Spare
  <2>2. r.hdr[b].next = m.hdr[s].next /\ r.hdr[b].last = m.hdr[s].last BY <1>4, <1>9
  <2>3. /\ r.FreeHead = IF m.FreeHead = s THEN b ELSE m.FreeHead
        /\ r.FreeTail = IF m.FreeTail = s THEN b ELSE m.FreeTail BY <1>5, <1>6, <1>7
  <2>4. b \in Nat \ Spare(m, U) BY <1>1
  <2> HIDE DEF n
  <2>5. Replaces(m.hdr, r.hdr, Spare(m, U), s, b) BY <1>1, <2>1, <2>2, <2>4 DEF Replaces
  <2> QED BY <1>1, <2>3, <2>5, ListReplace
<1>11. n = Cardinality(Spare(r, U \ {b})) BY <1>8, <1>10, ListCard
<1>12. \A a \in D \ {s} :
         /\ EndsOf(r)[a] = IF a = b THEN EndsOf(m)[s] ELSE EndsOf(m)[a]
         /\ r.hdr[a].len = IF a = b THEN m.hdr[s].len + HDR + m.hdr[b].len ELSE m.hdr[a].len
  <2> TAKE a \in D \ {s}
  <2> DEFINE E == EndsOf(m)
             E2 == EndsOf(r)
  <2>1. E2[a] = a + HDR + r.hdr[a].len BY <1>7 DEF EndsOf, Ends
  <2>2. E[a] = a + HDR + m.hdr[a].len /\ a \in Nat BY BlockFacts
  <2>3. E[s] = s + HDR + m.hdr[s].len /\ s \in Nat BY <1>1, BlockFacts
  <2>4. CASE a = b
    <3>1. r.hdr[a].len = m.hdr[s].len + HDR + m.hdr[b].len BY <1>4, <1>9, <2>4
    <3>2. s = b + HDR + m.hdr[b].len BY <1>1, <2>2, <2>4, BlockFacts
    <3> QED BY <1>3, <2>1, <2>2, <2>3, <2>4, <3>1, <3>2, SizesAssumption
  <2>5. CASE a # b
    <3>1. r.hdr[a].len = m.hdr[a].len BY <1>5, <1>9, <2>5
    <3> QED BY <2>1, <2>2, <2>5, <3>1
  <2> QED BY <2>4, <2>5
<1>16. EndsOf(m)[b] = s /\ Tiles(D, EndsOf(m), m.LastMEM) BY <1>1, BlockFacts DEF Heap
<1>17. Tiles(DOMAIN r.hdr, EndsOf(r), r.LastMEM)
  <2>1. r.LastMEM = m.LastMEM BY <1>5, <1>6, <1>7 DEF SameTasks
  <2> DEFINE E == EndsOf(m)
             E2 == EndsOf(r)
  <2>3. \A a \in D \ {s} : E2[a] = IF a = b THEN E[s] ELSE E[a] BY <1>12
  <2>4. Tiles(D, E, m.LastMEM) /\ E[b] = s BY <1>16
  <2> HIDE DEF E, E2, D
  <2>2. Tiles(D \ {s}, E2, m.LastMEM) BY <1>1, <2>3, <2>4, TilesMerge
  <2> QED BY <1>7, <2>1, <2>2 DEF E2, D
<1>18. Alone(r, U \ {b})
  <2>1. EndsOf(m)[s] # b /\ EndsOf(m)[s] # s
    <3> DEFINE E == EndsOf(m)
    <3>1. E[b] = s /\ b < E[b] /\ s < E[s] /\ E[s] \in Nat /\ b \in Nat /\ s \in Nat
      BY <1>1, <1>16 DEF Tiles
    <3> HIDE DEF E
    <3> QED BY <3>1 DEF E
  <2>2. \A a \in Spare(m, U) : EndsOf(m)[a] \notin Spare(m, U) BY DEF Heap, Alone
  <2>3. \A a \in Spare(m, U) : a \in D /\ EndsOf(m)[a] # b
    <3> TAKE a \in Spare(m, U)
    <3>1. a \in D BY DEF Spare
    <3> QED BY <3>1, BlockFacts
  <2>4. ASSUME NEW a \in (Spare(m, U) \ {s}) \cup {b}
        PROVE  EndsOf(r)[a] \notin (Spare(m, U) \ {s}) \cup {b}
    <3>1. CASE a = b BY <1>1, <1>12, <2>1, <2>2, <3>1
    <3>2. CASE a # b BY <1>12, <2>2, <2>3, <2>4, <3>2
    <3> QED BY <3>1, <3>2
  <2> QED BY <1>8, <2>4 DEF Alone
<1>19. Cleared(m, r, U \ {b})
  <2>1. HeaderCells({s}) = Cells(s, HDR) BY DEF HeaderCells
  <2>2. {s} \in SUBSET (D \ (U \ {b})) BY <1>1 DEF Spare
  <2> QED BY <1>5, <1>6, <1>7, <2>1, <2>2 DEF Cleared, Swallows
<1>20. Roomier(m, r, U, U \ {b})
  <2> SUFFICES ASSUME NEW x \in Spare(m, U)
               PROVE  \E y \in (Spare(m, U) \ {s}) \cup {b} : r.hdr[y].len >= m.hdr[x].len
    BY <1>8 DEF Roomier
  <2>1. x \in D BY DEF Spare
  <2>2. m.hdr[x].len \in Nat BY <2>1, BlockFacts
  <2>3. CASE x = s
    <3>1. r.hdr[b].len = m.hdr[s].len + HDR + m.hdr[b].len BY <1>1, <1>12
    <3>2. r.hdr[b].len >= m.hdr[x].len BY <1>3, <2>3, <3>1, HdrPositive
    <3> QED BY <3>2
  <2>4. CASE x # s
    <3>1. r.hdr[x].len = m.hdr[x].len BY <1>1, <1>12, <2>1, <2>4
    <3>2. r.hdr[x].len >= m.hdr[x].len BY <2>2, <3>1
    <3> QED BY <2>4, <3>2
  <2> QED BY <2>3, <2>4
<1>13. \A a \in Spare(r, U \ {b}) : r.hdr[a].magic = "FREE"
  <2>1. \A a \in Spare(m, U) \ {s} : r.hdr[a].magic = m.hdr[a].magic
    BY <1>1, <1>5, <1>9 DEF Spare
  <2>2. r.hdr[b].magic = m.hdr[s].magic BY <1>4, <1>9
  <2> QED BY <1>8, <2>1, <2>2 DEF Heap
<1>14. Kept(m, r, U \ {b})
  <2>1. SameTasks(m, r) BY <1>5, <1>6, <1>7 DEF SameTasks
  <2>2. U \subseteq D /\ s \notin U BY DEF Heap, Spare
  <2>3. m.hdr[s].last \notin U /\ m.hdr[s].next \notin U
    <3> HIDE DEF n
    <3>1. m.hdr[s].last \in Spare(m, U) \cup {NULL} /\ m.hdr[s].next \in Spare(m, U) \cup {NULL}
      BY <1>1, ListEnds
    <3> QED BY <1>1, <2>2, <3>1, AddrNat DEF Spare
  <2>4. \A a \in U \ {b} : r.hdr[a] = m.hdr[a] BY <1>5, <1>9, <2>2, <2>3
  <2> QED BY <1>7, <2>1, <2>2, <2>4 DEF Kept
<1>15. Heap(r, U \ {b})
  <2>1. U \ {b} \subseteq DOMAIN r.hdr BY <1>7 DEF Heap, Spare
  <2> QED BY <1>7, <1>8, <1>10, <1>11, <1>13, <1>17, <1>18, <2>1 DEF Heap
<1> QED BY <1>2, <1>14, <1>15, <1>19, <1>20 DEF Frees

\* SuperFree, when block b closes the gap between two listed blocks.
LEMMA MergeBothHeap ==
  ASSUME NEW m, NEW U, Heap(m, U), NEW b \in U,
         NEW p \in Spare(m, U), Ends(m, p) = b,
         NEW s \in Spare(m, U), Ends(m, b) = s
  PROVE  Frees(m, MergeBoth(m, p, b, s), U, U \ {b})
<1> DEFINE D == DOMAIN m.hdr
           lp == m.hdr[p].len
           lb == m.hdr[b].len
           ls == m.hdr[s].len
           grow == 2 * HDR + lb + ls
           f == m.hdr[s].next
           g == m.hdr[s].last
           c == Relink(m, s, f, g)
           q == Grown(c, p, grow)
           w == Erase(q, b)
           r == Erase(w, s)
           n == Cardinality(Spare(m, U))
<1>1. /\ m \in Memory /\ s \in D /\ b \in D /\ p \in D /\ s # b /\ p # b
      /\ D \subseteq Nat /\ D \subseteq Addr /\ Spare(m, U) \subseteq Nat
      /\ HasList(m.hdr, Spare(m, U), m.FreeHead, m.FreeTail, n)
      /\ b \notin Spare(m, U)
  BY HeadersFacts DEF Heap, Spare, Tiles
<1>2. MergeBoth(m, p, b, s) = r BY DEF MergeBoth, Grown
<1>3. /\ m.hdr[s] \in Header /\ m.hdr[b] \in Header /\ m.hdr[p] \in Header
      /\ m.hdr[s].len \in Nat /\ m.hdr[b].len \in Nat /\ m.hdr[p].len \in Nat
      /\ EndsOf(m)[p] = b /\ EndsOf(m)[b] = s
      /\ b = p + HDR + m.hdr[p].len /\ s = b + HDR + m.hdr[b].len
      /\ EndsOf(m)[s] = s + HDR + m.hdr[s].len
      /\ p \in Nat /\ b \in Nat /\ s \in Nat
  BY <1>1, BlockFacts
<1>4. /\ grow \in Nat /\ p # s /\ HDR \in Nat
      /\ p + HDR + (lp + grow) = s + HDR + ls
  <2>1. /\ lp \in Nat /\ lb \in Nat /\ ls \in Nat /\ p \in Nat /\ s \in Nat
        /\ b = p + HDR + lp /\ s = b + HDR + lb /\ HDR \in Nat /\ HDR > 0
    BY <1>3, HdrPositive
  <2> HIDE DEF lp, lb, ls
  <2> QED BY <2>1, SMTT(30)
<1>5. /\ c \in Memory /\ DOMAIN c.hdr = D
      /\ \A x \in D :
           /\ c.hdr[x].next = IF x = g THEN f ELSE m.hdr[x].next
           /\ c.hdr[x].last = IF x = f THEN g ELSE m.hdr[x].last
           /\ c.hdr[x].len = m.hdr[x].len
           /\ c.hdr[x].magic = m.hdr[x].magic
           /\ x \notin {g, f} => c.hdr[x] = m.hdr[x]
      /\ c.FreeHead = IF m.FreeHead = s THEN f ELSE m.FreeHead
      /\ c.FreeTail = IF m.FreeTail = s THEN g ELSE m.FreeTail
      /\ c.nz = m.nz /\ SameTasks(m, c)
  <2>1. f \in Link /\ g \in Link BY <1>3 DEF Header
  <2>2. m \in Memory /\ s \in DOMAIN m.hdr /\ m.hdr[s].next = f /\ m.hdr[s].last = g BY <1>1
  <2> HIDE DEF f, g
  <2> QED BY <2>1, <2>2, RelinkFacts, SMTT(30)
<1> HIDE DEF c
<1>6. /\ q \in Memory /\ DOMAIN q.hdr = D
      /\ \A x \in D :
              /\ q.hdr[x].next = c.hdr[x].next /\ q.hdr[x].last = c.hdr[x].last
              /\ q.hdr[x].magic = c.hdr[x].magic
              /\ q.hdr[x].len = IF x = p THEN c.hdr[p].len + grow ELSE c.hdr[x].len
              /\ x # p => q.hdr[x] = c.hdr[x]
      /\ q.FreeHead = c.FreeHead /\ q.FreeTail = c.FreeTail /\ SameTasks(c, q)
      /\ q.nz = c.nz
  <2>1. p \in DOMAIN c.hdr BY <1>1, <1>5
  <2> HIDE DEF grow
  <2> QED BY <1>4, <1>5, <2>1, GrowFacts
<1> HIDE DEF q
<1>7. /\ w \in Memory /\ DOMAIN w.hdr = D \ {b}
      /\ \A x \in D \ {b} : w.hdr[x] = q.hdr[x]
      /\ w.FreeHead = q.FreeHead /\ w.FreeTail = q.FreeTail /\ SameTasks(q, w)
      /\ w.nz = q.nz \ Cells(b, HDR)
  BY <1>6, EraseFacts
<1> HIDE DEF w
<1>8. /\ r \in Memory /\ DOMAIN r.hdr = (D \ {b}) \ {s}
      /\ \A x \in (D \ {b}) \ {s} : r.hdr[x] = q.hdr[x]
      /\ r.FreeHead = c.FreeHead /\ r.FreeTail = c.FreeTail /\ SameTasks(m, r)
      /\ r.nz = (m.nz \ Cells(b, HDR)) \ Cells(s, HDR)
  <2>1. /\ r \in Memory /\ DOMAIN r.hdr = DOMAIN w.hdr \ {s}
        /\ \A x \in DOMAIN w.hdr \ {s} : r.hdr[x] = w.hdr[x]
        /\ r.FreeHead = w.FreeHead /\ r.FreeTail = w.FreeTail /\ SameTasks(w, r)
        /\ r.nz = w.nz \ Cells(s, HDR)
    BY <1>7, EraseFacts
  <2>2. SameTasks(m, r) BY <1>5, <1>6, <1>7, <2>1 DEF SameTasks
  <2>3. r.nz = (m.nz \ Cells(b, HDR)) \ Cells(s, HDR) BY <1>5, <1>6, <1>7, <2>1
  <2> QED BY <1>6, <1>7, <2>1, <2>2, <2>3
<1> HIDE DEF r
<1>9. Spare(r, U \ {b}) = Spare(m, U) \ {s} BY <1>1, <1>8 DEF Spare, Heap
<1>10. HasList(r.hdr, Spare(m, U) \ {s}, r.FreeHead, r.FreeTail, n - 1)
  <2>1. \A x \in Spare(m, U) \ {s} :
           /\ r.hdr[x].next = IF x = m.hdr[s].last THEN m.hdr[s].next ELSE m.hdr[x].next
           /\ r.hdr[x].last = IF x = m.hdr[s].next THEN m.hdr[s].last ELSE m.hdr[x].last
    BY <1>1, <1>5, <1>6, <1>8 DEF Spare
  <2>2. Removes(m.hdr, r.hdr, Spare(m, U), s) BY <1>1, <2>1 DEF Removes
  <2>3. /\ r.FreeHead = IF m.FreeHead = s THEN m.hdr[s].next ELSE m.FreeHead
        /\ r.FreeTail = IF m.FreeTail = s THEN m.hdr[s].last ELSE m.FreeTail
    BY <1>5, <1>8
  <2>4. /\ Spare(m, U) \subseteq Nat
        /\ HasList(m.hdr, Spare(m, U), m.FreeHead, m.FreeTail, n)
    BY <1>1
  <2> HIDE DEF n
  <2> QED BY <2>2, <2>3, <2>4, ListRemove
<1>11. n - 1 = Cardinality(Spare(r, U \ {b})) BY <1>9, <1>10, ListCard
<1>12. \A a \in (D \ {b}) \ {s} :
         /\ EndsOf(r)[a] = IF a = p THEN EndsOf(m)[s] ELSE EndsOf(m)[a]
         /\ r.hdr[a].len = IF a = p THEN lp + grow ELSE m.hdr[a].len
  <2> TAKE a \in (D \ {b}) \ {s}
  <2>1. EndsOf(r)[a] = a + HDR + r.hdr[a].len BY <1>8 DEF EndsOf, Ends
  <2>2. EndsOf(m)[a] = a + HDR + m.hdr[a].len /\ a \in Nat BY BlockFacts, SMTT(30)
  <2>3. CASE a = p
    <3>1. r.hdr[a].len = lp + grow BY <1>1, <1>5, <1>6, <1>8, <2>3
    <3> QED BY <1>3, <1>4, <2>1, <2>3, <3>1
  <2>4. CASE a # p
    <3>1. r.hdr[a].len = m.hdr[a].len BY <1>5, <1>6, <1>8, <2>4
    <3> QED BY <2>1, <2>2, <2>4, <3>1
  <2> QED BY <2>3, <2>4
<1>16. Tiles(DOMAIN r.hdr, EndsOf(r), r.LastMEM)
  <2> DEFINE E == EndsOf(m)
             E1 == [a \in D \ {b} |-> IF a = p THEN E[b] ELSE E[a]]
             E2 == EndsOf(r)
  <2>1. E1[p] = s /\ E1[s] = E[s] BY <1>1, <1>3, <1>4
  <2>3. Tiles(D, E, m.LastMEM) BY DEF Heap
  <2>4. r.LastMEM = m.LastMEM BY <1>8 DEF SameTasks
  <2>5. \A a \in D \ {b} : E1[a] = IF a = p THEN E[b] ELSE E[a] OBVIOUS
  <2>2. \A a \in (D \ {b}) \ {s} : E2[a] = IF a = p THEN E[s] ELSE E[a] BY <1>12, SMTT(30)
  <2> HIDE DEF E, E1, E2
  <2>6. E[p] = b /\ E[b] = s BY <1>3 DEF E
  <2>7. Tiles(D \ {b}, E1, m.LastMEM) BY <1>1, <2>3, <2>5, <2>6, TilesMerge
  <2>8. \A a \in (D \ {b}) \ {s} : E2[a] = IF a = p THEN E1[s] ELSE E1[a]
    BY <2>1, <2>2, <2>5
  <2>9. p \in D \ {b} /\ s \in D \ {b} BY <1>1
  <2>10. Tiles((D \ {b}) \ {s}, E2, m.LastMEM) BY <2>1, <2>7, <2>8, <2>9, TilesMerge
  <2> QED BY <1>8, <2>4, <2>10, SMTT(30) DEF E2
<1>17. Alone(r, U \ {b})
  <2>1. \A a \in Spare(m, U) : EndsOf(m)[a] \notin Spare(m, U) BY DEF Heap, Alone
  <2>2. \A a \in Spare(m, U) \ {s} : a \in (D \ {b}) \ {s} BY DEF Spare
  <2> HIDE DEF lp, lb, ls, grow
  <2> QED BY <1>9, <1>12, <2>1, <2>2 DEF Alone
<1>18. Cleared(m, r, U \ {b})
  <2>1. HeaderCells({b, s}) = Cells(b, HDR) \cup Cells(s, HDR) BY DEF HeaderCells
  <2>2. {b, s} \in SUBSET (D \ (U \ {b})) BY <1>1 DEF Spare
  <2>3. DOMAIN r.hdr = D \ {b, s} /\ r.nz = m.nz \ HeaderCells({b, s}) BY <1>8, <2>1
  <2> QED BY <2>2, <2>3 DEF Cleared, Swallows
<1>19. Roomier(m, r, U, U \ {b})
  <2> SUFFICES ASSUME NEW x \in Spare(m, U)
               PROVE  \E y \in Spare(m, U) \ {s} : r.hdr[y].len >= m.hdr[x].len
    BY <1>9 DEF Roomier
  <2>1. x \in D /\ x # b BY <1>1 DEF Spare
  <2>2. m.hdr[x].len \in Nat BY <2>1, BlockFacts
  <2>3. r.hdr[p].len = lp + grow /\ lp + grow >= lp /\ lp + grow >= ls
    <3>1. r.hdr[p].len = lp + grow BY <1>1, <1>4, <1>12, SMTT(30)
    <3>2. lp \in Nat /\ lb \in Nat /\ ls \in Nat /\ HDR \in Nat BY <1>3, HdrPositive
    <3> HIDE DEF lp, lb, ls
    <3> QED BY <3>1, <3>2
  <2>4. p \in Spare(m, U) \ {s} BY <1>4
  <2>5. CASE x = s BY <2>3, <2>4, <2>5
  <2>6. CASE x = p BY <2>3, <2>4, <2>6
  <2>7. CASE x # s /\ x # p
    <3>1. r.hdr[x].len = m.hdr[x].len BY <1>12, <2>1, <2>7
    <3>2. r.hdr[x].len >= m.hdr[x].len BY <2>2, <3>1
    <3> QED BY <2>7, <3>2
  <2> QED BY <2>5, <2>6, <2>7
<1>13. \A a \in Spare(r, U \ {b}) : r.hdr[a].magic = "FREE"
  <2>1. \A a \in Spare(m, U) \ {s} : r.hdr[a].magic = m.hdr[a].magic
    BY <1>1, <1>5, <1>6, <1>8 DEF Spare
  <2> QED BY <1>9, <2>1 DEF Heap
<1>14. Kept(m, r, U \ {b})
  <2>2. U \subseteq D /\ s \notin U /\ p \notin U BY DEF Heap, Spare
  <2>3. m.hdr[s].last \notin U /\ m.hdr[s].next \notin U
    <3> HIDE DEF n
    <3>1. m.hdr[s].last \in Spare(m, U) \cup {NULL} /\ m.hdr[s].next \in Spare(m, U) \cup {NULL}
      BY <1>1, ListEnds
    <3> QED BY <1>1, <2>2, <3>1, AddrNat DEF Spare
  <2>4. \A a \in U \ {b} : r.hdr[a] = m.hdr[a] BY <1>5, <1>6, <1>8, <2>2, <2>3
  <2> QED BY <1>8, <2>2, <2>4 DEF Kept
<1>15. Heap(r, U \ {b})
  <2>1. U \ {b} \subseteq DOMAIN r.hdr BY <1>8 DEF Heap, Spare
  <2> QED BY <1>8, <1>9, <1>10, <1>11, <1>13, <1>16, <1>17, <2>1 DEF Heap
<1> QED BY <1>2, <1>14, <1>15, <1>18, <1>19 DEF Frees

\* SuperFree, when no listed block touches block b.
LEMMA AppendFreeHeap ==
  ASSUME NEW m, NEW U, Heap(m, U), NEW b \in U, m.hdr[b].magic = "FREE",
         \A x \in Spare(m, U) : Ends(m, x) # b /\ Ends(m, b) # x
  PROVE  Frees(m, AppendFree(m, b), U, U \ {b})
<1> DEFINE D == DOMAIN m.hdr
           n == Cardinality(Spare(m, U))
           h1 == SetNext(m.hdr, m.FreeTail, b)
           h2 == [h1 EXCEPT ![b].next = NULL, ![b].last = m.FreeTail]
           r == AppendFree(m, b)
<1>1. /\ m \in Memory /\ b \in D /\ m.hdr \in [D -> Header] /\ NULL \notin D
      /\ D \subseteq Nat /\ D \subseteq Addr /\ Spare(m, U) \subseteq Nat
      /\ HasList(m.hdr, Spare(m, U), m.FreeHead, m.FreeTail, n)
      /\ b \notin Spare(m, U) /\ b \in Link /\ U \subseteq D
      /\ m.FreeHead \in Link /\ m.FreeTail \in Link /\ NULL \in Link
  <2>1. m.FreeHead \in Link /\ m.FreeTail \in Link BY DEF Heap, Memory
  <2> QED BY <2>1, HeadersFacts, AddrNat DEF Heap, Spare, Tiles, Link
<1>2. /\ n \in Nat
      /\ n = 0 => m.FreeHead = NULL /\ m.FreeTail = NULL /\ Spare(m, U) = {}
      /\ n # 0 => m.FreeHead \in Spare(m, U) /\ m.FreeTail \in Spare(m, U)
  <2> HIDE DEF n
  <2> QED BY <1>1, ListEnds
<1>3. /\ h1 \in [D -> Header]
      /\ \A x \in D :
              /\ h1[x].next = IF x = m.FreeTail THEN b ELSE m.hdr[x].next
              /\ h1[x].last = m.hdr[x].last
              /\ h1[x].len = m.hdr[x].len
              /\ h1[x].magic = m.hdr[x].magic
              /\ x # m.FreeTail => h1[x] = m.hdr[x]
  <2>1. m.hdr \in [D -> Header] /\ NULL \notin D /\ b \in Link BY <1>1
  <2> HIDE DEF D
  <2> QED BY <2>1, SetNextFacts
<1> HIDE DEF h1
<1>4. /\ h2 \in [D -> Header]
      /\ h2[b].next = NULL /\ h2[b].last = m.FreeTail
      /\ h2[b].len = h1[b].len /\ h2[b].magic = h1[b].magic
      /\ \A x \in D : x # b => h2[x] = h1[x]
  <2>1. b \in D /\ m.FreeTail \in Link /\ NULL \in Link /\ h1 \in [D -> Header]
    BY <1>1, <1>3
  <2> DEFINE e == [h1[b] EXCEPT !.next = NULL, !.last = m.FreeTail]
  <2>2. h1[b] \in Header BY <2>1
  <2>3. /\ e \in Header /\ e.next = NULL /\ e.last = m.FreeTail
        /\ e.len = h1[b].len /\ e.magic = h1[b].magic
    BY <2>1, <2>2 DEF Header
  <2>4. h2 = [h1 EXCEPT ![b] = e] BY <2>1, <2>2 DEF Header
  <2> HIDE DEF D, e, h2
  <2> QED BY <2>1, <2>3, <2>4
<1>5. r = [m EXCEPT !.hdr = h2, !.FreeHead = IF @ = NULL THEN b ELSE @, !.FreeTail = b]
  BY DEF AppendFree, h1
<1> HIDE DEF h2, r
<1>6. /\ r.hdr = h2 /\ r.FreeTail = b /\ SameTasks(m, r) /\ r.nz = m.nz
      /\ r.FreeHead = IF m.FreeHead = NULL THEN b ELSE m.FreeHead
  BY <1>5, <1>1 DEF Memory, SameTasks
<1>7. r \in Memory
  <2>1. h2 \in UNION {[C -> Header] : C \in SUBSET Addr} BY <1>1, <1>4
  <2>2. (IF m.FreeHead = NULL THEN b ELSE m.FreeHead) \in Link BY <1>1
  <2> HIDE DEF D
  <2> QED BY <1>1, <1>5, <2>1, <2>2 DEF Memory
<1>8. DOMAIN r.hdr = D BY <1>4, <1>6
<1>9. Spare(r, U \ {b}) = Spare(m, U) \cup {b} BY <1>1, <1>8 DEF Spare
<1>10. \A x \in D : x # b /\ x # m.FreeTail => r.hdr[x] = m.hdr[x]
  BY <1>3, <1>4, <1>6
<1>11. HasList(r.hdr, Spare(r, U \ {b}), r.FreeHead, r.FreeTail, n + 1)
  <2>1. \A a \in Spare(m, U) :
          /\ r.hdr[a].next = IF a = m.FreeTail THEN b ELSE m.hdr[a].next
          /\ r.hdr[a].last = m.hdr[a].last
    BY <1>1, <1>3, <1>4, <1>6 DEF Spare
  <2>2. Appends(m.hdr, r.hdr, Spare(m, U), m.FreeTail, b)
    BY <1>1, <1>4, <1>6, <2>1 DEF Appends
  <2>3. r.FreeHead = IF n = 0 THEN b ELSE m.FreeHead
    BY <1>1, <1>2, <1>6, AddrNat DEF Spare
  <2>4. /\ Spare(m, U) \subseteq Nat
        /\ HasList(m.hdr, Spare(m, U), m.FreeHead, m.FreeTail, n)
        /\ r.FreeTail = b /\ b \in Nat /\ b \notin Spare(m, U)
    BY <1>1, <1>6
  <2> HIDE DEF n
  <2>5. HasList(r.hdr, Spare(m, U) \cup {b}, r.FreeHead, b, n + 1)
    BY <2>2, <2>3, <2>4, ListAppend
  <2> QED BY <1>9, <2>4, <2>5
<1>12. n + 1 = Cardinality(Spare(r, U \ {b})) BY <1>11, ListCard
<1>13. \A x \in D : r.hdr[x].len = m.hdr[x].len /\ r.hdr[x].magic = m.hdr[x].magic
  BY <1>3, <1>4, <1>6
<1>14. EndsOf(r) = EndsOf(m) BY <1>8, <1>13 DEF EndsOf, Ends
<1>18. Tiles(DOMAIN r.hdr, EndsOf(r), r.LastMEM)
  BY <1>6, <1>8, <1>14 DEF Heap, SameTasks
<1>19. Alone(r, U \ {b})
  <2>1. EndsOf(m)[b] # b
    <3> DEFINE E == EndsOf(m)
    <3>1. b < E[b] /\ E[b] \in Nat /\ b \in Nat BY <1>1 DEF Heap, Tiles
    <3> HIDE DEF E
    <3> QED BY <3>1 DEF E
  <2>2. EndsOf(m)[b] = Ends(m, b) BY <1>1, BlockFacts
  <2>3. \A a \in Spare(m, U) : EndsOf(m)[a] = Ends(m, a)
    <3> TAKE a \in Spare(m, U)
    <3>1. a \in D BY DEF Spare
    <3> QED BY <3>1, BlockFacts
  <2>4. \A a \in Spare(m, U) : EndsOf(m)[a] \notin Spare(m, U) BY DEF Heap, Alone
  <2> QED BY <1>9, <1>14, <2>1, <2>2, <2>3, <2>4 DEF Alone
<1>20. Cleared(m, r, U \ {b})
  <2>1. HeaderCells({}) = {} BY DEF HeaderCells
  <2>2. Swallows(m, r, {}) BY <1>6, <1>8, <2>1 DEF Swallows
  <2> QED BY <2>2 DEF Cleared
<1>21. Roomier(m, r, U, U \ {b})
  <2>1. \A x \in Spare(m, U) : m.hdr[x].len \in Nat /\ r.hdr[x].len = m.hdr[x].len
    <3> TAKE x \in Spare(m, U)
    <3>1. x \in D BY DEF Spare
    <3> QED BY <1>13, <3>1, BlockFacts
  <2>2. \A x \in Spare(m, U) : r.hdr[x].len >= m.hdr[x].len BY <2>1
  <2> QED BY <1>9, <2>2 DEF Roomier
<1>15. \A a \in Spare(r, U \ {b}) : r.hdr[a].magic = "FREE"
  BY <1>1, <1>9, <1>13 DEF Heap, Spare
<1>16. Kept(m, r, U \ {b})
  <2>1. m.FreeTail \notin U BY <1>1, <1>2 DEF Spare
  <2> QED BY <1>1, <1>6, <1>8, <1>10, <2>1 DEF Kept
<1>17. Heap(r, U \ {b})
  BY <1>1, <1>7, <1>8, <1>11, <1>12, <1>15, <1>18, <1>19 DEF Heap
<1> QED BY <1>16, <1>17, <1>20, <1>21 DEF Frees, r

\* A block in use that is marked FREE is given back by SuperFree.
LEMMA SuperFreeHeap ==
  ASSUME NEW m, NEW U, Heap(m, U), NEW b \in U, m.hdr[b].magic = "FREE"
  PROVE  Frees(m, SuperFree(m, b), U, U \ {b})
<1> DEFINE prev == {p \in Listed(m) : Ends(m, p) = b}
           next == {s \in Listed(m) : Ends(m, b) = s}
<1>1. Listed(m) = Spare(m, U)
  <2>1. /\ IsFiniteSet(DOMAIN m.hdr) /\ DOMAIN m.hdr \subseteq Nat
        /\ Spare(m, U) \subseteq DOMAIN m.hdr /\ Spare(m, U) \subseteq Nat
    BY HeadersFacts, AddrNat DEF Heap, Spare
  <2> QED BY <2>1, ListReached DEF Heap, Listed
<1> DEFINE p == CHOOSE x \in prev : TRUE
           s == CHOOSE x \in next : TRUE
<1>2. prev # {} => p \in Spare(m, U) /\ Ends(m, p) = b BY <1>1
<1>3. next # {} => s \in Spare(m, U) /\ Ends(m, b) = s BY <1>1
<1>4. SuperFree(m, b) = CASE prev # {} /\ next # {} -> MergeBoth(m, p, b, s)
                          [] prev # {} /\ next = {} -> MergePrev(m, p, b)
                          [] prev = {} /\ next # {} -> MergeNext(m, b, s)
                          [] OTHER -> AppendFree(m, b)
  BY DEF SuperFree
<1>5. /\ prev = {} => \A x \in Spare(m, U) : Ends(m, x) # b
      /\ next = {} => \A x \in Spare(m, U) : Ends(m, b) # x
  BY <1>1
<1> HIDE DEF p, s, prev, next
<1>6. CASE prev # {} /\ next # {} BY <1>2, <1>3, <1>4, <1>6, MergeBothHeap
<1>7. CASE prev # {} /\ next = {} BY <1>2, <1>4, <1>5, <1>7, MergePrevHeap
<1>8. CASE prev = {} /\ next # {} BY <1>3, <1>4, <1>5, <1>8, MergeNextHeap
<1>9. CASE prev = {} /\ next = {} BY <1>4, <1>5, <1>9, AppendFreeHeap
<1> QED BY <1>6, <1>7, <1>8, <1>9

(***************************************************************************)
(* The bytes below LastMEM that may be non-zero: the headers and the       *)
(* payloads of U.                                                          *)
(***************************************************************************)
PayloadCells(m, U) == UNION {Payload(m, a) : a \in U}
Clean(m, U) == m.nz \cap Below(m) = HeaderCells(DOMAIN m.hdr) \cup PayloadCells(m, U)

\* Headers and payloads of the blocks of a heap in order do not overlap.
LEMMA CellsApart ==
  ASSUME NEW m, NEW U, Heap(m, U), NEW a \in DOMAIN m.hdr, NEW c \in DOMAIN m.hdr
  PROVE  /\ Cells(a, HDR) \cap Payload(m, c) = {}
         /\ a # c => /\ Cells(a, HDR) \cap Cells(c, HDR) = {}
                     /\ Payload(m, a) \cap Payload(m, c) = {}
<1> DEFINE la == m.hdr[a].len
           lc == m.hdr[c].len
<1>1. a \in Nat /\ c \in Nat /\ la \in Nat /\ lc \in Nat /\ HDR \in Nat
  BY BlockFacts, HdrPositive
<1>2. EndsOf(m)[a] = a + HDR + la /\ EndsOf(m)[c] = c + HDR + lc BY BlockFacts
<1>3. /\ a < c => EndsOf(m)[a] <= c
      /\ c < a => EndsOf(m)[c] <= a
  BY DEF Heap, Tiles
<1>4. /\ a < c => a + HDR + la <= c
      /\ c < a => c + HDR + lc <= a
  BY <1>2, <1>3
<1> HIDE DEF la, lc
<1>5. (a .. a + HDR - 1) \cap (c + HDR .. c + HDR + lc - 1) = {} BY <1>1, <1>4
<1>6. a # c => /\ (a .. a + HDR - 1) \cap (c .. c + HDR - 1) = {}
               /\ (a + HDR .. a + HDR + la - 1) \cap (c + HDR .. c + HDR + lc - 1) = {}
  BY <1>1, <1>4
<1> QED BY <1>5, <1>6 DEF Cells, Payload, la, lc

\* Headers and payloads lie below LastMEM.
LEMMA HeapCells ==
  ASSUME NEW m, NEW U, Heap(m, U)
  PROVE  HeaderCells(DOMAIN m.hdr) \cup PayloadCells(m, U) \subseteq Below(m)
<1>1. m.LastMEM \in Nat /\ HDR \in Nat /\ U \subseteq DOMAIN m.hdr
  BY HdrPositive, AddrNat DEF Heap, Memory
<1>2. ASSUME NEW a \in DOMAIN m.hdr
      PROVE  Cells(a, HDR) \subseteq Below(m) /\ Payload(m, a) \subseteq Below(m)
  <2>1. a \in Nat /\ m.hdr[a].len \in Nat /\ EndsOf(m)[a] = a + HDR + m.hdr[a].len
    BY BlockFacts
  <2>2. EndsOf(m)[a] <= m.LastMEM BY DEF Heap, Tiles
  <2> DEFINE len == m.hdr[a].len
  <2>3. a + HDR + len <= m.LastMEM /\ len \in Nat BY <2>1, <2>2
  <2> HIDE DEF len
  <2>4. /\ a .. a + HDR - 1 \subseteq 0 .. 0 + m.LastMEM - 1
        /\ a + HDR .. a + HDR + len - 1 \subseteq 0 .. 0 + m.LastMEM - 1
    BY <1>1, <2>1, <2>3
  <2> QED BY <2>4 DEF Cells, Payload, Below, len
<1> QED BY <1>1, <1>2 DEF HeaderCells, PayloadCells

\* Clearing the headers of swallowed blocks leaves the heap clean.
LEMMA SwallowClean ==
  ASSUME NEW m, NEW r, NEW U, NEW V, Heap(m, U), V \subseteq U, Clean(m, V),
         Kept(m, r, V), Cleared(m, r, V)
  PROVE  Clean(r, V)
<1> DEFINE D == DOMAIN m.hdr
<1>1. PICK G \in SUBSET (D \ V) : Swallows(m, r, G) BY DEF Cleared
<1>2. DOMAIN r.hdr = D \ G /\ r.nz = m.nz \ HeaderCells(G) BY <1>1 DEF Swallows
<1>3. V \subseteq D BY DEF Heap
<1>4. PayloadCells(r, V) = PayloadCells(m, V)
  <2>1. \A a \in V : Payload(r, a) = Payload(m, a) BY DEF Kept, Payload
  <2> QED BY <2>1 DEF PayloadCells
<1>5. HeaderCells(G) \cap PayloadCells(m, V) = {}
  <2>1. \A a \in G, c \in V : Cells(a, HDR) \cap Payload(m, c) = {}
    BY <1>1, <1>3, CellsApart
  <2> QED BY <2>1 DEF HeaderCells, PayloadCells
<1>6. HeaderCells(G) \cap HeaderCells(D \ G) = {}
  <2>1. \A a \in G, c \in D \ G : Cells(a, HDR) \cap Cells(c, HDR) = {}
    BY <1>1, CellsApart
  <2> QED BY <2>1 DEF HeaderCells
<1>7. HeaderCells(D) = HeaderCells(G) \cup HeaderCells(D \ G) BY <1>1 DEF HeaderCells
<1>8. m.nz \cap Below(m) = HeaderCells(D) \cup PayloadCells(m, V) BY DEF Clean
<1>9. Below(r) = Below(m) BY DEF Below, Kept, SameTasks
<1>10. r.nz \cap Below(r) = HeaderCells(D \ G) \cup PayloadCells(m, V)
  BY <1>2, <1>5, <1>6, <1>7, <1>8, <1>9
<1> QED BY <1>2, <1>4, <1>10 DEF Clean

\* A heap is as roomy as itself.
LEMMA RoomierSelf ==
  ASSUME NEW m, NEW U, Heap(m, U)
  PROVE  Roomier(m, m, U, U)
<1>1. \A x \in Spare(m, U) : x \in DOMAIN m.hdr BY DEF Spare
<1>2. \A x \in Spare(m, U) : m.hdr[x].len >= m.hdr[x].len BY <1>1, BlockFacts
<1> QED BY <1>2 DEF Roomier

(***************************************************************************)
(* m, with the blocks V in use, becomes r, with the blocks W in use, and   *)
(* the bytes that were given back are zero.                                *)
(***************************************************************************)
Gives(m, r, V, W) ==
  Heap(r, W) /\ Kept(m, r, W) /\ Roomier(m, r, V, W) /\ (Clean(m, V) => Clean(r, W))

\* Giving back is transitive.
LEMMA GivesGives ==
  ASSUME NEW m, NEW q, NEW r, NEW U, NEW V, NEW W, Heap(m, U), W \subseteq V,
         Gives(m, q, U, V), Gives(q, r, V, W)
  PROVE  Gives(m, r, U, W)
<1>1. Kept(m, r, W) BY DEF Gives, Kept, SameTasks
<1>2. Roomier(m, r, U, W)
  <2> SUFFICES ASSUME NEW x \in Spare(m, U)
               PROVE  \E z \in Spare(r, W) : r.hdr[z].len >= m.hdr[x].len
    BY DEF Roomier
  <2>1. PICK y \in Spare(q, V) : q.hdr[y].len >= m.hdr[x].len BY DEF Gives, Roomier
  <2>2. PICK z \in Spare(r, W) : r.hdr[z].len >= q.hdr[y].len BY DEF Gives, Roomier
  <2>3. m.hdr[x].len \in Nat /\ q.hdr[y].len \in Nat /\ r.hdr[z].len \in Nat
    <3>1. x \in DOMAIN m.hdr /\ y \in DOMAIN q.hdr /\ z \in DOMAIN r.hdr BY DEF Spare
    <3>2. Heap(q, V) /\ Heap(r, W) BY DEF Gives
    <3> QED BY <3>1, <3>2, BlockFacts
  <2>4. r.hdr[z].len >= m.hdr[x].len BY <2>1, <2>2, <2>3
  <2> QED BY <2>4
<1> QED BY <1>1, <1>2 DEF Gives

\* A block in use is given back: its payload is zeroed before its header.
LEMMA ReleaseHeap ==
  ASSUME NEW m, NEW U, Heap(m, U), NEW b \in U
  PROVE  Gives(m, Release(m, b), U, U \ {b})
<1> DEFINE D == DOMAIN m.hdr
           h == [m.hdr EXCEPT ![b].magic = "FREE"]
           z == m.nz \ Cells(b + HDR, m.hdr[b].len)
           q == [m EXCEPT !.hdr = h, !.nz = z]
<1>1. /\ m \in Memory /\ m.hdr \in [D -> Header] /\ D \subseteq Addr /\ U \subseteq D /\ b \in D
  BY HeadersFacts DEF Heap
<1>2. Release(m, b) = SuperFree(q, b) BY <1>1 DEF Release, Memory
<1>3. /\ h \in [D -> Header]
      /\ h[b].magic = "FREE"
      /\ \A x \in D :
           /\ h[x].len = m.hdr[x].len
           /\ h[x].next = m.hdr[x].next /\ h[x].last = m.hdr[x].last
           /\ x # b => h[x] = m.hdr[x]
  <2> HIDE DEF D
  <2> QED BY <1>1 DEF Header
<1>4. z \in SUBSET Addr BY <1>1 DEF Memory
<1> HIDE DEF h, z
<1>5. /\ q.hdr = h /\ q.FreeHead = m.FreeHead /\ q.FreeTail = m.FreeTail /\ SameTasks(m, q)
      /\ q.nz = z
  BY <1>1 DEF Memory, SameTasks
<1>6. q \in Memory
  <2>1. h \in UNION {[C -> Header] : C \in SUBSET Addr} BY <1>1, <1>3
  <2> HIDE DEF D
  <2> QED BY <1>1, <1>4, <2>1 DEF Memory
<1> HIDE DEF q
<1>7. DOMAIN q.hdr = D BY <1>3, <1>5
<1>12. \A x \in D : q.hdr[x].len = m.hdr[x].len /\ (x # b => q.hdr[x] = m.hdr[x])
  <2>1. q.hdr = h BY <1>5
  <2> HIDE DEF D
  <2> QED BY <1>3, <2>1
<1>8. Heap(q, U)
  <2>1. Spare(q, U) = Spare(m, U) BY <1>7 DEF Spare
  <2>2. EndsOf(q) = EndsOf(m) BY <1>7, <1>12 DEF EndsOf, Ends
  <2>3. q.LastMEM = m.LastMEM BY <1>5 DEF SameTasks
  <2>4. \A a \in Spare(m, U) : q.hdr[a] = m.hdr[a] BY <1>12 DEF Spare
  <2>5. HasList(q.hdr, Spare(m, U), m.FreeHead, m.FreeTail, Cardinality(Spare(m, U)))
    BY <2>4, ListSame DEF Heap
  <2>6. Alone(q, U) BY <2>1, <2>2 DEF Heap, Alone
  <2> QED BY <1>1, <1>5, <1>6, <1>7, <2>1, <2>2, <2>3, <2>4, <2>5, <2>6 DEF Heap
<1>9. q.hdr[b].magic = "FREE" BY <1>3, <1>5
<1>10. Frees(q, SuperFree(q, b), U, U \ {b}) BY <1>8, <1>9, SuperFreeHeap
<1> DEFINE r == SuperFree(q, b)
<1> HIDE DEF r
<1>11. Heap(r, U \ {b}) /\ Kept(m, r, U \ {b})
  <2>1. \A a \in U \ {b} : q.hdr[a] = m.hdr[a] BY <1>1, <1>12
  <2> QED BY <1>5, <1>10, <2>1 DEF Frees, Kept, SameTasks, r
<1>13. Roomier(m, r, U, U \ {b})
  <2>1. Spare(q, U) = Spare(m, U) BY <1>7 DEF Spare
  <2>2. \A x \in Spare(m, U) : q.hdr[x].len = m.hdr[x].len BY <1>12 DEF Spare
  <2>3. Roomier(q, r, U, U \ {b}) BY <1>10 DEF Frees, r
  <2> QED BY <2>1, <2>2, <2>3 DEF Roomier
<1>14. Clean(m, U) => Clean(r, U \ {b})
  <2> SUFFICES ASSUME Clean(m, U) PROVE Clean(r, U \ {b}) OBVIOUS
  <2>1. Clean(q, U \ {b})
    <3>1. Payload(m, b) = Cells(b + HDR, m.hdr[b].len) BY DEF Payload
    <3>2. q.nz = m.nz \ Payload(m, b) BY <1>5, <3>1 DEF z
    <3>3. Payload(m, b) \cap HeaderCells(D) = {}
      <4>1. \A a \in D : Cells(a, HDR) \cap Payload(m, b) = {} BY <1>1, CellsApart
      <4> QED BY <4>1 DEF HeaderCells
    <3>4. Payload(m, b) \cap PayloadCells(m, U \ {b}) = {}
      <4>1. \A a \in U \ {b} : Payload(m, a) \cap Payload(m, b) = {} BY <1>1, CellsApart
      <4> QED BY <4>1 DEF PayloadCells
    <3>5. PayloadCells(m, U) = Payload(m, b) \cup PayloadCells(m, U \ {b}) BY DEF PayloadCells
    <3>6. PayloadCells(q, U \ {b}) = PayloadCells(m, U \ {b})
      <4>1. \A a \in U \ {b} : Payload(q, a) = Payload(m, a) BY <1>1, <1>12 DEF Payload
      <4> QED BY <4>1 DEF PayloadCells
    <3>7. m.nz \cap Below(m) = HeaderCells(D) \cup PayloadCells(m, U) BY DEF Clean
    <3>9. Below(q) = Below(m) BY <1>5 DEF Below, SameTasks
    <3>8. q.nz \cap Below(q) = HeaderCells(D) \cup PayloadCells(m, U \ {b})
      BY <3>2, <3>3, <3>4, <3>5, <3>7, <3>9
    <3> QED BY <1>7, <3>6, <3>8 DEF Clean
  <2>2. Kept(q, r, U \ {b}) /\ Cleared(q, r, U \ {b}) BY <1>10 DEF Frees, r
  <2>3. U \ {b} \subseteq U OBVIOUS
  <2> QED BY <1>8, <2>1, <2>2, <2>3, SwallowClean
<1> QED BY <1>2, <1>11, <1>13, <1>14 DEF Gives, r

-----------------------------------------------------------------------------
\* Task t's list: F are its frames, in use.
TaskList(m, t, F) == HasList(m.hdr, F, m.MemHead[t], m.MemTail[t], Cardinality(F))

\* ReArrangeMemAndTask's loop gives back every frame on the list of a task.
LEMMA ReleaseAllHeap ==
  ASSUME NEW m, NEW U, Heap(m, U), NEW t \in Task, NEW F, F \subseteq U, TaskList(m, t, F)
  PROVE  Gives(m, ReleaseAll(m, t), U, U \ F)
<1> DEFINE D == DOMAIN m.hdr
           frame == Walk(m, m.MemHead[t], {})
           count == Cardinality(Frames(m, t))
           P(f) == f = [k \in 0 .. count |->
                          IF k = 0 THEN m ELSE Release(f[k - 1], frame[k - 1])]
           freed == CHOOSE f : P(f)
           n == Cardinality(F)
<1>1. ReleaseAll(m, t) = freed[count] BY DEF ReleaseAll
<1>2. PICK s : IsList(m.hdr, F, m.MemHead[t], m.MemTail[t], n, s)
  BY DEF TaskList, HasList
<1>3. /\ F \subseteq D /\ F \subseteq Nat /\ IsFiniteSet(D) /\ m \in Memory
  BY HeadersFacts, AddrNat DEF Heap
<1>4. count = n
  <2>1. Frames(m, t) = F BY <1>3, ListReached DEF Frames, TaskList
  <2> QED BY <2>1
<1>5. n \in Nat /\ \A i \in 1 .. n : s[i] \in F BY <1>2 DEF IsList
<1>6. \A k \in Nat : k < n => frame[k] = s[k + 1]
  <2>1. WalkIs(m, m.MemHead[t], n, s) BY <1>2, <1>3, ListWalk
  <2> QED BY <2>1 DEF WalkIs
<1> HIDE DEF frame, count, freed
<1> DEFINE Left(k) == U \ {s[i] : i \in 1 .. k}
           Done(r, k) == Gives(m, r, U, Left(k))
<1>7. Done(m, 0)
  <2>1. Left(0) = U OBVIOUS
  <2>2. Kept(m, m, U) BY DEF Kept, SameTasks, Heap
  <2> QED BY <2>1, <2>2, RoomierSelf DEF Gives
<1>8. ASSUME NEW k \in Nat, k < n, NEW r, Done(r, k)
      PROVE  Done(Release(r, frame[k]), k + 1)
  <2>1. k + 1 \in 1 .. n /\ frame[k] = s[k + 1] BY <1>5, <1>6, <1>8
  <2>2. \A i \in 1 .. k : i \in 1 .. n /\ i # k + 1 BY <1>5, <1>8
  <2>3. \A i \in 1 .. k : s[i] # s[k + 1] BY <1>2, <2>1, <2>2 DEF IsList
  <2>4. frame[k] \in Left(k) BY <1>5, <2>1, <2>3
  <2>5. Left(k + 1) = Left(k) \ {frame[k]}
    <3>1. \A i \in 1 .. k + 1 : i \in 1 .. k \/ i = k + 1 OBVIOUS
    <3>2. \A i \in 1 .. k : i \in 1 .. k + 1 OBVIOUS
    <3>3. k + 1 \in 1 .. k + 1 OBVIOUS
    <3> QED BY <2>1, <3>1, <3>2, <3>3
  <2> HIDE DEF Left
  <2>6. Gives(r, Release(r, frame[k]), Left(k), Left(k + 1))
    <3>1. Heap(r, Left(k)) BY <1>8 DEF Gives
    <3> QED BY <2>4, <2>5, <3>1, ReleaseHeap
  <2>7. Left(k + 1) \subseteq Left(k) BY <2>5
  <2> QED BY <1>8, <2>6, <2>7, GivesGives
<1>9. P(freed)
  <2> DEFINE R == [p \in Nat \X Memory |->
                     IF Release(p[2], frame[p[1]]) \in Memory
                     THEN Release(p[2], frame[p[1]]) ELSE m]
  <2>1. \A k \in Nat, h \in Memory :
          R[<<k, h>>] = IF Release(h, frame[k]) \in Memory THEN Release(h, frame[k]) ELSE m
    OBVIOUS
  <2>2. \A k \in Nat, h \in Memory : R[<<k, h>>] \in Memory BY <1>3, <2>1
  <2> HIDE DEF R
  <2>3. PICK g \in [Nat -> Memory] : g[0] = m /\ \A k \in Nat : g[k + 1] = R[<<k, g[k]>>]
    <3>1. Sequel(Memory, R, m) BY <1>3, <2>2, Sequels
    <3> QED BY <3>1 DEF Sequel
  <2> DEFINE T == {k \in Nat : k <= n => Done(g[k], k)}
  <2>4. Nat \subseteq T
    <3> HIDE DEF Done
    <3>1. 0 \in T BY <1>7, <2>3
    <3>2. ASSUME NEW k \in Nat, k \in T PROVE k + 1 \in T
      <4> SUFFICES ASSUME k + 1 <= n PROVE Done(g[k + 1], k + 1) OBVIOUS
      <4>1. k < n /\ Done(g[k], k) BY <1>5, <3>2
      <4>2. Done(Release(g[k], frame[k]), k + 1) BY <1>8, <4>1
      <4>3. Release(g[k], frame[k]) \in Memory BY <4>2 DEF Done, Gives, Heap
      <4>4. g[k + 1] = Release(g[k], frame[k]) BY <2>1, <2>3, <4>3
      <4> QED BY <4>2, <4>4
    <3> HIDE DEF T
    <3> QED BY <3>1, <3>2, SetInduction
  <2>5. ASSUME NEW k \in Nat, k < n PROVE g[k + 1] = Release(g[k], frame[k])
    <3>1. Done(g[k], k) BY <1>5, <2>4, <2>5
    <3>2. Release(g[k], frame[k]) \in Memory
      <4> HIDE DEF Done
      <4>1. Done(Release(g[k], frame[k]), k + 1) BY <1>8, <2>5, <3>1
      <4> QED BY <4>1 DEF Done, Gives, Heap
    <3> QED BY <2>1, <2>3, <3>2
  <2> DEFINE f == [k \in 0 .. count |-> g[k]]
  <2>6. ASSUME NEW k \in 0 .. count
        PROVE  f[k] = IF k = 0 THEN m ELSE Release(f[k - 1], frame[k - 1])
    <3>1. CASE k = 0 BY <2>3, <3>1
    <3>2. CASE k # 0
      <4>1. k - 1 \in Nat /\ k - 1 < n /\ (k - 1) + 1 = k /\ k - 1 \in 0 .. count
        BY <1>4, <1>5, <3>2
      <4> QED BY <2>5, <3>2, <4>1
    <3> QED BY <3>1, <3>2
  <2>7. P(f) BY <2>6
  <2> HIDE DEF f, P
  <2> QED BY <2>7 DEF freed
<1>10. Done(freed[n], n)
  <2> DEFINE T == {k \in Nat : k <= n => Done(freed[k], k)}
  <2> HIDE DEF Done
  <2>1. freed[0] = m /\ \A k \in Nat : k < n => freed[k + 1] = Release(freed[k], frame[k])
    <3>1. \A k \in 0 .. count : freed[k] = IF k = 0 THEN m ELSE Release(freed[k - 1], frame[k - 1])
      BY <1>9
    <3>2. 0 \in 0 .. count BY <1>4, <1>5
    <3>3. \A k \in Nat : k < n => k + 1 \in 0 .. count /\ k + 1 # 0 /\ (k + 1) - 1 = k
      BY <1>4, <1>5
    <3> HIDE DEF P
    <3> QED BY <3>1, <3>2, <3>3
  <2>2. 0 \in T BY <1>7, <2>1
  <2>3. ASSUME NEW k \in Nat, k \in T PROVE k + 1 \in T
    <3> SUFFICES ASSUME k + 1 <= n PROVE Done(freed[k + 1], k + 1) OBVIOUS
    <3>1. k < n /\ Done(freed[k], k) BY <1>5, <2>3
    <3>2. Done(Release(freed[k], frame[k]), k + 1) BY <1>8, <3>1
    <3> QED BY <2>1, <3>1, <3>2
  <2> HIDE DEF T
  <2>4. Nat \subseteq T BY <2>2, <2>3, SetInduction
  <2> QED BY <1>5, <2>4 DEF T
<1>11. Left(n) = U \ F BY <1>2, <1>5 DEF IsList
<1> QED BY <1>1, <1>4, <1>10, <1>11

-----------------------------------------------------------------------------
(***************************************************************************)
(* The heap with its tasks: the operations call, ret and hlt are built     *)
(* from keep the memory tiled, the free list exact, and one list per task  *)
(* of exactly the frames the task owns.                                    *)
(***************************************************************************)
Used(m) == {a \in DOMAIN m.hdr : ~IsFree(m, a)}

InOrder(m) ==
  /\ Heap(m, Used(m))
  /\ \A t \in Task : TaskList(m, t, OwnedBy(m, t))
  /\ \A t \in Task : m.MemHead[t] # NULL => m.alive[t]

\* What is in use after blocks were given back, and whose it is.
LEMMA KeptOwned ==
  ASSUME NEW m, NEW r, NEW V, Heap(r, V), Kept(m, r, V), V \subseteq Used(m)
  PROVE  Used(r) = V /\ \A t \in Task : OwnedBy(r, t) = OwnedBy(m, t) \cap V
<1>1. V \subseteq DOMAIN r.hdr /\ \A a \in V : r.hdr[a] = m.hdr[a] BY DEF Kept
<1>2. \A a \in DOMAIN r.hdr : a \notin V => r.hdr[a].magic = "FREE" BY DEF Heap, Spare
<1>3. \A a \in V : a \in DOMAIN m.hdr /\ m.hdr[a].magic # "FREE" BY DEF Used, IsFree
<1> QED BY <1>1, <1>2, <1>3 DEF Used, OwnedBy, IsFree

\* A task none of whose frames were given back keeps its list.
LEMMA KeptList ==
  ASSUME NEW m, NEW r, NEW V, Kept(m, r, V), NEW t \in Task, NEW F, F \subseteq V,
         TaskList(m, t, F)
  PROVE  TaskList(r, t, F)
<1>1. \A a \in F : r.hdr[a].next = m.hdr[a].next /\ r.hdr[a].last = m.hdr[a].last
  BY DEF Kept
<1>2. r.MemHead = m.MemHead /\ r.MemTail = m.MemTail BY DEF Kept, SameTasks
<1> QED BY <1>1, <1>2, ListSame DEF TaskList

\* Only frames change, and only their links, owners or marks.
LEMMA HeapFrames ==
  ASSUME NEW m, NEW U, Heap(m, U), NEW r \in Memory, DOMAIN r.hdr = DOMAIN m.hdr,
         \A a \in DOMAIN m.hdr : r.hdr[a].len = m.hdr[a].len,
         \A a \in Spare(m, U) : r.hdr[a] = m.hdr[a],
         r.FreeHead = m.FreeHead, r.FreeTail = m.FreeTail, r.LastMEM = m.LastMEM
  PROVE  Heap(r, U)
<1>1. Spare(r, U) = Spare(m, U) BY DEF Spare
<1>2. EndsOf(r) = EndsOf(m) BY DEF EndsOf, Ends
<1>3. HasList(r.hdr, Spare(m, U), m.FreeHead, m.FreeTail, Cardinality(Spare(m, U)))
  BY ListSame DEF Heap
<1>4. Alone(r, U) BY <1>1, <1>2 DEF Heap, Alone
<1> QED BY <1>1, <1>2, <1>3, <1>4 DEF Heap

\* A task without frames has the empty list.
LEMMA EmptyList ==
  ASSUME NEW m, NEW t \in Task, m.MemHead[t] = NULL, m.MemTail[t] = NULL
  PROVE  TaskList(m, t, {})
  BY ListEmpty, FS_EmptySet DEF TaskList

\* MemHead and MemTail tell whether a task owns frames.
LEMMA OwnedFacts ==
  ASSUME NEW m, InOrder(m), NEW t \in Task
  PROVE  /\ OwnedBy(m, t) \subseteq Used(m) /\ OwnedBy(m, t) \subseteq DOMAIN m.hdr
         /\ OwnedBy(m, t) \subseteq Nat
         /\ IsFiniteSet(OwnedBy(m, t)) /\ Cardinality(OwnedBy(m, t)) \in Nat
         /\ m.MemHead[t] = NULL <=> OwnedBy(m, t) = {}
         /\ m.MemTail[t] = NULL <=> OwnedBy(m, t) = {}
         /\ OwnedBy(m, t) # {} => m.alive[t] /\ m.MemTail[t] \in OwnedBy(m, t)
<1> DEFINE F == OwnedBy(m, t)
           n == Cardinality(F)
<1>1. F \subseteq Used(m) /\ F \subseteq DOMAIN m.hdr /\ F \subseteq Nat
  BY HeadersFacts, AddrNat DEF OwnedBy, Used, InOrder, Heap
<1>2. HasList(m.hdr, F, m.MemHead[t], m.MemTail[t], n) BY DEF InOrder, TaskList
<1> HIDE DEF F, n
<1>3. n \in Nat /\ IsFiniteSet(F) /\ Cardinality(F) = n BY <1>2, ListCard
<1>4. /\ n = 0 => F = {} /\ m.MemHead[t] = NULL /\ m.MemTail[t] = NULL
      /\ n # 0 => m.MemHead[t] \in F /\ m.MemTail[t] \in F
  BY <1>1, <1>2, ListEnds
<1>5. NULL \notin F BY <1>1 DEF NULL
<1>6. m.MemHead[t] # NULL => m.alive[t] BY DEF InOrder
<1> QED BY <1>1, <1>3, <1>4, <1>5, <1>6 DEF F

-----------------------------------------------------------------------------
(***************************************************************************)
(* What an operation for task t leaves alone: the other tasks, and, if it  *)
(* only gives memory back, LastMEM and the room there is on the free list. *)
(***************************************************************************)
Untouched(m, r, u) ==
  /\ OwnedBy(r, u) = OwnedBy(m, u)
  /\ \A a \in OwnedBy(m, u) : r.hdr[a] = m.hdr[a]
  /\ r.MemHead[u] = m.MemHead[u] /\ r.MemTail[u] = m.MemTail[u]
  /\ r.MemLevel[u] = m.MemLevel[u] /\ r.alive[u] = m.alive[u]
OthersKept(m, r, t) == \A u \in Task \ {t} : Untouched(m, r, u)
StaysClean(m, r) == Clean(m, Used(m)) => Clean(r, Used(r))

Shrinks(m, r, t) ==
  /\ r.LastMEM = m.LastMEM /\ OthersKept(m, r, t)
  /\ Roomier(m, r, Used(m), Used(r)) /\ StaysClean(m, r)

\* Headers, bytes and free list stay.
SameStore(m, r) == r.hdr = m.hdr /\ r.nz = m.nz /\ r.LastMEM = m.LastMEM

\* The same headers: the same blocks in use, with the same owners.
LEMMA SameStoreFacts ==
  ASSUME NEW m, NEW r, SameStore(m, r)
  PROVE  /\ Used(r) = Used(m) /\ \A u \in Task : OwnedBy(r, u) = OwnedBy(m, u)
         /\ \A V : Spare(r, V) = Spare(m, V)
         /\ StaysClean(m, r) /\ StaysClean(r, m)
<1>1. /\ Used(r) = Used(m) /\ \A u \in Task : OwnedBy(r, u) = OwnedBy(m, u)
      /\ \A V : Spare(r, V) = Spare(m, V)
  BY DEF SameStore, Used, OwnedBy, IsFree, Spare
<1>2. \A a : Payload(r, a) = Payload(m, a) BY DEF SameStore, Payload
<1>3. PayloadCells(r, Used(r)) = PayloadCells(m, Used(m)) BY <1>1, <1>2 DEF PayloadCells
<1>4. Clean(m, Used(m)) <=> Clean(r, Used(r)) BY <1>3 DEF Clean, SameStore, Below
<1> QED BY <1>1, <1>4 DEF StaysClean

\* The end of a task: all its frames, and nobody else's, are given back.
LEMMA ReArrangeInOrder ==
  ASSUME NEW m, InOrder(m), NEW t \in Task
  PROVE  LET r == ReArrangeMemAndTask(m, t) IN
         /\ InOrder(r) /\ r.MemHead[t] = NULL /\ (Levels(m) => Levels(r))
         /\ Shrinks(m, r, t)
         /\ m.MemHead[t] # NULL => ~r.alive[t]
<1> DEFINE r == ReArrangeMemAndTask(m, t)
           q == ReleaseAll(m, t)
           F == OwnedBy(m, t)
           V == Used(m) \ F
<1>1. CASE m.MemHead[t] = NULL
  <2>1. r = m BY <1>1 DEF ReArrangeMemAndTask
  <2>2. Roomier(m, m, Used(m), Used(m)) BY RoomierSelf DEF InOrder
  <2>3. Shrinks(m, m, t) BY <2>2 DEF Shrinks, OthersKept, Untouched, StaysClean
  <2> QED BY <1>1, <2>1, <2>3
<1>2. CASE m.MemHead[t] # NULL
  <2>1. F \subseteq Used(m) BY OwnedFacts
  <2>0. Gives(m, q, Used(m), V) BY <2>1, ReleaseAllHeap DEF InOrder
  <2>2. Heap(q, V) /\ Kept(m, q, V) BY <2>0 DEF Gives
  <2>3. q \in Memory BY <2>2 DEF Heap
  <2>4. r = [q EXCEPT !.alive[t] = FALSE, !.MemHead[t] = NULL,
                      !.MemTail[t] = NULL, !.MemLevel[t] = -1]
    BY <1>2 DEF ReArrangeMemAndTask
  <2> HIDE DEF q, r, V, F
  <2>5. /\ r.hdr = q.hdr /\ r.FreeHead = q.FreeHead /\ r.FreeTail = q.FreeTail
        /\ r.LastMEM = q.LastMEM /\ r.nz = q.nz /\ ~r.alive[t]
        /\ r.MemHead[t] = NULL /\ r.MemTail[t] = NULL /\ r.MemLevel[t] = -1
        /\ \A u \in Task : u # t => /\ r.MemHead[u] = q.MemHead[u]
                                    /\ r.MemTail[u] = q.MemTail[u]
                                    /\ r.MemLevel[u] = q.MemLevel[u]
                                    /\ r.alive[u] = q.alive[u]
    BY <2>3, <2>4 DEF Memory
  <2>6. r \in Memory
    <3>1. NULL \in Link /\ -1 \in Int BY DEF Link
    <3> QED BY <2>3, <2>4, <3>1 DEF Memory
  <2>7. Heap(r, V) BY <2>2, <2>5, <2>6, HeapFrames
  <2>8. Used(q) = V /\ \A u \in Task : OwnedBy(q, u) = OwnedBy(m, u) \cap V
    <3>1. V \subseteq Used(m) BY DEF V
    <3> QED BY <2>2, <3>1, KeptOwned
  <2>9. Used(r) = V /\ \A u \in Task : OwnedBy(r, u) = OwnedBy(m, u) \cap V
    BY <2>5, <2>8 DEF Used, OwnedBy, IsFree
  <2>10. OwnedBy(r, t) = {} BY <2>9 DEF V, F
  <2>11. \A u \in Task : u # t => OwnedBy(r, u) = OwnedBy(m, u) /\ OwnedBy(m, u) \subseteq V
    <3>1. \A u \in Task : u # t => OwnedBy(m, u) \subseteq V BY DEF V, F, OwnedBy, Used
    <3> QED BY <2>9, <3>1
  <2>12. ASSUME NEW u \in Task PROVE TaskList(r, u, OwnedBy(r, u))
    <3>1. CASE u = t BY <2>5, <2>10, <3>1, EmptyList
    <3>2. CASE u # t
      <4>1. TaskList(m, u, OwnedBy(m, u)) BY DEF InOrder
      <4>2. TaskList(q, u, OwnedBy(m, u)) BY <2>2, <2>11, <3>2, <4>1, KeptList
      <4> QED BY <2>5, <2>11, <3>2, <4>2 DEF TaskList
    <3> QED BY <3>1, <3>2
  <2>13. q.MemHead = m.MemHead /\ q.alive = m.alive /\ q.MemLevel = m.MemLevel
    BY <2>2 DEF Kept, SameTasks
  <2>14. \A u \in Task : r.MemHead[u] # NULL => r.alive[u]
    BY <2>5, <2>13 DEF InOrder
  <2>15. InOrder(r) BY <2>7, <2>9, <2>12, <2>14 DEF InOrder
  <2>16. Levels(m) => Levels(r)
    <3>1. Cardinality({}) = 0 BY FS_EmptySet
    <3>2. ASSUME Levels(m), NEW u \in Task
          PROVE  r.MemLevel[u] = Cardinality(OwnedBy(r, u)) - 1
      <4>1. CASE u = t BY <2>5, <2>10, <3>1, <4>1
      <4>2. CASE u # t BY <2>5, <2>11, <2>13, <3>2, <4>2 DEF Levels
      <4> QED BY <4>1, <4>2
    <3> QED BY <3>2 DEF Levels
  <2>17. OthersKept(m, r, t)
    <3> SUFFICES ASSUME NEW u \in Task, u # t PROVE Untouched(m, r, u) BY DEF OthersKept
    <3>1. \A a \in OwnedBy(m, u) : r.hdr[a] = m.hdr[a] BY <2>2, <2>5, <2>11 DEF Kept
    <3>2. q.MemTail = m.MemTail BY <2>2 DEF Kept, SameTasks
    <3> QED BY <2>5, <2>11, <2>13, <3>1, <3>2 DEF Untouched
  <2>18. Shrinks(m, r, t)
    <3>1. SameStore(q, r) BY <2>5 DEF SameStore
    <3>2. Roomier(m, r, Used(m), Used(r))
      <4>1. Spare(r, V) = Spare(q, V) BY <3>1, SameStoreFacts
      <4>2. Roomier(m, q, Used(m), V) BY <2>0 DEF Gives
      <4> QED BY <2>5, <2>9, <4>1, <4>2 DEF Roomier
    <3>3. StaysClean(m, r)
      <4>1. Clean(m, Used(m)) => Clean(q, Used(q)) BY <2>0, <2>8 DEF Gives
      <4>2. StaysClean(q, r) BY <3>1, SameStoreFacts
      <4> QED BY <4>1, <4>2 DEF StaysClean
    <3>4. r.LastMEM = m.LastMEM BY <2>2, <2>5 DEF Kept, SameTasks
    <3> QED BY <2>17, <3>2, <3>3, <3>4 DEF Shrinks
  <2> QED BY <2>5, <2>15, <2>16, <2>18 DEF r
<1> QED BY <1>1, <1>2

\* The flag of a task without frames, or a flag that is raised, is free.
LEMMA AliveInOrder ==
  ASSUME NEW m, InOrder(m), NEW t \in Task, NEW v \in BOOLEAN,
         v \/ m.MemHead[t] = NULL
  PROVE  LET r == [m EXCEPT !.alive[t] = v] IN
         /\ InOrder(r) /\ (Levels(m) => Levels(r)) /\ SameStore(m, r)
         /\ r.MemHead = m.MemHead /\ r.MemTail = m.MemTail /\ r.MemLevel = m.MemLevel
         /\ \A u \in Task : r.alive[u] = IF u = t THEN v ELSE m.alive[u]
<1> DEFINE r == [m EXCEPT !.alive[t] = v]
<1>1. m \in Memory BY DEF InOrder, Heap
<1>2. /\ r.hdr = m.hdr /\ r.FreeHead = m.FreeHead /\ r.FreeTail = m.FreeTail
      /\ r.LastMEM = m.LastMEM /\ r.MemHead = m.MemHead /\ r.MemTail = m.MemTail
      /\ r.MemLevel = m.MemLevel /\ r \in Memory /\ r.nz = m.nz
      /\ \A u \in Task : r.alive[u] = IF u = t THEN v ELSE m.alive[u]
  BY <1>1 DEF Memory
<1> HIDE DEF r
<1>3. Used(r) = Used(m) /\ \A u \in Task : OwnedBy(r, u) = OwnedBy(m, u)
  BY <1>2 DEF Used, OwnedBy, IsFree
<1>4. Heap(r, Used(m))
  <2>1. Heap(m, Used(m)) BY DEF InOrder
  <2> QED BY <1>2, <2>1, HeapFrames
<1>5. \A u \in Task : TaskList(r, u, OwnedBy(r, u)) BY <1>2, <1>3 DEF InOrder, TaskList
<1>6. \A u \in Task : r.MemHead[u] # NULL => r.alive[u] BY <1>2 DEF InOrder
<1>7. Levels(m) => Levels(r) BY <1>2, <1>3, SMTT(30) DEF Levels
<1> QED BY <1>2, <1>3, <1>4, <1>5, <1>6, <1>7 DEF InOrder, SameStore, r

\* The newest frame of a subroutine is taken from its task's list: F is what
\* remains of the list.
Unlinked(m, t) ==
  LET b == m.MemTail[t]
      caller == m.hdr[b].last
  IN  [m EXCEPT !.hdr = SetNext(@, caller, NULL),
                !.MemTail[t] = IF caller = NULL THEN @ ELSE caller]

IsUnlinked(m, q, t, b, F) ==
  /\ Heap(q, Used(m)) /\ TaskList(q, t, F) /\ Cardinality(F) = Cardinality(OwnedBy(m, t)) - 1
  /\ DOMAIN q.hdr = DOMAIN m.hdr
  /\ \A a \in DOMAIN m.hdr : q.hdr[a].magic = m.hdr[a].magic /\ q.hdr[a].id = m.hdr[a].id
  /\ \A a \in DOMAIN m.hdr \ OwnedBy(m, t) : q.hdr[a] = m.hdr[a]
  /\ \A a \in DOMAIN m.hdr :
       /\ q.hdr[a].len = m.hdr[a].len
       /\ q.hdr[a].next = IF a = q.MemTail[t] THEN NULL ELSE m.hdr[a].next
  /\ q.MemHead = m.MemHead /\ q.alive = m.alive /\ q.MemLevel = m.MemLevel
  /\ q.nz = m.nz /\ q.LastMEM = m.LastMEM
  /\ \A u \in Task : u # t => q.MemTail[u] = m.MemTail[u]

\* The blocks of S keep their lengths, and all but the last their successors.
SameRow(m, r, S, last) ==
  \A a \in S : /\ r.hdr[a].len = m.hdr[a].len
               /\ a # last => r.hdr[a].next = m.hdr[a].next

\* The newest frame of t, and nothing else, is gone from t's list.
PoppedAt(m, r, t, b) ==
  /\ b \in OwnedBy(m, t) /\ OwnedBy(r, t) = OwnedBy(m, t) \ {b}
  /\ r.MemHead[t] = m.MemHead[t]
  /\ SameRow(m, r, OwnedBy(r, t), r.MemTail[t])
Popped(m, r, t) == PoppedAt(m, r, t, m.MemTail[t])

\* What DelLastFuncMem has done to the lists before it releases the last frame.
LEMMA UnlinkedFacts ==
  ASSUME NEW m, InOrder(m), NEW t \in Task, Cardinality(OwnedBy(m, t)) > 1
  PROVE  LET b == m.MemTail[t] IN
         /\ b \in OwnedBy(m, t)
         /\ IsUnlinked(m, Unlinked(m, t), t, b, OwnedBy(m, t) \ {b})
<1> DEFINE b == m.MemTail[t]
           F == OwnedBy(m, t)
           n == Cardinality(F)
           D == DOMAIN m.hdr
           caller == m.hdr[b].last
           h == SetNext(m.hdr, caller, NULL)
           q == Unlinked(m, t)
<1>1. /\ m \in Memory /\ m.hdr \in [D -> Header] /\ NULL \notin D /\ D \subseteq Addr
      /\ F \subseteq D /\ F \subseteq Nat /\ F \subseteq Used(m)
      /\ n \in Nat /\ n > 1 /\ HasList(m.hdr, F, m.MemHead[t], b, n)
  <2>1. m \in Memory BY DEF InOrder, Heap
  <2>2. HasList(m.hdr, F, m.MemHead[t], b, n) BY DEF InOrder, TaskList
  <2>3. F \subseteq D /\ F \subseteq Nat /\ F \subseteq Used(m) /\ n \in Nat BY OwnedFacts
  <2> QED BY <2>1, <2>2, <2>3, HeadersFacts, AddrNat
<1>2. /\ b \in F /\ m.MemHead[t] \in F /\ m.MemHead[t] # b
      /\ m.hdr[b].next = NULL /\ caller # NULL /\ caller \in F
  <2> HIDE DEF F, n, b
  <2>1. b \in F /\ m.MemHead[t] \in F /\ m.MemHead[t] # b BY <1>1, ListEnds
  <2>2. /\ m.hdr[b].last \in F \cup {NULL} /\ (m.hdr[b].next = NULL <=> b = b)
        /\ (m.hdr[b].last = NULL <=> b = m.MemHead[t])
    BY <1>1, <2>1, ListEnds
  <2> QED BY <2>1, <2>2 DEF b
<1>3. /\ h \in [D -> Header]
      /\ \A x \in D :
           /\ h[x].next = IF x = caller THEN NULL ELSE m.hdr[x].next
           /\ h[x].last = m.hdr[x].last
           /\ h[x].len = m.hdr[x].len
           /\ h[x].magic = m.hdr[x].magic
           /\ h[x].id = m.hdr[x].id
           /\ x # caller => h[x] = m.hdr[x]
  <2>1. NULL \in Link BY DEF Link
  <2>2. m.hdr \in [D -> Header] /\ NULL \notin D BY <1>1
  <2> HIDE DEF D, caller
  <2> QED BY <2>1, <2>2, SetNextFacts
<1>4. q = [m EXCEPT !.hdr = h, !.MemTail[t] = caller] BY <1>2 DEF Unlinked
<1> HIDE DEF q, h
<1>5. /\ q.hdr = h /\ q.FreeHead = m.FreeHead /\ q.FreeTail = m.FreeTail
      /\ q.LastMEM = m.LastMEM /\ q.MemHead = m.MemHead /\ q.MemTail[t] = caller
      /\ \A u \in Task : u # t => q.MemTail[u] = m.MemTail[u]
      /\ q.MemLevel = m.MemLevel /\ q.alive = m.alive /\ q.nz = m.nz
  BY <1>1, <1>4 DEF Memory
<1>6. q \in Memory
  <2>1. h \in UNION {[C -> Header] : C \in SUBSET Addr} BY <1>1, <1>3
  <2>2. caller \in Link BY <1>1, <1>2 DEF Link
  <2> HIDE DEF D, caller
  <2> QED BY <1>1, <1>4, <2>1, <2>2 DEF Memory
<1>7. DOMAIN q.hdr = D BY <1>3, <1>5
<1>8. \A x \in D :
        /\ q.hdr[x].next = IF x = caller THEN NULL ELSE m.hdr[x].next
        /\ q.hdr[x].last = m.hdr[x].last /\ q.hdr[x].len = m.hdr[x].len
        /\ q.hdr[x].magic = m.hdr[x].magic /\ q.hdr[x].id = m.hdr[x].id
        /\ x # caller => q.hdr[x] = m.hdr[x]
  <2>1. q.hdr = h BY <1>5
  <2> HIDE DEF D
  <2> QED BY <1>3, <2>1
<1>9. Heap(q, Used(m))
  <2>1. Heap(m, Used(m)) BY DEF InOrder
  <2>2. \A a \in Spare(m, Used(m)) : a \in D /\ a # caller BY <1>1, <1>2 DEF Spare
  <2>3. \A a \in Spare(m, Used(m)) : q.hdr[a] = m.hdr[a] BY <1>8, <2>2
  <2> QED BY <1>5, <1>6, <1>7, <1>8, <2>1, <2>3, HeapFrames
<1>10. TaskList(q, t, F \ {b}) /\ Cardinality(F \ {b}) = n - 1
  <2>1. \A x \in F \ {b} :
          /\ q.hdr[x].next = IF x = m.hdr[b].last THEN m.hdr[b].next ELSE m.hdr[x].next
          /\ q.hdr[x].last = IF x = m.hdr[b].next THEN m.hdr[b].last ELSE m.hdr[x].last
    <3>1. \A x \in F : x \in D /\ x # NULL BY <1>1, AddrNat
    <3> HIDE DEF D, F, b
    <3> QED BY <1>2, <1>8, <3>1 DEF caller
  <2>2. Removes(m.hdr, q.hdr, F, b) BY <1>1, <1>2, <2>1 DEF Removes
  <2>3. /\ q.MemHead[t] = IF m.MemHead[t] = b THEN m.hdr[b].next ELSE m.MemHead[t]
        /\ q.MemTail[t] = IF b = b THEN m.hdr[b].last ELSE b
    BY <1>2, <1>5
  <2> HIDE DEF n, b, F
  <2>4. HasList(q.hdr, F \ {b}, q.MemHead[t], q.MemTail[t], n - 1)
    BY <1>1, <2>2, <2>3, ListRemove
  <2>5. Cardinality(F \ {b}) = n - 1 BY <2>4, ListCard
  <2> QED BY <2>4, <2>5 DEF TaskList
<1>11. \A a \in D \ F : q.hdr[a] = m.hdr[a] BY <1>2, <1>8
<1> QED BY <1>2, <1>5, <1>7, <1>8, <1>9, <1>10, <1>11 DEF IsUnlinked, q

\* The return from a subroutine, and from a main program.
LEMMA DelLastInOrder ==
  ASSUME NEW m, InOrder(m), Levels(m), NEW t \in Task
  PROVE  LET r == DelLastFuncMem(m, t) IN
         /\ InOrder(r) /\ Levels(r) /\ Shrinks(m, r, t)
         /\ \/ r = m /\ m.MemTail[t] = NULL
            \/ r.MemHead[t] = NULL
            \/ Popped(m, r, t)
<1> DEFINE r == DelLastFuncMem(m, t)
           b == m.MemTail[t]
           F == OwnedBy(m, t)
<1>1. CASE ~(b # NULL /\ m.MemLevel[t] > 0)
  <2>1. (r = m /\ b = NULL) \/ r = ReArrangeMemAndTask(m, t) BY <1>1 DEF DelLastFuncMem
  <2>2. CASE r = ReArrangeMemAndTask(m, t)
    <3> DEFINE e == ReArrangeMemAndTask(m, t)
    <3>1. InOrder(e) /\ Levels(e) /\ Shrinks(m, e, t) /\ e.MemHead[t] = NULL
      BY ReArrangeInOrder
    <3> HIDE DEF e
    <3> QED BY <2>2, <3>1 DEF e
  <2>3. CASE r = m /\ b = NULL
    <3>1. Roomier(m, m, Used(m), Used(m)) BY RoomierSelf DEF InOrder
    <3>2. Shrinks(m, m, t) BY <3>1 DEF Shrinks, OthersKept, Untouched, StaysClean
    <3> QED BY <2>3, <3>2
  <2> QED BY <2>1, <2>2, <2>3, SMTT(30)
<1>2. CASE b # NULL /\ m.MemLevel[t] > 0
  <2> DEFINE q == Unlinked(m, t)
             w == Release(q, b)
             V == Used(m) \ {b}
  <2>1. r = [w EXCEPT !.MemLevel[t] = @ - 1] BY <1>2 DEF DelLastFuncMem, Unlinked
  <2>2. Cardinality(F) > 1 /\ Cardinality(F) \in Nat
    <3>1. Cardinality(F) \in Nat BY OwnedFacts
    <3>2. m.MemLevel[t] = Cardinality(F) - 1 BY DEF Levels
    <3> QED BY <1>2, <3>1, <3>2
  <2>3. b \in F /\ IsUnlinked(m, q, t, b, F \ {b}) BY <2>2, UnlinkedFacts
  <2>4. F \subseteq Used(m) BY OwnedFacts
  <2> HIDE DEF q
  <2>0. Gives(q, w, Used(m), V)
    <3>1. Heap(q, Used(m)) /\ b \in Used(m) BY <2>3, <2>4 DEF IsUnlinked
    <3> QED BY <3>1, ReleaseHeap
  <2>5. Heap(w, V) /\ Kept(q, w, V) BY <2>0 DEF Gives
  <2> HIDE DEF w, r, b, F
  <2>6. w \in Memory BY <2>5 DEF Heap
  <2>7. /\ r.hdr = w.hdr /\ r.FreeHead = w.FreeHead /\ r.FreeTail = w.FreeTail
        /\ r.LastMEM = w.LastMEM /\ r.MemHead = w.MemHead /\ r.MemTail = w.MemTail
        /\ r.alive = w.alive /\ r.MemLevel[t] = w.MemLevel[t] - 1
        /\ \A u \in Task : u # t => r.MemLevel[u] = w.MemLevel[u]
        /\ r \in Memory /\ r.nz = w.nz
    BY <2>1, <2>6 DEF Memory
  <2>8. Heap(r, V) BY <2>5, <2>7, HeapFrames
  <2>9. Used(q) = Used(m) /\ \A u \in Task : OwnedBy(q, u) = OwnedBy(m, u)
    BY <2>3 DEF IsUnlinked, Used, OwnedBy, IsFree
  <2>10. Used(w) = V /\ \A u \in Task : OwnedBy(w, u) = OwnedBy(m, u) \cap V
    <3>1. V \subseteq Used(q) BY <2>9 DEF V
    <3> QED BY <2>5, <2>9, <3>1, KeptOwned
  <2>11. Used(r) = V /\ \A u \in Task : OwnedBy(r, u) = OwnedBy(m, u) \cap V
    BY <2>7, <2>10 DEF Used, OwnedBy, IsFree
  <2>12. OwnedBy(r, t) = F \ {b} BY <2>4, <2>11 DEF V, F
  <2>13. \A u \in Task : u # t => OwnedBy(r, u) = OwnedBy(m, u) /\ OwnedBy(m, u) \subseteq V
    <3>1. \A u \in Task : u # t => b \notin OwnedBy(m, u) BY <2>3 DEF F, OwnedBy
    <3>2. \A u \in Task : OwnedBy(m, u) \subseteq Used(m) BY DEF OwnedBy, Used
    <3> QED BY <2>11, <3>1, <3>2 DEF V
  <2>14. ASSUME NEW u \in Task PROVE TaskList(r, u, OwnedBy(r, u))
    <3>1. CASE u = t
      <4>1. TaskList(q, t, F \ {b}) BY <2>3 DEF IsUnlinked
      <4>2. F \ {b} \subseteq V BY <2>4 DEF V
      <4>3. TaskList(w, t, F \ {b}) BY <2>5, <4>1, <4>2, KeptList
      <4> QED BY <2>7, <2>12, <3>1, <4>3 DEF TaskList
    <3>2. CASE u # t
      <4>1. TaskList(m, u, OwnedBy(m, u)) BY DEF InOrder
      <4>2. TaskList(q, u, OwnedBy(m, u))
        <5>1. \A a \in OwnedBy(m, u) : a \in DOMAIN m.hdr /\ a \notin F BY <3>2 DEF OwnedBy, F
        <5>2. \A a \in OwnedBy(m, u) : q.hdr[a] = m.hdr[a] BY <2>3, <5>1 DEF IsUnlinked, F
        <5>3. q.MemHead[u] = m.MemHead[u] /\ q.MemTail[u] = m.MemTail[u]
          BY <2>3, <3>2 DEF IsUnlinked
        <5> QED BY <4>1, <5>2, <5>3, ListSame DEF TaskList
      <4>3. TaskList(w, u, OwnedBy(m, u)) BY <2>5, <2>13, <3>2, <4>2, KeptList
      <4> QED BY <2>7, <2>13, <3>2, <4>3 DEF TaskList
    <3> QED BY <3>1, <3>2
  <2>15. w.MemHead = m.MemHead /\ w.alive = m.alive /\ w.MemLevel = m.MemLevel
    BY <2>3, <2>5 DEF Kept, SameTasks, IsUnlinked
  <2>16. InOrder(r)
    <3>1. \A u \in Task : r.MemHead[u] # NULL => r.alive[u] BY <2>7, <2>15 DEF InOrder
    <3> QED BY <2>8, <2>11, <2>14, <3>1 DEF InOrder
  <2>17. Levels(r)
    <3> SUFFICES ASSUME NEW u \in Task PROVE r.MemLevel[u] = Cardinality(OwnedBy(r, u)) - 1
      BY DEF Levels
    <3>1. CASE u = t
      <4>1. Cardinality(F \ {b}) = Cardinality(F) - 1 BY <2>3 DEF IsUnlinked, F
      <4>2. m.MemLevel[t] = Cardinality(F) - 1 BY DEF Levels, F
      <4> QED BY <2>7, <2>12, <2>15, <3>1, <4>1, <4>2
    <3>2. CASE u # t BY <2>7, <2>13, <2>15, <3>2 DEF Levels
    <3> QED BY <3>1, <3>2
  <2>18. OthersKept(m, r, t)
    <3> SUFFICES ASSUME NEW u \in Task, u # t PROVE Untouched(m, r, u) BY DEF OthersKept
    <3>1. \A a \in OwnedBy(m, u) : a \in DOMAIN m.hdr /\ a \notin OwnedBy(m, t)
      BY DEF OwnedBy
    <3>2. \A a \in OwnedBy(m, u) : r.hdr[a] = m.hdr[a]
      BY <2>3, <2>5, <2>7, <2>13, <3>1 DEF IsUnlinked, Kept
    <3>3. w.MemTail[u] = m.MemTail[u] BY <2>3, <2>5 DEF IsUnlinked, Kept, SameTasks
    <3> QED BY <2>7, <2>13, <2>15, <3>2, <3>3 DEF Untouched
  <2>19. Shrinks(m, r, t)
    <3>1. SameStore(w, r) BY <2>7 DEF SameStore
    <3>2. Roomier(m, r, Used(m), Used(r))
      <4>1. Spare(r, V) = Spare(w, V) BY <3>1, SameStoreFacts
      <4>2. Spare(q, Used(m)) = Spare(m, Used(m)) BY <2>3 DEF IsUnlinked, Spare
      <4>3. \A x \in Spare(m, Used(m)) : q.hdr[x].len = m.hdr[x].len
        BY <2>3 DEF IsUnlinked, Spare
      <4>4. Roomier(q, w, Used(m), V) BY <2>0 DEF Gives
      <4> QED BY <2>7, <2>11, <4>1, <4>2, <4>3, <4>4 DEF Roomier
    <3>3. StaysClean(m, r)
      <4>1. Clean(m, Used(m)) => Clean(q, Used(m))
        <5>1. \A a \in Used(m) : Payload(q, a) = Payload(m, a)
          BY <2>3 DEF IsUnlinked, Payload, Used
        <5>2. PayloadCells(q, Used(m)) = PayloadCells(m, Used(m)) BY <5>1 DEF PayloadCells
        <5> QED BY <2>3, <5>2 DEF Clean, IsUnlinked, Below
      <4>2. Clean(q, Used(m)) => Clean(w, Used(w)) BY <2>0, <2>10 DEF Gives
      <4>3. StaysClean(w, r) BY <3>1, SameStoreFacts
      <4> QED BY <4>1, <4>2, <4>3 DEF StaysClean
    <3>4. r.LastMEM = m.LastMEM BY <2>3, <2>5, <2>7 DEF Kept, SameTasks, IsUnlinked
    <3> QED BY <2>18, <3>2, <3>3, <3>4 DEF Shrinks
  <2>20. Popped(m, r, t)
    <3>1. r.MemHead[t] = m.MemHead[t] BY <2>7, <2>15
    <3>2. r.MemTail = q.MemTail BY <2>5, <2>7 DEF Kept, SameTasks
    <3>3. \A a \in F \ {b} : a \in V /\ a \in DOMAIN m.hdr BY <2>4 DEF V, Used
    <3>4. \A a \in F \ {b} : r.hdr[a] = q.hdr[a] BY <2>5, <2>7, <3>3 DEF Kept
    <3>5. \A a \in F \ {b} : /\ q.hdr[a].len = m.hdr[a].len
                             /\ a # q.MemTail[t] => q.hdr[a].next = m.hdr[a].next
      BY <2>3, <3>3 DEF IsUnlinked
    <3>6. SameRow(m, r, F \ {b}, r.MemTail[t]) BY <3>2, <3>4, <3>5 DEF SameRow
    <3>7. b \in OwnedBy(m, t) /\ OwnedBy(r, t) = OwnedBy(m, t) \ {b} BY <2>3, <2>12 DEF F
    <3>8. PoppedAt(m, r, t, b) BY <2>12, <3>1, <3>6, <3>7 DEF PoppedAt
    <3> QED BY <3>8 DEF Popped, b
  <2> QED BY <2>16, <2>17, <2>19, <2>20, SMTT(30) DEF r
<1> QED BY <1>1, <1>2

-----------------------------------------------------------------------------
(***************************************************************************)
(* Allocation.  Between the choice of a place and Own, block a (new, taken *)
(* whole from the free list, or the first part of a listed block) belongs  *)
(* to nobody; n will be its length, and L is where LastMEM will stand.     *)
(***************************************************************************)
Rest(m, U, a) == (DOMAIN m.hdr \ U) \ {a}
EndsWith(m, a, n) ==
  [x \in DOMAIN m.hdr \cup {a} |-> IF x = a THEN a + HDR + n ELSE Ends(m, x)]

Ready(m, U, a, n, L) ==
  /\ m \in Memory /\ U \subseteq DOMAIN m.hdr
  /\ a \in Addr \ U /\ n \in Nat /\ L \in Addr
  /\ Tiles(DOMAIN m.hdr \cup {a}, EndsWith(m, a, n), L)
  /\ \A x \in Rest(m, U, a) : m.hdr[x].magic = "FREE"
  /\ HasList(m.hdr, Rest(m, U, a), m.FreeHead, m.FreeTail, Cardinality(Rest(m, U, a)))
  /\ \A x \in Rest(m, U, a) : EndsWith(m, a, n)[x] \notin Rest(m, U, a)

\* New headers are written, at the addresses G.
Adds(m, r, G) == DOMAIN r.hdr = DOMAIN m.hdr \cup G /\ r.nz = m.nz \cup HeaderCells(G)

\* What Own does to the headers in use, and to t's own fields.
Caller(m, t) == IF m.alive[t] THEN m.MemTail[t] ELSE NULL

IsOwned(m, r, U, t, a) ==
  /\ a \in DOMAIN r.hdr
  /\ r.hdr[a].magic = "SPLT" /\ r.hdr[a].id = t
  /\ r.hdr[a].next = NULL /\ r.hdr[a].last = Caller(m, t)
  /\ U \subseteq DOMAIN r.hdr
  /\ \A x \in U :
       /\ r.hdr[x].next = IF x = Caller(m, t) THEN a ELSE m.hdr[x].next
       /\ r.hdr[x].last = m.hdr[x].last
       /\ r.hdr[x].magic = m.hdr[x].magic /\ r.hdr[x].id = m.hdr[x].id
       /\ r.hdr[x].len = m.hdr[x].len
       /\ x # Caller(m, t) => r.hdr[x] = m.hdr[x]
  /\ r.MemHead[t] = IF m.alive[t] THEN m.MemHead[t] ELSE a
  /\ r.MemTail[t] = a
  /\ \A u \in Task : u # t => r.MemHead[u] = m.MemHead[u] /\ r.MemTail[u] = m.MemTail[u]
  /\ r.MemLevel = m.MemLevel /\ r.alive = m.alive

\* A block taken from the heap by first fit leaves a heap with one more block in use.
BlockHas(r, a, n, L) == r.hdr[a].len = n /\ r.LastMEM = L

LEMMA OwnHeap ==
  ASSUME NEW m, NEW U, NEW t \in Task, NEW a, NEW n, NEW L, Ready(m, U, a, n, L),
         Caller(m, t) \in U \cup {NULL}
  PROVE  LET r == [Own(m, t, a, n) EXCEPT !.LastMEM = L] IN
         /\ Heap(r, U \cup {a}) /\ IsOwned(m, r, U, t, a) /\ Adds(m, r, {a})
         /\ BlockHas(r, a, n, L)
<1> DEFINE D == DOMAIN m.hdr
           caller == Caller(m, t)
           frame == [magic |-> "SPLT", id |-> t, len |-> n, last |-> caller, next |-> NULL]
           g == SetNext(m.hdr, caller, a)
           h == With(g, a, frame)
           z == m.nz \cup Cells(a, HDR)
           heads == [m.MemHead EXCEPT ![t] = IF m.alive[t] THEN @ ELSE a]
           tails == [m.MemTail EXCEPT ![t] = a]
           r == [Own(m, t, a, n) EXCEPT !.LastMEM = L]
<1>1. /\ m \in Memory /\ m.hdr \in [D -> Header] /\ NULL \notin D /\ D \subseteq Addr
      /\ U \subseteq D /\ a \in Addr /\ a \notin U /\ n \in Nat /\ L \in Addr
      /\ a \in Link /\ NULL \in Link
  BY HeadersFacts, AddrNat DEF Ready, Link
<1>2. caller \in Link /\ caller # a /\ caller \in U \cup {NULL}
  <2> HIDE DEF D, caller
  <2>1. caller \in U \cup {NULL} BY DEF caller
  <2> QED BY <1>1, <2>1, AddrNat DEF Link
<1>3. frame \in Header
  <2> HIDE DEF D, caller
  <2> QED BY <1>1, <1>2 DEF Header
<1>4. /\ g \in [D -> Header]
      /\ \A x \in D :
           /\ g[x].next = IF x = caller THEN a ELSE m.hdr[x].next
           /\ g[x].last = m.hdr[x].last
           /\ g[x].len = m.hdr[x].len
           /\ g[x].magic = m.hdr[x].magic
           /\ g[x].id = m.hdr[x].id
           /\ x # caller => g[x] = m.hdr[x]
  <2>1. m.hdr \in [D -> Header] /\ NULL \notin D /\ a \in Link BY <1>1
  <2> HIDE DEF D, caller
  <2> QED BY <2>1, SetNextFacts
<1> HIDE DEF g
<1>5. /\ h \in [D \cup {a} -> Header] /\ h[a] = frame
      /\ \A x \in D : x # a => h[x] = g[x]
  <2> HIDE DEF D, frame
  <2> QED BY <1>3, <1>4 DEF With
<1>6. r = [m EXCEPT !.hdr = h, !.nz = z, !.MemHead = heads, !.MemTail = tails, !.LastMEM = L]
  BY <1>1 DEF Own, Memory, Caller, g
<1> HIDE DEF h, z, heads, tails, r
<1>7. /\ r.hdr = h /\ r.FreeHead = m.FreeHead /\ r.FreeTail = m.FreeTail
      /\ r.LastMEM = L /\ r.MemHead = heads /\ r.MemTail = tails
      /\ r.MemLevel = m.MemLevel /\ r.alive = m.alive /\ r.nz = z
  BY <1>1, <1>6 DEF Memory
<1>8. r \in Memory
  <2>1. h \in UNION {[C -> Header] : C \in SUBSET Addr} BY <1>1, <1>5
  <2>2. z \in SUBSET Addr BY <1>1, CellsAddr DEF z, Memory
  <2>3. heads \in [Task -> Link] /\ tails \in [Task -> Link]
    BY <1>1 DEF heads, tails, Memory
  <2> HIDE DEF D
  <2> QED BY <1>1, <1>6, <2>1, <2>2, <2>3 DEF Memory
<1>9. DOMAIN r.hdr = D \cup {a} BY <1>5, <1>7
<1>10. /\ r.hdr[a] = frame
       /\ \A x \in D : x # a =>
            /\ r.hdr[x].next = IF x = caller THEN a ELSE m.hdr[x].next
            /\ r.hdr[x].last = m.hdr[x].last
            /\ r.hdr[x].len = m.hdr[x].len
            /\ r.hdr[x].magic = m.hdr[x].magic
            /\ r.hdr[x].id = m.hdr[x].id
            /\ x # caller => r.hdr[x] = m.hdr[x]
  <2>1. r.hdr = h BY <1>7
  <2> HIDE DEF D, frame, caller
  <2> QED BY <1>4, <1>5, <2>1
<1>11. Spare(r, U \cup {a}) = Rest(m, U, a) BY <1>9 DEF Spare, Rest
<1>12. \A x \in Rest(m, U, a) : x \in D /\ x # a /\ r.hdr[x] = m.hdr[x]
  <2>1. \A x \in Rest(m, U, a) : x \in D /\ x # a /\ x # caller
    BY <1>1, <1>2 DEF Rest
  <2> HIDE DEF D, caller
  <2> QED BY <1>10, <2>1
<1>13. HasList(r.hdr, Rest(m, U, a), r.FreeHead, r.FreeTail, Cardinality(Rest(m, U, a)))
  <2>1. HasList(m.hdr, Rest(m, U, a), m.FreeHead, m.FreeTail, Cardinality(Rest(m, U, a)))
    BY DEF Ready
  <2>2. \A x \in Rest(m, U, a) : r.hdr[x].next = m.hdr[x].next /\ r.hdr[x].last = m.hdr[x].last
    BY <1>12
  <2> QED BY <1>7, <2>1, <2>2, ListSame
<1>14. EndsOf(r) = EndsWith(m, a, n)
  <2>1. r.hdr[a].len = n BY <1>10
  <2>2. \A x \in D \cup {a} :
          x + HDR + r.hdr[x].len = IF x = a THEN a + HDR + n ELSE x + HDR + m.hdr[x].len
    <3>1. \A x \in D : x # a => r.hdr[x].len = m.hdr[x].len BY <1>10
    <3> HIDE DEF D
    <3> QED BY <2>1, <3>1
  <2> QED BY <1>9, <2>2 DEF EndsOf, EndsWith, Ends
<1>15. Heap(r, U \cup {a})
  <2>1. U \cup {a} \subseteq DOMAIN r.hdr BY <1>1, <1>9
  <2>2. Tiles(DOMAIN r.hdr, EndsOf(r), r.LastMEM) BY <1>7, <1>9, <1>14 DEF Ready
  <2>3. \A x \in Rest(m, U, a) : r.hdr[x].magic = "FREE" BY <1>12 DEF Ready
  <2>4. Alone(r, U \cup {a}) BY <1>11, <1>14 DEF Alone, Ready
  <2> QED BY <1>8, <1>11, <1>13, <2>1, <2>2, <2>3, <2>4 DEF Heap
<1>16. IsOwned(m, r, U, t, a)
  <2>1. /\ r.hdr[a].magic = "SPLT" /\ r.hdr[a].id = t
        /\ r.hdr[a].next = NULL /\ r.hdr[a].last = caller
    <3> HIDE DEF caller
    <3> QED BY <1>10
  <2>2. \A x \in U : x \in D /\ x # a BY <1>1
  <2>3. \A x \in U :
          /\ r.hdr[x].next = IF x = caller THEN a ELSE m.hdr[x].next
          /\ r.hdr[x].last = m.hdr[x].last
          /\ r.hdr[x].magic = m.hdr[x].magic /\ r.hdr[x].id = m.hdr[x].id
          /\ r.hdr[x].len = m.hdr[x].len
          /\ x # caller => r.hdr[x] = m.hdr[x]
    <3> HIDE DEF D, caller
    <3> QED BY <1>10, <2>2
  <2>4. /\ r.MemHead[t] = IF m.alive[t] THEN m.MemHead[t] ELSE a
        /\ r.MemTail[t] = a
        /\ \A u \in Task : u # t => r.MemHead[u] = m.MemHead[u] /\ r.MemTail[u] = m.MemTail[u]
    <3>1. m.MemHead \in [Task -> Link] /\ m.MemTail \in [Task -> Link] BY <1>1 DEF Memory
    <3> QED BY <1>7, <3>1 DEF heads, tails
  <2> QED BY <1>1, <1>7, <1>9, <2>1, <2>3, <2>4 DEF IsOwned
<1>17. Adds(m, r, {a})
  <2>1. HeaderCells({a}) = Cells(a, HDR) BY DEF HeaderCells
  <2> QED BY <1>7, <1>9, <2>1 DEF Adds, z
<1>18. BlockHas(r, a, n, L) BY <1>7, <1>10 DEF BlockHas
<1> QED BY <1>7, <1>15, <1>16, <1>17, <1>18 DEF r

\* The links of a free block lead to free blocks.
LEMMA SpareNeighbours ==
  ASSUME NEW m, NEW U, Heap(m, U), NEW a \in Spare(m, U)
  PROVE  m.hdr[a].next \in Spare(m, U) \cup {NULL} /\ m.hdr[a].last \in Spare(m, U) \cup {NULL}
<1> DEFINE S == Spare(m, U)
           k == Cardinality(S)
<1>1. a \in S /\ S \subseteq Nat /\ HasList(m.hdr, S, m.FreeHead, m.FreeTail, k)
  BY HeadersFacts, AddrNat DEF Heap, Spare
<1> HIDE DEF k, S
<1>2. m.hdr[a].next \in S \cup {NULL} /\ m.hdr[a].last \in S \cup {NULL} BY <1>1, ListEnds
<1> QED BY <1>2 DEF S

\* Fresh memory, at LastMEM.
LEMMA FreshReady ==
  ASSUME NEW m, NEW U, Heap(m, U), NEW ttl \in Nat, CanGrow(m, ttl)
  PROVE  Ready(m, U, m.LastMEM, ttl, m.LastMEM + HDR + ttl)
<1> DEFINE D == DOMAIN m.hdr
           a == m.LastMEM
           L == a + HDR + ttl
           E == EndsOf(m)
           E2 == EndsWith(m, a, ttl)
<1>1. /\ m \in Memory /\ U \subseteq D /\ a \in Addr /\ a \in Nat /\ D \subseteq Nat
      /\ Tiles(D, E, a)
  <2>1. m \in Memory /\ U \subseteq D /\ Tiles(D, E, a) BY DEF Heap
  <2>2. a \in Addr BY <2>1 DEF Memory
  <2> QED BY <2>1, <2>2, AddrNat DEF Tiles
<1>2. L \in Nat /\ a < L /\ L \in Addr
  <2>1. L < OS_MAX_MEM /\ OS_MAX_MEM \in Nat BY SizesAssumption DEF CanGrow
  <2>2. L \in Nat /\ a < L BY <1>1, HdrPositive
  <2> QED BY <2>1, <2>2 DEF Addr
<1>3. a \notin D /\ Tiles(D \cup {a}, E2, L)
  <2>1. \A x \in D : a # x => E2[x] = E[x] BY DEF EndsWith, EndsOf
  <2>2. E2[a] = L BY DEF EndsWith
  <2>3. a \notin D
    <3> HIDE DEF E
    <3> QED BY <1>1 DEF Tiles
  <2> HIDE DEF E, E2, D, L, a
  <2> QED BY <1>1, <1>2, <2>1, <2>2, <2>3, TilesGrow, ZenonT(40)
<1>4. Rest(m, U, a) = Spare(m, U) BY <1>3 DEF Rest, Spare
<1> HIDE DEF a, L
<1>5. a \notin U BY <1>1, <1>3
<1>7. \A x \in Rest(m, U, a) : EndsWith(m, a, ttl)[x] \notin Rest(m, U, a)
  <2>1. \A x \in Spare(m, U) : EndsWith(m, a, ttl)[x] = EndsOf(m)[x]
    BY <1>3 DEF Spare, EndsWith, EndsOf
  <2> QED BY <1>4, <2>1 DEF Heap, Alone
<1>6. Ready(m, U, a, ttl, L)
  <2>1. HasList(m.hdr, Rest(m, U, a), m.FreeHead, m.FreeTail, Cardinality(Rest(m, U, a)))
    BY <1>4 DEF Heap
  <2>2. \A x \in Rest(m, U, a) : m.hdr[x].magic = "FREE" BY <1>4 DEF Heap
  <2> QED BY <1>1, <1>2, <1>3, <1>5, <1>7, <2>1, <2>2 DEF Ready
<1> QED BY <1>6 DEF a, L

\* A listed block is taken whole.
LEMMA WholeReady ==
  ASSUME NEW m, NEW U, Heap(m, U), NEW a \in Spare(m, U)
  PROVE  LET q == Relink(m, a, m.hdr[a].next, m.hdr[a].last) IN
         Kept(m, q, U) /\ Ready(q, U, a, m.hdr[a].len, m.LastMEM) /\ Adds(m, q, {})
<1> DEFINE D == DOMAIN m.hdr
           S == Spare(m, U)
           k == Cardinality(S)
           f == m.hdr[a].next
           g == m.hdr[a].last
           q == Relink(m, a, f, g)
<1>1. /\ m \in Memory /\ a \in D /\ D \subseteq Nat /\ D \subseteq Addr /\ U \subseteq D
      /\ a \notin U /\ S \subseteq Nat /\ S \subseteq D /\ S \cap U = {}
      /\ HasList(m.hdr, S, m.FreeHead, m.FreeTail, k)
      /\ m.LastMEM \in Addr
  <2>1. m \in Memory /\ HasList(m.hdr, S, m.FreeHead, m.FreeTail, k) BY DEF Heap
  <2>2. m.LastMEM \in Addr BY <2>1 DEF Memory
  <2> QED BY <2>1, <2>2, HeadersFacts, AddrNat DEF Heap, Spare
<1>2. m.hdr[a] \in Header /\ m.hdr[a].len \in Nat BY <1>1, BlockFacts
<1>3. /\ q \in Memory /\ DOMAIN q.hdr = D
      /\ \A x \in D :
           /\ q.hdr[x].next = IF x = g THEN f ELSE m.hdr[x].next
           /\ q.hdr[x].last = IF x = f THEN g ELSE m.hdr[x].last
           /\ q.hdr[x].len = m.hdr[x].len
           /\ q.hdr[x].magic = m.hdr[x].magic
           /\ x \notin {g, f} => q.hdr[x] = m.hdr[x]
      /\ q.FreeHead = IF m.FreeHead = a THEN f ELSE m.FreeHead
      /\ q.FreeTail = IF m.FreeTail = a THEN g ELSE m.FreeTail
      /\ q.nz = m.nz /\ SameTasks(m, q)
  <2>1. f \in Link /\ g \in Link BY <1>2 DEF Header
  <2>2. m \in Memory /\ a \in DOMAIN m.hdr /\ m.hdr[a].next = f /\ m.hdr[a].last = g BY <1>1
  <2> HIDE DEF f, g
  <2> QED BY <2>1, <2>2, RelinkFacts
<1> HIDE DEF q
<1>4. Rest(q, U, a) = S \ {a} BY <1>3 DEF Rest, Spare
<1>5. HasList(q.hdr, S \ {a}, q.FreeHead, q.FreeTail, k - 1) /\ k - 1 = Cardinality(S \ {a})
  <2>1. Removes(m.hdr, q.hdr, S, a) BY <1>1, <1>3 DEF Removes
  <2> HIDE DEF k, S
  <2>2. HasList(q.hdr, S \ {a}, q.FreeHead, q.FreeTail, k - 1)
    BY <1>1, <1>3, <2>1, ListRemove
  <2> QED BY <2>2, ListCard
<1>6. /\ EndsWith(q, a, m.hdr[a].len) = EndsOf(m)
      /\ Tiles(D \cup {a}, EndsWith(q, a, m.hdr[a].len), m.LastMEM)
  <2>1. D \cup {a} = D BY <1>1
  <2>2. EndsWith(q, a, m.hdr[a].len) = EndsOf(m) BY <1>1, <1>3 DEF EndsWith, EndsOf, Ends
  <2> QED BY <2>1, <2>2 DEF Heap
<1>10. \A x \in S \ {a} : EndsWith(q, a, m.hdr[a].len)[x] \notin S \ {a}
  BY <1>6 DEF Heap, Alone
<1>11. Adds(m, q, {}) BY <1>3 DEF Adds, HeaderCells
<1>7. \A x \in S \ {a} : q.hdr[x].magic = "FREE" BY <1>1, <1>3 DEF Heap
<1>8. Kept(m, q, U)
  <2>1. f \in S \cup {NULL} /\ g \in S \cup {NULL} BY SpareNeighbours
  <2>2. \A x \in U : x \in D /\ x \notin {g, f} BY <1>1, <2>1, AddrNat
  <2> HIDE DEF f, g
  <2> QED BY <1>1, <1>3, <2>2 DEF Kept
<1>9. Ready(q, U, a, m.hdr[a].len, m.LastMEM)
  <2>1. /\ q \in Memory /\ U \subseteq DOMAIN q.hdr /\ a \in Addr \ U
        /\ m.hdr[a].len \in Nat /\ m.LastMEM \in Addr
    BY <1>1, <1>2, <1>3
  <2>2. Tiles(DOMAIN q.hdr \cup {a}, EndsWith(q, a, m.hdr[a].len), m.LastMEM) BY <1>3, <1>6
  <2>3. \A x \in Rest(q, U, a) : q.hdr[x].magic = "FREE" BY <1>4, <1>7
  <2>4. HasList(q.hdr, Rest(q, U, a), q.FreeHead, q.FreeTail, Cardinality(Rest(q, U, a)))
    BY <1>4, <1>5
  <2> QED BY <1>4, <1>10, <2>1, <2>2, <2>3, <2>4 DEF Ready
<1> QED BY <1>8, <1>9, <1>11 DEF q

\* A listed block is cut in two; what is left takes its place on the list.
LEMMA SplitReady ==
  ASSUME NEW m, NEW U, Heap(m, U), NEW a \in Spare(m, U), NEW ttl \in Nat,
         m.hdr[a].len >= ttl, ~(m.hdr[a].len - ttl < SLACK)
  PROVE  /\ Kept(m, Split(m, a, ttl), U) /\ Ready(Split(m, a, ttl), U, a, ttl, m.LastMEM)
         /\ \E G : Adds(m, Split(m, a, ttl), G)
<1> DEFINE D == DOMAIN m.hdr
           S == Spare(m, U)
           k == Cardinality(S)
           f == m.hdr[a].next
           g == m.hdr[a].last
           c == a + HDR + ttl
           rest == [m.hdr[a] EXCEPT !.len = @ - ttl - HDR]
           w == Relink(m, a, c, c)
           h == With(w.hdr, c, rest)
           z == w.nz \cup Cells(c, HDR)
           q == Split(m, a, ttl)
           E == EndsOf(m)
           E2 == EndsWith(q, a, ttl)
<1>1. /\ m \in Memory /\ a \in D /\ D \subseteq Nat /\ D \subseteq Addr /\ U \subseteq D
      /\ a \notin U /\ S \subseteq Nat /\ S \subseteq D /\ S \cap U = {}
      /\ HasList(m.hdr, S, m.FreeHead, m.FreeTail, k)
      /\ m.LastMEM \in Addr /\ Tiles(D, E, m.LastMEM)
  <2>1. m \in Memory /\ HasList(m.hdr, S, m.FreeHead, m.FreeTail, k) BY DEF Heap
  <2>2. m.LastMEM \in Addr BY <2>1 DEF Memory
  <2> QED BY <2>1, <2>2, HeadersFacts, AddrNat DEF Heap, Spare
<1>2. /\ m.hdr[a] \in Header /\ m.hdr[a].len \in Nat /\ a \in Nat
      /\ E[a] = a + HDR + m.hdr[a].len BY <1>1, BlockFacts
<1>3. /\ rest \in Header /\ rest.next = f /\ rest.last = g /\ rest.magic = m.hdr[a].magic
      /\ c + HDR + rest.len = E[a] /\ c \in Nat /\ a < c /\ c < E[a]
  <2> DEFINE l == m.hdr[a].len
  <2>1. /\ l \in Nat /\ l - ttl - HDR \in Nat /\ c \in Nat /\ a < c
        /\ c + HDR + (l - ttl - HDR) = a + HDR + l
        /\ c < a + HDR + l
    <3>1. l \in Nat /\ ~(l - ttl < SLACK) /\ SLACK \in Nat /\ HDR <= SLACK
      BY <1>2, SizesAssumption, SlackAssumption
    <3> HIDE DEF l
    <3> QED BY <1>2, <3>1, HdrPositive
  <2>2. rest.len = l - ttl - HDR /\ rest \in Header BY <1>2, <2>1 DEF Header
  <2>3. rest.next = f /\ rest.last = g /\ rest.magic = m.hdr[a].magic
    BY <1>2 DEF Header
  <2> HIDE DEF rest, c, f, g
  <2> QED BY <1>2, <2>1, <2>2, <2>3
<1>4. c \in Addr /\ c \notin D
  <2>1. E[a] <= m.LastMEM /\ E[a] \in Nat BY <1>1 DEF Tiles
  <2>2. m.LastMEM < OS_MAX_MEM /\ m.LastMEM \in Nat /\ OS_MAX_MEM \in Nat
    BY <1>1, SizesAssumption DEF Addr
  <2>3. c < OS_MAX_MEM
    <3> HIDE DEF E, c
    <3> QED BY <1>3, <2>1, <2>2
  <2>4. c \in Addr
    <3> HIDE DEF c
    <3> QED BY <1>3, <2>2, <2>3 DEF Addr
  <2>5. \A x \in D : x < a \/ x = a \/ a < x BY <1>1
  <2>6. \A x \in D : a < x => E[a] <= x
    <3> HIDE DEF E
    <3> QED BY <1>1 DEF Tiles
  <2>7. \A x \in D : x # c
    <3> HIDE DEF E, c, D
    <3> QED BY <1>1, <1>2, <1>3, <2>1, <2>5, <2>6
  <2> QED BY <2>4, <2>7
<1> HIDE DEF c, rest
<1>5. /\ w \in Memory /\ DOMAIN w.hdr = D
      /\ \A x \in D :
           /\ w.hdr[x].next = IF x = g THEN c ELSE m.hdr[x].next
           /\ w.hdr[x].last = IF x = f THEN c ELSE m.hdr[x].last
           /\ w.hdr[x].len = m.hdr[x].len
           /\ w.hdr[x].magic = m.hdr[x].magic
           /\ x \notin {g, f} => w.hdr[x] = m.hdr[x]
      /\ w.FreeHead = IF m.FreeHead = a THEN c ELSE m.FreeHead
      /\ w.FreeTail = IF m.FreeTail = a THEN c ELSE m.FreeTail
      /\ w.nz = m.nz /\ SameTasks(m, w)
  <2>1. c \in Link BY <1>4 DEF Link
  <2>2. m \in Memory /\ a \in DOMAIN m.hdr /\ m.hdr[a].next = f /\ m.hdr[a].last = g BY <1>1
  <2> HIDE DEF f, g
  <2> QED BY <2>1, <2>2, RelinkFacts
<1> HIDE DEF w
<1>6. /\ h \in [D \cup {c} -> Header] /\ h[c] = rest
      /\ \A x \in D : h[x] = w.hdr[x]
  <2>1. w.hdr \in [D -> Header] BY <1>5, HeadersFacts
  <2> HIDE DEF D
  <2> QED BY <1>3, <1>4, <1>5, <2>1 DEF With
<1>7. q = [w EXCEPT !.hdr = h, !.nz = z] BY <1>5 DEF Split, w, c, rest
<1> HIDE DEF h, z, q
<1>8. /\ q.hdr = h /\ q.FreeHead = w.FreeHead /\ q.FreeTail = w.FreeTail /\ SameTasks(m, q)
      /\ q.nz = z
  BY <1>5, <1>7 DEF Memory, SameTasks
<1>9. q \in Memory
  <2>1. h \in UNION {[C -> Header] : C \in SUBSET Addr} BY <1>1, <1>4, <1>6
  <2>2. z \in SUBSET Addr BY <1>5, CellsAddr DEF z, Memory
  <2> HIDE DEF D
  <2> QED BY <1>5, <1>7, <2>1, <2>2 DEF Memory
<1>10. DOMAIN q.hdr = D \cup {c} BY <1>6, <1>8
<1>11. /\ q.hdr[c] = rest
       /\ \A x \in D : q.hdr[x] = w.hdr[x]
  <2>1. q.hdr = h BY <1>8
  <2> HIDE DEF D
  <2> QED BY <1>6, <2>1
<1>12. Rest(q, U, a) = (S \ {a}) \cup {c} BY <1>1, <1>4, <1>10 DEF Rest, Spare
<1>13. HasList(q.hdr, (S \ {a}) \cup {c}, q.FreeHead, q.FreeTail, k)
  <2>1. \A x \in S \ {a} :
          /\ q.hdr[x].next = IF x = g THEN c ELSE m.hdr[x].next
          /\ q.hdr[x].last = IF x = f THEN c ELSE m.hdr[x].last
    <3> HIDE DEF f, g
    <3> QED BY <1>1, <1>5, <1>11
  <2>2. q.hdr[c].next = f /\ q.hdr[c].last = g BY <1>3, <1>11
  <2>3. c \in Nat \ S BY <1>1, <1>3, <1>4
  <2>4. Replaces(m.hdr, q.hdr, S, a, c) BY <1>1, <2>1, <2>2, <2>3 DEF Replaces
  <2> HIDE DEF k, S
  <2> QED BY <1>1, <1>5, <1>8, <2>4, ListReplace
<1>14. k = Cardinality((S \ {a}) \cup {c}) BY <1>13, ListCard
<1>15. /\ Tiles(DOMAIN q.hdr \cup {a}, E2, m.LastMEM)
       /\ E2[c] = E[a] /\ \A x \in D \ {a} : E2[x] = E[x]
  <2>1. \A x \in D \ {a} : E2[x] = E[x]
    <3>1. \A x \in D : q.hdr[x].len = m.hdr[x].len BY <1>5, <1>11
    <3> QED BY <1>10, <3>1 DEF EndsWith, EndsOf, Ends
  <2>2. E2[a] = c BY DEF EndsWith, c
  <2>3. E2[c] = E[a]
    <3>1. c # a BY <1>1, <1>4
    <3>2. E2[c] = c + HDR + q.hdr[c].len BY <1>10, <3>1 DEF EndsWith, Ends
    <3> QED BY <1>3, <1>11, <3>2
  <2>4. DOMAIN q.hdr \cup {a} = D \cup {c} BY <1>1, <1>10
  <2>5. /\ Tiles(D, E, m.LastMEM) /\ a \in D /\ c \in Nat /\ a < c /\ c < E[a] BY <1>1, <1>3
  <2> HIDE DEF E, E2, D
  <2>6. Tiles(D \cup {c}, E2, m.LastMEM) BY <2>1, <2>2, <2>3, <2>5, TilesSplit
  <2> QED BY <2>1, <2>3, <2>4, <2>6
<1>18. \A x \in Rest(q, U, a) : E2[x] \notin Rest(q, U, a)
  <2>1. \A x \in S : E[x] \notin S /\ E[x] # c
    <3>1. c # m.LastMEM
      <4>1. c < E[a] /\ E[a] <= m.LastMEM /\ E[a] \in Nat /\ m.LastMEM \in Nat /\ c \in Nat
        BY <1>1, <1>3 DEF Tiles
      <4> HIDE DEF E
      <4> QED BY <4>1
    <3>2. \A x \in S : E[x] \in D \cup {m.LastMEM} BY <1>1 DEF Tiles
    <3>3. \A x \in S : E[x] \notin S BY DEF Heap, Alone
    <3> HIDE DEF E
    <3> QED BY <1>4, <3>1, <3>2, <3>3
  <2>2. a \in S /\ \A x \in S \ {a} : x \in D \ {a} BY <1>1
  <2> HIDE DEF E, E2, S
  <2> QED BY <1>12, <1>15, <2>1, <2>2
<1>19. Adds(m, q, {c})
  <2>1. HeaderCells({c}) = Cells(c, HDR) BY DEF HeaderCells
  <2> QED BY <1>5, <1>8, <1>10, <2>1 DEF Adds, z
<1>16. \A x \in (S \ {a}) \cup {c} : q.hdr[x].magic = "FREE"
  <2>1. m.hdr[a].magic = "FREE" /\ \A x \in S : m.hdr[x].magic = "FREE" BY DEF Heap
  <2>2. \A x \in S : q.hdr[x].magic = m.hdr[x].magic BY <1>1, <1>5, <1>11
  <2> QED BY <1>3, <1>11, <2>1, <2>2
<1>17. Kept(m, q, U)
  <2>1. f \in S \cup {NULL} /\ g \in S \cup {NULL} BY SpareNeighbours
  <2>2. \A x \in U : x \in D /\ x \notin {g, f} BY <1>1, <2>1, AddrNat
  <2> HIDE DEF f, g
  <2>3. \A x \in U : q.hdr[x] = m.hdr[x] BY <1>5, <1>11, <2>2
  <2> QED BY <1>1, <1>8, <1>10, <2>3 DEF Kept
<1>20. Ready(q, U, a, ttl, m.LastMEM)
  BY <1>1, <1>9, <1>10, <1>12, <1>13, <1>14, <1>15, <1>16, <1>18 DEF Ready
<1> QED BY <1>17, <1>19, <1>20 DEF q

\* The scan of the free list: a listed block that is large enough, or none is.
LEMMA FirstFitFacts ==
  ASSUME NEW m, NEW U, Heap(m, U), NEW ttl \in Nat
  PROVE  IF FirstFit(m, ttl) = NULL THEN \A x \in Spare(m, U) : m.hdr[x].len < ttl
         ELSE FirstFit(m, ttl) \in Spare(m, U) /\ m.hdr[FirstFit(m, ttl)].len >= ttl
<1> DEFINE fits == {x \in DOMAIN m.hdr : IsFree(m, x) /\ m.hdr[x].len >= ttl}
           S == Spare(m, U)
           k == Cardinality(S)
           a == Walk(m, m.FreeHead, fits)[Hops(m)]
<1>1. FirstFit(m, ttl) = a BY DEF FirstFit
<1>2. /\ HasList(m.hdr, S, m.FreeHead, m.FreeTail, k) /\ S \subseteq DOMAIN m.hdr
      /\ S \subseteq Nat /\ IsFiniteSet(DOMAIN m.hdr)
  BY HeadersFacts, AddrNat DEF Heap, Spare
<1>3. IF a = NULL THEN S \cap fits = {} ELSE a \in S \cap fits
  <2> HIDE DEF fits, S, k
  <2> QED BY <1>2, ListScan
<1>4. \A x \in S : m.hdr[x].magic = "FREE" /\ m.hdr[x].len \in Nat
  <2>1. \A x \in S : x \in DOMAIN m.hdr BY <1>2
  <2> QED BY <2>1, BlockFacts DEF Heap
<1>5. S \cap fits = {} => \A x \in S : m.hdr[x].len < ttl
  <2>1. \A x \in S : x \notin fits => ~(m.hdr[x].len >= ttl) BY <1>2, <1>4 DEF IsFree
  <2> HIDE DEF fits
  <2> QED BY <1>4, <2>1
<1> HIDE DEF a
<1> QED BY <1>1, <1>3, <1>5

\* r is m with a new newest frame of t, n bytes long; L is where LastMEM stands.
AllocatedAt(m, r, t, a, n, L) ==
  /\ a \notin Used(m) /\ Heap(r, Used(m) \cup {a}) /\ IsOwned(m, r, Used(m), t, a)
  /\ r.hdr[a].len = n /\ r.LastMEM = L /\ \E G : Adds(m, r, G)
Allocated(m, r, t, n, L) == \E a : AllocatedAt(m, r, t, a, n, L)

\* What Own adds to a heap made ready for it, it adds to the heap before.
LEMMA OwnAllocated ==
  ASSUME NEW m, NEW q, NEW t \in Task, NEW a, NEW n, NEW L,
         Kept(m, q, Used(m)), Ready(q, Used(m), a, n, L), Caller(m, t) \in Used(m) \cup {NULL},
         \E G : Adds(m, q, G),
         NEW r, r = [Own(q, t, a, n) EXCEPT !.LastMEM = L]
  PROVE  AllocatedAt(m, r, t, a, n, L)
<1> DEFINE U == Used(m)
<1>1. Caller(q, t) = Caller(m, t) BY DEF Caller, Kept, SameTasks
<1>2. /\ Heap(r, U \cup {a}) /\ IsOwned(q, r, U, t, a) /\ Adds(q, r, {a})
      /\ r.hdr[a].len = n /\ r.LastMEM = L
  <2> DEFINE e == [Own(q, t, a, n) EXCEPT !.LastMEM = L]
  <2> HIDE DEF U
  <2>1. Ready(q, U, a, n, L) /\ Caller(q, t) \in U \cup {NULL} BY <1>1 DEF U
  <2>2. Heap(e, U \cup {a}) /\ IsOwned(q, e, U, t, a) BY <2>1, OwnHeap
  <2>5. Adds(q, e, {a}) BY <2>1, OwnHeap
  <2>3. BlockHas(e, a, n, L) BY <2>1, OwnHeap
  <2>4. r = e OBVIOUS
  <2> HIDE DEF e
  <2> QED BY <2>2, <2>3, <2>4, <2>5 DEF BlockHas
<1>3. /\ \A x \in U : q.hdr[x] = m.hdr[x]
      /\ q.MemHead = m.MemHead /\ q.MemTail = m.MemTail /\ q.MemLevel = m.MemLevel
      /\ q.alive = m.alive
  BY DEF Kept, SameTasks
<1>4. IsOwned(m, r, U, t, a)
  <2> HIDE DEF U
  <2> QED BY <1>1, <1>2, <1>3 DEF IsOwned
<1>5. a \notin U BY DEF Ready
<1>6. \E G : Adds(m, r, G)
  <2>1. PICK G : Adds(m, q, G) OBVIOUS
  <2>2. HeaderCells(G \cup {a}) = HeaderCells(G) \cup HeaderCells({a}) BY DEF HeaderCells
  <2>3. Adds(m, r, G \cup {a}) BY <1>2, <2>1, <2>2 DEF Adds
  <2> QED BY <2>3
<1> QED BY <1>2, <1>4, <1>5, <1>6 DEF AllocatedAt

\* When findFreeMemById reports success the task has a new last frame.
LEMMA FindAllocated ==
  ASSUME NEW m, InOrder(m), NEW t \in Task, NEW ttl \in Nat, CanAllocate(m, t, ttl)
  PROVE  LET r == findFreeMemById(m, t, ttl) IN
         IF FirstFit(m, ttl) = NULL
         THEN /\ AllocatedAt(m, r, t, m.LastMEM, ttl, m.LastMEM + HDR + ttl)
              /\ \A x \in Spare(m, Used(m)) : m.hdr[x].len < ttl
         ELSE \E n : Allocated(m, r, t, n, m.LastMEM)
<1> DEFINE U == Used(m)
           a == FirstFit(m, ttl)
           r == findFreeMemById(m, t, ttl)
<1>1. Heap(m, U) /\ m \in Memory BY DEF InOrder, Heap
<1>2. Caller(m, t) \in U \cup {NULL}
  <2>1. m.MemTail[t] = NULL <=> OwnedBy(m, t) = {} BY OwnedFacts
  <2>2. OwnedBy(m, t) # {} => m.MemTail[t] \in OwnedBy(m, t) BY OwnedFacts
  <2>3. OwnedBy(m, t) \subseteq U BY OwnedFacts
  <2> QED BY <2>1, <2>2, <2>3 DEF Caller
<1>3. CASE a = NULL
  <2> DEFINE L == m.LastMEM + HDR + ttl
  <2>1. CanGrow(m, ttl) BY <1>3 DEF CanAllocate
  <2>2. Ready(m, U, m.LastMEM, ttl, L)
    <3> HIDE DEF U
    <3> QED BY <1>1, <2>1, FreshReady
  <2>3. Kept(m, m, U) BY <1>1 DEF Kept, SameTasks, Heap
  <2>6. \E G : Adds(m, m, G)
    <3>1. Adds(m, m, {}) BY DEF Adds, HeaderCells
    <3> QED BY <3>1
  <2>7. \A x \in Spare(m, U) : m.hdr[x].len < ttl
    <3> HIDE DEF U
    <3> QED BY <1>1, <1>3, FirstFitFacts
  <2>4. r = [Own(m, t, m.LastMEM, ttl) EXCEPT !.LastMEM = L]
    BY <1>1, <1>3 DEF findFreeMemById, Own, Memory
  <2> HIDE DEF r, L
  <2>5. AllocatedAt(m, r, t, m.LastMEM, ttl, L)
    BY <1>2, <2>2, <2>3, <2>4, <2>6, OwnAllocated
  <2> QED BY <1>3, <2>5, <2>7 DEF r, L
<1>4. CASE a # NULL
  <2>1. a \in Spare(m, U) /\ m.hdr[a].len >= ttl
    <3> HIDE DEF U
    <3> QED BY <1>1, <1>4, FirstFitFacts
  <2>2. CASE m.hdr[a].len - ttl < SLACK
    <3> DEFINE q == Relink(m, a, m.hdr[a].next, m.hdr[a].last)
               n == m.hdr[a].len
               e == Own(q, t, a, n)
    <3>1. r = e BY <1>4, <2>2 DEF findFreeMemById
    <3>2. Kept(m, q, U) /\ Ready(q, U, a, n, m.LastMEM) /\ Adds(m, q, {})
      <4> HIDE DEF U, a
      <4> QED BY <1>1, <2>1, WholeReady
    <3> HIDE DEF q, n, r, a
    <3>3. q \in Memory /\ q.LastMEM = m.LastMEM BY <3>2 DEF Ready, Kept, SameTasks
    <3>4. e = [e EXCEPT !.LastMEM = m.LastMEM] BY <3>3, ZenonT(40) DEF Own, Memory
    <3> HIDE DEF e
    <3>5. r = [Own(q, t, a, n) EXCEPT !.LastMEM = m.LastMEM] BY <3>1, <3>4 DEF e
    <3>7. AllocatedAt(m, r, t, a, n, m.LastMEM) BY <1>2, <3>2, <3>5, OwnAllocated
    <3>6. Allocated(m, r, t, n, m.LastMEM) BY <3>7 DEF Allocated
    <3> QED BY <1>4, <3>6 DEF r, a
  <2>3. CASE ~(m.hdr[a].len - ttl < SLACK)
    <3> DEFINE q == Split(m, a, ttl)
               e == Own(q, t, a, ttl)
    <3>1. r = e BY <1>4, <2>3 DEF findFreeMemById
    <3>2. Kept(m, q, U) /\ Ready(q, U, a, ttl, m.LastMEM) /\ \E G : Adds(m, q, G)
      <4> HIDE DEF U, a
      <4> QED BY <1>1, <2>1, <2>3, SplitReady
    <3> HIDE DEF q, r, a
    <3>3. q \in Memory /\ q.LastMEM = m.LastMEM BY <3>2 DEF Ready, Kept, SameTasks
    <3>4. e = [e EXCEPT !.LastMEM = m.LastMEM] BY <3>3, ZenonT(40) DEF Own, Memory
    <3> HIDE DEF e
    <3>5. r = [Own(q, t, a, ttl) EXCEPT !.LastMEM = m.LastMEM] BY <3>1, <3>4 DEF e
    <3>7. AllocatedAt(m, r, t, a, ttl, m.LastMEM) BY <1>2, <3>2, <3>5, OwnAllocated
    <3>6. Allocated(m, r, t, ttl, m.LastMEM) BY <3>7 DEF Allocated
    <3> QED BY <1>4, <3>6 DEF r, a
  <2> QED BY <2>2, <2>3
<1> QED BY <1>3, <1>4

-----------------------------------------------------------------------------
\* MemLevel and CurCmd play no part in the lists, but for the flag of a task
\* that owns frames, which is up.
LEMMA DeeperInOrder ==
  ASSUME NEW m, InOrder(m), NEW t \in Task
  PROVE  LET r == Deeper(m, t) IN
         /\ InOrder(r) /\ r.hdr = m.hdr /\ r.FreeHead = m.FreeHead /\ r.LastMEM = m.LastMEM
         /\ r.nz = m.nz
         /\ r.MemHead = m.MemHead /\ r.MemTail = m.MemTail /\ r.alive = m.alive
         /\ r.MemLevel[t] = m.MemLevel[t] + 1
         /\ \A u \in Task : u # t => r.MemLevel[u] = m.MemLevel[u]
<1> DEFINE r == Deeper(m, t)
<1>1. m \in Memory BY DEF InOrder, Heap
<1>2. /\ r.hdr = m.hdr /\ r.FreeHead = m.FreeHead /\ r.FreeTail = m.FreeTail
      /\ r.LastMEM = m.LastMEM /\ r.MemHead = m.MemHead /\ r.MemTail = m.MemTail
      /\ r.alive = m.alive /\ r \in Memory /\ r.nz = m.nz
      /\ r.MemLevel[t] = m.MemLevel[t] + 1
      /\ \A u \in Task : u # t => r.MemLevel[u] = m.MemLevel[u]
  BY <1>1 DEF Memory, Deeper
<1> HIDE DEF r
<1>3. Used(r) = Used(m) /\ \A u \in Task : OwnedBy(r, u) = OwnedBy(m, u)
  BY <1>2 DEF Used, OwnedBy, IsFree
<1>4. Heap(r, Used(m))
  <2>1. Heap(m, Used(m)) BY DEF InOrder
  <2> QED BY <1>2, <2>1, HeapFrames
<1>5. InOrder(r) BY <1>2, <1>3, <1>4 DEF InOrder, TaskList
<1> QED BY <1>2, <1>5 DEF r

(***************************************************************************)
(* What call does to a heap: a new newest frame for t, at the end of t's   *)
(* list; LastMEM only moves if no free block would have done.              *)
(***************************************************************************)
PushedAt(m, r, t, a) ==
  /\ a \notin Used(m) /\ Used(r) = Used(m) \cup {a}
  /\ OwnedBy(r, t) = OwnedBy(m, t) \cup {a}
  /\ r.MemHead[t] = IF OwnedBy(m, t) = {} THEN a ELSE m.MemHead[t]
  /\ SameRow(m, r, OwnedBy(m, t), m.MemTail[t])
Pushed(m, r, t) == PushedAt(m, r, t, r.MemTail[t])
Grows(m, r, t, ttl) ==
  IF FirstFit(m, ttl) = NULL
  THEN /\ r.LastMEM = m.LastMEM + HDR + ttl /\ r.hdr[r.MemTail[t]].len = ttl
       /\ \A x \in Spare(m, Used(m)) : m.hdr[x].len < ttl
  ELSE r.LastMEM = m.LastMEM

\* A call that finds memory gives the task one frame more.
LEMMA CallInOrder ==
  ASSUME NEW m, InOrder(m), NEW t \in Task, NEW ttl \in Nat, CanAllocate(m, t, ttl)
  PROVE  LET r == call(m, t, ttl) IN
         /\ InOrder(r) /\ (Levels(m) => Levels(r)) /\ r.alive[t]
         /\ OthersKept(m, r, t) /\ StaysClean(m, r) /\ Pushed(m, r, t) /\ Grows(m, r, t, ttl)
<1> DEFINE d == Deeper(m, t)
           got == findFreeMemById(d, t, ttl)
           F == OwnedBy(m, t)
           U == Used(m)
           r == call(m, t, ttl)
<1>1. /\ InOrder(d) /\ d.hdr = m.hdr /\ d.FreeHead = m.FreeHead /\ d.LastMEM = m.LastMEM
      /\ d.nz = m.nz
      /\ d.MemHead = m.MemHead /\ d.MemTail = m.MemTail /\ d.alive = m.alive
      /\ d.MemLevel[t] = m.MemLevel[t] + 1
      /\ \A u \in Task : u # t => d.MemLevel[u] = m.MemLevel[u]
  BY DeeperInOrder
<1> HIDE DEF d
<1>2. FirstFit(d, ttl) = FirstFit(m, ttl) /\ CanAllocate(d, t, ttl)
  <2>1. FirstFit(d, ttl) = FirstFit(m, ttl) BY <1>1 DEF FirstFit, Walk, Hop, Hops, IsFree
  <2> QED BY <1>1, <2>1 DEF CanAllocate, CanGrow
<1>4. Used(d) = U /\ \A u \in Task : OwnedBy(d, u) = OwnedBy(m, u)
  BY <1>1 DEF Used, OwnedBy, IsFree
<1>20. \E a, n, L :
         /\ AllocatedAt(d, got, t, a, n, L)
         /\ IF FirstFit(m, ttl) = NULL
            THEN /\ a = m.LastMEM /\ n = ttl /\ L = m.LastMEM + HDR + ttl
                 /\ \A x \in Spare(m, Used(m)) : m.hdr[x].len < ttl
            ELSE L = m.LastMEM
  <2>1. Spare(d, U) = Spare(m, U) BY <1>1 DEF Spare
  <2>2. CASE FirstFit(m, ttl) = NULL
    <3>1. /\ AllocatedAt(d, got, t, d.LastMEM, ttl, d.LastMEM + HDR + ttl)
          /\ \A x \in Spare(d, Used(d)) : d.hdr[x].len < ttl
      BY <1>1, <1>2, <2>2, FindAllocated
    <3>2. AllocatedAt(d, got, t, m.LastMEM, ttl, m.LastMEM + HDR + ttl) BY <1>1, <3>1
    <3>3. \A x \in Spare(m, U) : m.hdr[x].len < ttl BY <1>1, <1>4, <2>1, <3>1
    <3> HIDE DEF got, d
    <3> QED BY <2>2, <3>2, <3>3
  <2>3. CASE FirstFit(m, ttl) # NULL
    <3>1. \E n : Allocated(d, got, t, n, d.LastMEM) BY <1>1, <1>2, <2>3, FindAllocated
    <3>2. PICK n : Allocated(d, got, t, n, m.LastMEM) BY <1>1, <3>1
    <3> HIDE DEF got, d
    <3>3. PICK a : AllocatedAt(d, got, t, a, n, m.LastMEM) BY <3>2 DEF Allocated
    <3> QED BY <2>3, <3>3
  <2> QED BY <2>2, <2>3
<1>3. PICK a, n, L :
         /\ AllocatedAt(d, got, t, a, n, L)
         /\ IF FirstFit(m, ttl) = NULL
            THEN /\ a = m.LastMEM /\ n = ttl /\ L = m.LastMEM + HDR + ttl
                 /\ \A x \in Spare(m, Used(m)) : m.hdr[x].len < ttl
            ELSE L = m.LastMEM
  BY <1>20
<1>5. /\ a \notin U /\ Heap(got, U \cup {a}) /\ IsOwned(d, got, U, t, a)
      /\ got.hdr[a].len = n /\ got.LastMEM = L /\ \E G : Adds(d, got, G)
  BY <1>3, <1>4 DEF AllocatedAt
<1> DEFINE z == got.nz \cup Cells(got.MemTail[t] + HDR, got.hdr[got.MemTail[t]].len)
<1>6. r = [got EXCEPT !.alive[t] = TRUE, !.nz = z] BY DEF call, d
<1>7. got \in Memory BY <1>5 DEF Heap
<1>8. z \in SUBSET Addr BY <1>7, CellsAddr DEF Memory
<1> HIDE DEF got, z, r
<1>9. /\ r.hdr = got.hdr /\ r.FreeHead = got.FreeHead /\ r.FreeTail = got.FreeTail
      /\ r.LastMEM = got.LastMEM /\ r.MemHead = got.MemHead /\ r.MemTail = got.MemTail
      /\ r.MemLevel = got.MemLevel /\ r \in Memory
      /\ \A u \in Task : r.alive[u] = IF u = t THEN TRUE ELSE got.alive[u]
  BY <1>6, <1>7, <1>8 DEF Memory
<1>22. r.nz = z BY <1>6, <1>7, <1>8 DEF Memory
<1>10. Heap(r, U \cup {a}) BY <1>5, <1>9, HeapFrames
<1>11. /\ a \in DOMAIN r.hdr /\ r.hdr[a].magic = "SPLT" /\ r.hdr[a].id = t
       /\ r.hdr[a].next = NULL /\ r.hdr[a].last = Caller(m, t)
       /\ U \subseteq DOMAIN r.hdr
       /\ \A x \in U :
            /\ r.hdr[x].next = IF x = Caller(m, t) THEN a ELSE m.hdr[x].next
            /\ r.hdr[x].last = m.hdr[x].last
            /\ r.hdr[x].magic = m.hdr[x].magic /\ r.hdr[x].id = m.hdr[x].id
            /\ r.hdr[x].len = m.hdr[x].len
            /\ x # Caller(m, t) => r.hdr[x] = m.hdr[x]
       /\ r.MemHead[t] = IF m.alive[t] THEN m.MemHead[t] ELSE a
       /\ r.MemTail[t] = a
       /\ \A u \in Task : u # t => r.MemHead[u] = m.MemHead[u] /\ r.MemTail[u] = m.MemTail[u]
       /\ r.MemLevel = d.MemLevel /\ got.alive = m.alive
  <2>1. Caller(d, t) = Caller(m, t) BY <1>1 DEF Caller
  <2> HIDE DEF U
  <2> QED BY <1>1, <1>5, <1>9, <2>1 DEF IsOwned
<1>12. /\ Used(r) = U \cup {a}
       /\ OwnedBy(r, t) = F \cup {a}
       /\ \A u \in Task : u # t => OwnedBy(r, u) = OwnedBy(m, u)
  <2>1. \A x \in DOMAIN r.hdr : x \notin U \cup {a} => r.hdr[x].magic = "FREE"
    BY <1>10 DEF Heap, Spare
  <2>2. \A x \in U : x \in DOMAIN m.hdr /\ m.hdr[x].magic # "FREE" BY DEF Used, IsFree
  <2>3. \A x \in DOMAIN m.hdr : m.hdr[x].magic # "FREE" => x \in U BY DEF Used, IsFree
  <2> HIDE DEF U
  <2>4. \A x : (x \in DOMAIN r.hdr /\ r.hdr[x].magic # "FREE") <=> x \in U \cup {a}
    BY <1>11, <2>1, <2>2
  <2>5. \A x \in U : r.hdr[x].id = m.hdr[x].id BY <1>11
  <2>6. \A u \in Task : \A x : x \in OwnedBy(r, u) <=> x \in U \cup {a} /\ r.hdr[x].id = u
    BY <2>4 DEF OwnedBy, IsFree
  <2>7. \A u \in Task : \A x : x \in OwnedBy(m, u) <=> x \in U /\ m.hdr[x].id = u
    BY <2>2, <2>3 DEF OwnedBy, IsFree
  <2>8. \A u \in Task : \A x : x \in OwnedBy(r, u) <=> x \in OwnedBy(m, u) \/ (x = a /\ u = t)
    BY <1>5, <1>11, <2>5, <2>6, <2>7
  <2> QED BY <2>4, <2>8 DEF Used, IsFree
<1>13. F \subseteq U /\ F \subseteq Nat /\ a \in Nat /\ a \notin F
       /\ IsFiniteSet(F) /\ Cardinality(F) \in Nat
  <2>1. F \subseteq U /\ F \subseteq Nat /\ IsFiniteSet(F) /\ Cardinality(F) \in Nat
    BY OwnedFacts
  <2>2. a \in Nat BY <1>9, <1>11, HeadersFacts, AddrNat
  <2> QED BY <1>5, <2>1, <2>2
<1>14. Cardinality(F \cup {a}) = Cardinality(F) + 1
  BY <1>13, FS_AddElement
<1>15. TaskList(r, t, F \cup {a})
  <2> DEFINE k == Cardinality(F)
  <2>1. HasList(m.hdr, F, m.MemHead[t], m.MemTail[t], k) BY DEF InOrder, TaskList
  <2>2. /\ m.MemHead[t] = NULL <=> F = {}
        /\ m.MemTail[t] = NULL <=> F = {}
        /\ F # {} => m.alive[t] BY OwnedFacts
  <2>3. k = 0 <=> F = {} BY <1>13, FS_EmptySet
  <2>4. Caller(m, t) = m.MemTail[t] BY <2>2 DEF Caller
  <2>5. r.MemHead[t] = IF k = 0 THEN a ELSE m.MemHead[t]
    <3>1. CASE F = {}
      <4>1. ~m.alive[t] BY <2>2, <3>1 DEF CanAllocate
      <4> QED BY <1>11, <2>3, <3>1, <4>1
    <3>2. CASE F # {} BY <1>11, <2>2, <2>3, <3>2
    <3> QED BY <3>1, <3>2
  <2>6. Appends(m.hdr, r.hdr, F, m.MemTail[t], a)
    <3>1. \A x \in F : /\ r.hdr[x].next = IF x = m.MemTail[t] THEN a ELSE m.hdr[x].next
                       /\ r.hdr[x].last = m.hdr[x].last
      BY <1>11, <1>13, <2>4
    <3> QED BY <1>11, <1>13, <2>4, <3>1 DEF Appends
  <2> HIDE DEF k, F
  <2>7. HasList(r.hdr, F \cup {a}, r.MemHead[t], a, k + 1) BY <2>1, <2>5, <2>6, ListAppend
  <2>8. k + 1 = Cardinality(F \cup {a}) BY <2>7, ListCard
  <2> QED BY <1>11, <2>7, <2>8 DEF TaskList
<1>16. ASSUME NEW u \in Task PROVE TaskList(r, u, OwnedBy(r, u))
  <2>1. CASE u = t BY <1>12, <1>15, <2>1
  <2>2. CASE u # t
    <3>1. TaskList(m, u, OwnedBy(m, u)) BY DEF InOrder
    <3>2. \A x \in OwnedBy(m, u) : x \in U /\ x # Caller(m, t)
      <4>1. \A x \in OwnedBy(m, u) : x \in U /\ x \notin F /\ x \in Nat
        <5>1. OwnedBy(m, u) \subseteq Nat BY OwnedFacts
        <5> QED BY <2>2, <5>1 DEF OwnedBy, Used
      <4>2. Caller(m, t) \in F \cup {NULL}
        <5>1. m.MemTail[t] = NULL <=> F = {} BY OwnedFacts
        <5>2. F # {} => m.MemTail[t] \in F BY OwnedFacts
        <5> QED BY <5>1, <5>2 DEF Caller
      <4> QED BY <4>1, <4>2 DEF NULL
    <3>3. \A x \in OwnedBy(m, u) : r.hdr[x].next = m.hdr[x].next /\ r.hdr[x].last = m.hdr[x].last
      BY <1>11, <3>2
    <3>4. r.MemHead[u] = m.MemHead[u] /\ r.MemTail[u] = m.MemTail[u] BY <1>11, <2>2
    <3>5. TaskList(r, u, OwnedBy(m, u)) BY <3>1, <3>3, <3>4, ListSame DEF TaskList
    <3> QED BY <1>12, <2>2, <3>5
  <2> QED BY <2>1, <2>2
<1>17. ASSUME NEW u \in Task, r.MemHead[u] # NULL PROVE r.alive[u]
  <2>1. CASE u = t BY <1>9, <2>1
  <2>2. CASE u # t
    <3>1. r.MemHead[u] = m.MemHead[u] /\ r.alive[u] = m.alive[u] BY <1>9, <1>11, <2>2, ZenonT(40)
    <3> QED BY <1>17, <3>1 DEF InOrder
  <2> QED BY <2>1, <2>2
<1>18. InOrder(r) BY <1>10, <1>12, <1>16, <1>17 DEF InOrder
<1>19. Levels(m) => Levels(r)
  <2> SUFFICES ASSUME Levels(m), NEW u \in Task
               PROVE  r.MemLevel[u] = Cardinality(OwnedBy(r, u)) - 1
    BY DEF Levels
  <2>1. CASE u = t
    <3>1. m.MemLevel[t] = Cardinality(F) - 1 BY DEF Levels
    <3>2. r.MemLevel[u] = m.MemLevel[t] + 1 BY <1>1, <1>11, <2>1
    <3>3. Cardinality(OwnedBy(r, u)) = Cardinality(F) + 1 BY <1>12, <1>14, <2>1
    <3>4. Cardinality(F) \in Nat BY <1>13
    <3> HIDE DEF F
    <3> QED BY <3>1, <3>2, <3>3, <3>4
  <2>2. CASE u # t BY <1>1, <1>11, <1>12, <2>2 DEF Levels
  <2> QED BY <2>1, <2>2
<1>23. \A u \in Task : OwnedBy(m, u) \subseteq U BY DEF OwnedBy, Used
<1>24. Caller(m, t) \in F \cup {NULL}
  <2>1. m.MemTail[t] = NULL <=> F = {} BY OwnedFacts
  <2>2. F # {} => m.MemTail[t] \in F BY OwnedFacts
  <2> QED BY <2>1, <2>2 DEF Caller
<1>25. OthersKept(m, r, t)
  <2> SUFFICES ASSUME NEW u \in Task, u # t PROVE Untouched(m, r, u) BY DEF OthersKept
  <2>1. \A x \in OwnedBy(m, u) : x \in U /\ x # Caller(m, t)
    <3>1. OwnedBy(m, u) \subseteq Nat BY OwnedFacts
    <3>2. \A x \in OwnedBy(m, u) : x \notin F BY DEF OwnedBy
    <3> QED BY <1>23, <1>24, <3>1, <3>2 DEF NULL
  <2>2. \A x \in OwnedBy(m, u) : r.hdr[x] = m.hdr[x] BY <1>11, <2>1
  <2>3. /\ r.MemHead[u] = m.MemHead[u] /\ r.MemTail[u] = m.MemTail[u]
        /\ r.MemLevel[u] = m.MemLevel[u] /\ r.alive[u] = m.alive[u]
    <3>1. u # t OBVIOUS
    <3>2. r.MemHead[u] = m.MemHead[u] /\ r.MemTail[u] = m.MemTail[u] BY <1>11, <3>1
    <3>3. r.MemLevel[u] = m.MemLevel[u] BY <1>1, <1>11, <3>1
    <3>4. r.alive[u] = m.alive[u] BY <1>9, <1>11, <3>1, ZenonT(40)
    <3> QED BY <3>2, <3>3, <3>4
  <2> QED BY <1>12, <2>2, <2>3 DEF Untouched
<1>26. StaysClean(m, r)
  <2> SUFFICES ASSUME Clean(m, U) PROVE Clean(r, Used(r)) BY DEF StaysClean
  <2>1. PICK G : Adds(d, got, G) BY <1>5
  <2>2. DOMAIN r.hdr = DOMAIN m.hdr \cup G /\ got.nz = m.nz \cup HeaderCells(G)
    BY <1>1, <1>9, <2>1 DEF Adds
  <2>3. r.nz = got.nz \cup Payload(r, a) BY <1>9, <1>11, <1>22 DEF z, Payload
  <2>4. HeaderCells(DOMAIN m.hdr \cup G) = HeaderCells(DOMAIN m.hdr) \cup HeaderCells(G)
    BY DEF HeaderCells
  <2>5. PayloadCells(r, U \cup {a}) = PayloadCells(m, U) \cup Payload(r, a)
    <3>1. \A x \in U : Payload(r, x) = Payload(m, x) BY <1>11 DEF Payload
    <3> HIDE DEF U
    <3> QED BY <3>1 DEF PayloadCells
  <2>6. m.nz \cap Below(m) = HeaderCells(DOMAIN m.hdr) \cup PayloadCells(m, U) BY DEF Clean
  <2> DEFINE X == HeaderCells(DOMAIN r.hdr) \cup PayloadCells(r, Used(r))
  <2>8. X \subseteq Below(r) BY <1>10, <1>12, HeapCells
  <2>9. Below(m) \subseteq Below(r) /\ Below(r) \subseteq Below(m) \cup X
    <3>1. m.LastMEM \in Nat /\ HDR \in Nat /\ r.LastMEM = L
      BY <1>5, <1>9, HdrPositive, AddrNat DEF InOrder, Heap, Memory
    <3>2. CASE FirstFit(m, ttl) # NULL BY <1>3, <3>1, <3>2 DEF Below
    <3>3. CASE FirstFit(m, ttl) = NULL
      <4>1. a = m.LastMEM /\ n = ttl /\ L = m.LastMEM + HDR + ttl /\ r.hdr[a].len = ttl
        BY <1>3, <1>5, <1>9, <3>3
      <4>2. Below(r) = Below(m) \cup Cells(a, HDR) \cup Payload(r, a)
        BY <3>1, <4>1 DEF Below, Cells, Payload
      <4>3. Cells(a, HDR) \subseteq X /\ Payload(r, a) \subseteq X
        BY <1>11, <1>12 DEF HeaderCells, PayloadCells
      <4> HIDE DEF X
      <4> QED BY <4>2, <4>3
    <3> QED BY <3>2, <3>3
  <2>10. X = HeaderCells(DOMAIN m.hdr) \cup HeaderCells(G) \cup PayloadCells(m, U)
             \cup Payload(r, a)
    BY <1>12, <2>2, <2>4, <2>5
  <2>11. r.nz = m.nz \cup HeaderCells(G) \cup Payload(r, a) BY <2>2, <2>3
  <2> HIDE DEF X
  <2>7. r.nz \cap Below(r) = X
    BY <2>6, <2>8, <2>9, <2>10, <2>11
  <2> QED BY <2>7 DEF Clean, X
<1>27. Pushed(m, r, t)
  <2>1. r.MemTail[t] = a BY <1>11
  <2>2. r.MemHead[t] = IF F = {} THEN a ELSE m.MemHead[t]
    <3>1. m.MemTail[t] = NULL <=> F = {} BY OwnedFacts
    <3>2. F # {} => m.alive[t] BY OwnedFacts
    <3>3. CASE F = {}
      <4>1. ~m.alive[t] BY <3>1, <3>3 DEF CanAllocate
      <4> QED BY <1>11, <3>3, <4>1
    <3>4. CASE F # {} BY <1>11, <3>2, <3>4
    <3> QED BY <3>3, <3>4
  <2>3. SameRow(m, r, F, m.MemTail[t])
    <3>1. \A x \in F : x \in U /\ x # NULL BY <1>13 DEF NULL
    <3>2. \A x \in F : x # m.MemTail[t] => x # Caller(m, t) BY <3>1 DEF Caller
    <3> HIDE DEF F, U
    <3> QED BY <1>11, <3>1, <3>2 DEF SameRow
  <2>4. a \notin Used(m) /\ Used(r) = Used(m) \cup {a} BY <1>5, <1>12
  <2>5. OwnedBy(r, t) = OwnedBy(m, t) \cup {a} BY <1>12
  <2>6. PushedAt(m, r, t, a) BY <2>2, <2>3, <2>4, <2>5 DEF PushedAt
  <2> QED BY <2>1, <2>6 DEF Pushed
<1>28. Grows(m, r, t, ttl)
  <2>1. r.LastMEM = L /\ r.hdr[r.MemTail[t]].len = n BY <1>5, <1>9, <1>11
  <2> QED BY <1>3, <2>1 DEF Grows
<1>29. r.alive[t] BY <1>9
<1> QED BY <1>18, <1>19, <1>25, <1>26, <1>27, <1>28, <1>29 DEF r

\* A call that finds the free list empty takes fresh memory, exactly what it asked for.
LEMMA CallFresh ==
  ASSUME NEW m, InOrder(m), NEW t \in Task, NEW ttl \in Nat, CanAllocate(m, t, ttl),
         Spare(m, Used(m)) = {}
  PROVE  LET r == call(m, t, ttl) IN
         Spare(r, Used(r)) = {} /\ r.hdr[r.MemTail[t]].len = ttl
<1> DEFINE r == call(m, t, ttl)
<1>1. Heap(m, Used(m)) /\ m \in Memory BY DEF InOrder, Heap
<1>2. FirstFit(m, ttl) = NULL BY <1>1, FirstFitFacts
<1>3. m.FreeHead = NULL
  <2>1. HasList(m.hdr, {}, m.FreeHead, m.FreeTail, Cardinality({})) BY <1>1 DEF Heap
  <2>2. HasList(m.hdr, {}, m.FreeHead, m.FreeTail, 0) BY <2>1, FS_EmptySet
  <2> QED BY <2>2, ListEnds
<1>4. r.FreeHead = NULL
  <2>1. Deeper(m, t).FreeHead = NULL BY <1>1, <1>3 DEF Deeper, Memory
  <2>2. FirstFit(Deeper(m, t), ttl) = FirstFit(m, ttl)
    <3> DEFINE d == Deeper(m, t)
    <3>1. d.hdr = m.hdr /\ d.FreeHead = m.FreeHead BY DeeperInOrder
    <3> HIDE DEF d
    <3>2. FirstFit(d, ttl) = FirstFit(m, ttl) BY <3>1 DEF FirstFit, Walk, Hop, Hops, IsFree
    <3> QED BY <3>2 DEF d
  <2>3. Deeper(m, t) \in Memory
    <3>1. InOrder(Deeper(m, t)) BY DeeperInOrder
    <3> QED BY <3>1 DEF InOrder, Heap
  <2> DEFINE d == Deeper(m, t)
  <2> HIDE DEF d
  <2>4. findFreeMemById(d, t, ttl).FreeHead = d.FreeHead
    BY <1>2, <2>2, <2>3 DEF findFreeMemById, Own, Memory, d
  <2> QED BY <2>1, <2>4 DEF call, d
<1>5. InOrder(r) /\ Grows(m, r, t, ttl) BY CallInOrder
<1> HIDE DEF r
<1>6. Spare(r, Used(r)) = {}
  <2> DEFINE S == Spare(r, Used(r))
             k == Cardinality(S)
  <2>1. HasList(r.hdr, S, r.FreeHead, r.FreeTail, k) BY <1>5 DEF InOrder, Heap
  <2>2. S \subseteq Nat BY <1>5, HeadersFacts, AddrNat DEF InOrder, Heap, Spare
  <2> HIDE DEF S, k
  <2>3. PICK s : IsList(r.hdr, S, r.FreeHead, r.FreeTail, k, s) BY <2>1 DEF HasList
  <2>4. k # 0 => 1 \in 1 .. k /\ r.FreeHead = s[1] BY <2>3 DEF IsList
  <2>6. k # 0 => r.FreeHead \in S BY <2>3, <2>4 DEF IsList
  <2>7. k = 0 => S = {}
    <3>1. k = 0 => 1 .. k = {} OBVIOUS
    <3> QED BY <2>3, <3>1 DEF IsList
  <2>5. r.FreeHead \notin S BY <1>4, <2>2 DEF NULL
  <2> QED BY <2>5, <2>6, <2>7 DEF S
<1> QED BY <1>2, <1>5, <1>6 DEF Grows, r

\* A call that finds none leaves the heap as it was.
LEMMA NoFrameInOrder ==
  ASSUME NEW m, InOrder(m), NEW t \in Task
  PROVE  LET r == NoFrame(m, t) IN
         InOrder(r) /\ SameStore(m, r) /\ OthersKept(m, r, t) /\ r.alive[t]
<1> DEFINE d == Deeper(m, t)
           r == NoFrame(m, t)
<1>1. /\ InOrder(d) /\ d.hdr = m.hdr /\ d.LastMEM = m.LastMEM /\ d.nz = m.nz
      /\ d.MemHead = m.MemHead /\ d.MemTail = m.MemTail /\ d.alive = m.alive
      /\ \A u \in Task : u # t => d.MemLevel[u] = m.MemLevel[u]
  BY DeeperInOrder
<1> HIDE DEF d
<1>2. r = [d EXCEPT !.alive[t] = TRUE] BY DEF NoFrame, d
<1> HIDE DEF r
<1>3. /\ InOrder(r) /\ SameStore(d, r)
      /\ r.MemHead = d.MemHead /\ r.MemTail = d.MemTail /\ r.MemLevel = d.MemLevel
      /\ \A u \in Task : r.alive[u] = IF u = t THEN TRUE ELSE d.alive[u]
  BY <1>1, <1>2, AliveInOrder, ZenonT(40)
<1>4. SameStore(m, r) BY <1>1, <1>3 DEF SameStore
<1>5. OthersKept(m, r, t)
  <2>1. \A u \in Task : OwnedBy(r, u) = OwnedBy(m, u) BY <1>4, SameStoreFacts
  <2> QED BY <1>1, <1>3, <1>4, <2>1 DEF OthersKept, Untouched, SameStore
<1> QED BY <1>3, <1>4, <1>5 DEF r

-----------------------------------------------------------------------------
(***************************************************************************)
(* What a heap in order looks like from outside: the predicates that end   *)
(* ARSMemory.                                                              *)
(***************************************************************************)
\* After init_mem_info nothing is cut from the memory, and nobody owns anything.
LEMMA FreshInOrder ==
  ASSUME NEW cells, cells \subseteq Addr
  PROVE  LET m == init_mem_info(cells) IN
         /\ InOrder(m) /\ Levels(m) /\ Used(m) = {} /\ Spare(m, Used(m)) = {}
         /\ Clean(m, Used(m))
         /\ \A t \in Task : OwnedBy(m, t) = {}
<1> DEFINE m == init_mem_info(cells)
<1>1. /\ DOMAIN m.hdr = {} /\ m.FreeHead = NULL /\ m.FreeTail = NULL /\ m.LastMEM = 0
      /\ m.nz = cells
      /\ \A t \in Task : /\ m.MemHead[t] = NULL /\ m.MemTail[t] = NULL
                         /\ m.MemLevel[t] = -1
  BY DEF init_mem_info
<1>2. m \in Memory
  <2>1. 0 \in Addr /\ NULL \in Link /\ -1 \in Int BY SizesAssumption DEF Addr, Link
  <2>2. [a \in {} |-> NULL] \in UNION {[D -> Header] : D \in SUBSET Addr}
    <3>1. [a \in {} |-> NULL] \in [{} -> Header] /\ {} \in SUBSET Addr OBVIOUS
    <3> QED BY <3>1
  <2> QED BY <2>1, <2>2 DEF init_mem_info, Memory
<1> HIDE DEF m
<1>3. Used(m) = {} /\ \A t \in Task : OwnedBy(m, t) = {} BY <1>1 DEF Used, OwnedBy
<1>4. Spare(m, {}) = {} BY <1>1 DEF Spare
<1>5. Heap(m, {})
  <2>1. Tiles(DOMAIN m.hdr, EndsOf(m), m.LastMEM) BY <1>1 DEF Tiles
  <2>2. HasList(m.hdr, {}, NULL, NULL, 0) /\ Cardinality({}) = 0 BY ListEmpty, FS_EmptySet
  <2>3. Alone(m, {}) BY <1>4 DEF Alone
  <2> QED BY <1>1, <1>2, <1>4, <2>1, <2>2, <2>3 DEF Heap
<1>6. InOrder(m) BY <1>1, <1>3, <1>5, EmptyList DEF InOrder
<1>7. Levels(m) BY <1>1, <1>3, FS_EmptySet DEF Levels
<1>8. Clean(m, {})
  <2>1. Below(m) = {} BY <1>1 DEF Below, Cells
  <2> QED BY <1>1, <2>1 DEF Clean, HeaderCells, PayloadCells
<1> QED BY <1>3, <1>4, <1>6, <1>7, <1>8 DEF m

\* No byte is in two blocks, and none below LastMEM is in no block.
LEMMA OrderTiled == ASSUME NEW m, InOrder(m) PROVE Tiled(m)
<1> DEFINE B == DOMAIN m.hdr
           E == EndsOf(m)
           L == m.LastMEM
<1>1. Tiles(B, E, L) BY DEF InOrder, Heap
<1>2. \A a \in B : Ends(m, a) = E[a] BY DEF EndsOf
<1> HIDE DEF E
<1>3. Apart(m) BY <1>1, <1>2 DEF Tiles, Apart
<1>4. /\ \A a \in B : E[a] \in B \cup {L}
      /\ 0 \in B \cup {L}
      /\ \A b \in B \cup {L} : b = 0 \/ \E a \in B : E[a] = b
  BY <1>1 DEF Tiles
<1>5. {Ends(m, a) : a \in B} = {E[a] : a \in B} BY <1>2
<1>6. {E[a] : a \in B} \cup {0} = B \cup {L}
  <2> HIDE DEF B, L
  <2> QED BY <1>4
<1>7. Gapless(m) BY <1>5, <1>6 DEF Gapless
<1> QED BY <1>3, <1>7 DEF Tiled

\* A list, enumerated by some sequence, is linked block by block.
LEMMA ListLinked ==
  ASSUME NEW m, NEW S, NEW h, NEW t, NEW n, HasList(m.hdr, S, h, t, n), S \subseteq Nat
  PROVE  Linked(m, S, h, t)
<1>1. HasList(m.hdr, S, h, t, n) /\ S \subseteq Nat OBVIOUS
<1>2. n \in Nat /\ IsFiniteSet(S) /\ Cardinality(S) = n BY <1>1, ListCard
<1>3. n = 0 <=> S = {} BY <1>2, FS_EmptySet
<1>4. PICK s : IsList(m.hdr, S, h, t, n, s) BY <1>1 DEF HasList
<1>5. CASE n = 0
  <2>1. h = NULL /\ t = NULL BY <1>4, <1>5 DEF IsList
  <2> QED BY <1>3, <1>5, <2>1 DEF Linked
<1>6. CASE n # 0
  <2>1. NULL \notin S BY <1>1 DEF NULL
  <2>2. h \in S /\ t \in S
    <3>1. 1 \in 1 .. n /\ n \in 1 .. n BY <1>2, <1>6
    <3> QED BY <1>4, <1>6, <3>1 DEF IsList
  <2>3. ASSUME NEW a \in S
        PROVE  Links(m.hdr, S, h, t, a)
    BY <1>1, ListLinks
  <2> QED BY <1>3, <1>6, <2>1, <2>2, <2>3 DEF Linked, Links
<1> QED BY <1>5, <1>6

\* What is not in use is free.
LEMMA OrderSpare ==
  ASSUME NEW m, InOrder(m)
  PROVE  /\ Spare(m, Used(m)) = FreeBlocks(m) /\ DOMAIN m.hdr \ FreeBlocks(m) = Used(m)
         /\ FreeBlocks(m) \subseteq DOMAIN m.hdr /\ Listed(m) = FreeBlocks(m)
<1> DEFINE S == FreeBlocks(m)
           k == Cardinality(S)
<1>1. Spare(m, Used(m)) = S /\ DOMAIN m.hdr \ S = Used(m) BY DEF Spare, Used, FreeBlocks
<1>2. Heap(m, Used(m)) BY DEF InOrder
<1>3. HasList(m.hdr, S, m.FreeHead, m.FreeTail, k) BY <1>1, <1>2 DEF Heap
<1>4. S \subseteq DOMAIN m.hdr BY DEF FreeBlocks
<1>5. DOMAIN m.hdr \subseteq Nat /\ IsFiniteSet(DOMAIN m.hdr)
  BY <1>2, HeadersFacts, AddrNat DEF Heap
<1> HIDE DEF S, k
<1>6. Listed(m) = S BY <1>3, <1>4, <1>5, ListReached DEF Listed
<1> QED BY <1>1, <1>4, <1>6 DEF S

\* The free list is the blocks marked FREE, doubly linked.
LEMMA OrderFreeListed == ASSUME NEW m, InOrder(m) PROVE FreeListed(m)
<1> DEFINE S == FreeBlocks(m)
           k == Cardinality(S)
<1>1. Listed(m) = S /\ Spare(m, Used(m)) = S /\ S \subseteq DOMAIN m.hdr BY OrderSpare
<1>2. HasList(m.hdr, S, m.FreeHead, m.FreeTail, k) BY <1>1 DEF InOrder, Heap
<1>3. S \subseteq Nat BY <1>1, HeadersFacts, AddrNat DEF InOrder, Heap
<1> HIDE DEF S, k
<1>4. Linked(m, S, m.FreeHead, m.FreeTail) BY <1>2, <1>3, ListLinked
<1> QED BY <1>1, <1>4 DEF FreeListed, S

\* No two free blocks are neighbours.
LEMMA OrderMerged == ASSUME NEW m, InOrder(m) PROVE Merged(m)
<1>1. Spare(m, Used(m)) = FreeBlocks(m) /\ FreeBlocks(m) \subseteq DOMAIN m.hdr BY OrderSpare
<1>2. Alone(m, Used(m)) BY DEF InOrder, Heap
<1>3. \A a \in DOMAIN m.hdr : EndsOf(m)[a] = Ends(m, a) BY DEF EndsOf
<1> QED BY <1>1, <1>2, <1>3 DEF Alone, Merged

\* Each task's list is its frames, doubly linked; a task that owns one runs.
LEMMA OrderFramesListed == ASSUME NEW m, InOrder(m) PROVE FramesListed(m)
<1> SUFFICES ASSUME NEW t \in Task
             PROVE  /\ Frames(m, t) = OwnedBy(m, t)
                    /\ Linked(m, OwnedBy(m, t), m.MemHead[t], m.MemTail[t])
                    /\ OwnedBy(m, t) # {} => m.alive[t]
  BY DEF FramesListed
<1> DEFINE F == OwnedBy(m, t)
           k == Cardinality(F)
<1>1. HasList(m.hdr, F, m.MemHead[t], m.MemTail[t], k) BY DEF InOrder, TaskList
<1>2. IsFiniteSet(DOMAIN m.hdr) BY HeadersFacts DEF InOrder, Heap
<1>3. F \subseteq DOMAIN m.hdr /\ F \subseteq Nat /\ (F # {} => m.alive[t]) BY OwnedFacts
<1> HIDE DEF F, k
<1>4. Frames(m, t) = F BY <1>1, <1>2, <1>3, ListReached DEF Frames
<1>5. Linked(m, F, m.MemHead[t], m.MemTail[t]) BY <1>1, <1>3, ListLinked
<1> QED BY <1>3, <1>4, <1>5 DEF F

\* Only headers and frames hold non-zero bytes.
LEMMA CleanZeroed == ASSUME NEW m, InOrder(m), Clean(m, Used(m)) PROVE Zeroed(m)
<1> DEFINE B == DOMAIN m.hdr \ FreeBlocks(m)
<1>1. Used(m) = B BY OrderSpare
<1>2. m.nz \cap Below(m) = HeaderCells(DOMAIN m.hdr) \cup PayloadCells(m, B)
  BY <1>1 DEF Clean
<1>3. /\ HeaderCells(DOMAIN m.hdr) = UNION {Cells(a, HDR) : a \in DOMAIN m.hdr}
      /\ PayloadCells(m, B) = UNION {Payload(m, a) : a \in B}
  BY DEF HeaderCells, PayloadCells
<1> QED BY <1>2, <1>3 DEF Zeroed
=============================================================================
