-------------------------- MODULE IterationTheorems --------------------------
(***************************************************************************)
(* Facts about repeated application (module Iteration) and about functions *)
(* defined by recursion on an initial segment of Nat.  The library's       *)
(* induction theorems take an operator as a parameter; here a property of  *)
(* natural numbers is the set of the numbers that have it.                 *)
(***************************************************************************)
EXTENDS Iteration, Integers, TLAPS, WellFoundedInduction

\* Every non-empty set of natural numbers has a least element.
LEMMA LeastNat ==
  ASSUME NEW T, T \subseteq Nat, T # {}
  PROVE  \E x \in T : \A y \in T : x <= y
<1> DEFINE R == OpToRel(<, Nat)
<1>1. IsWellFoundedOn(R, Nat) BY NatLessThanWellFounded
<1> HIDE DEF R
<1>2. PICK x \in T : \A y \in T : ~(<<y, x>> \in R) BY <1>1, WFMin
<1>3. \A y \in T : ~(y < x) BY <1>2 DEF R, OpToRel
<1> QED BY <1>3, SMT

\* Induction: a set that holds 0 and is closed under successor holds Nat.
LEMMA SetInduction ==
  ASSUME NEW S, 0 \in S, \A n \in Nat : n \in S => n + 1 \in S
  PROVE  Nat \subseteq S
<1>1. SUFFICES ASSUME Nat \ S # {} PROVE FALSE OBVIOUS
<1>2. PICK x \in Nat \ S : \A y \in Nat \ S : x <= y BY <1>1, LeastNat
<1>3. x # 0 OBVIOUS
<1>4. x - 1 \in Nat /\ x - 1 \in S BY <1>2, <1>3
<1> QED BY <1>4, <1>2

Iterable(H, F, x) ==
  \E g \in [Nat -> H] : g[0] = x /\ \A n \in Nat : g[n + 1] = F[g[n]]

(***************************************************************************)
(* Iteration of F from x exists as a function on Nat.  G is the least set  *)
(* of pairs <<n, h>> that holds <<0, x>> and follows F; each n has exactly *)
(* one h in it.                                                            *)
(***************************************************************************)
LEMMA Iterates ==
  ASSUME NEW H, NEW F, NEW x \in H, \A h \in H : F[h] \in H
  PROVE  Iterable(H, F, x)
<1> DEFINE Closed(C) == /\ C \subseteq Nat \X H /\ <<0, x>> \in C
                        /\ \A n \in Nat, h \in H :
                             <<n, h>> \in C => <<n + 1, F[h]>> \in C
<1> DEFINE G == {p \in Nat \X H : \A C \in SUBSET (Nat \X H) : Closed(C) => p \in C}
<1>1. <<0, x>> \in G OBVIOUS
<1>2. ASSUME NEW n \in Nat, NEW h \in H, <<n, h>> \in G
      PROVE  <<n + 1, F[h]>> \in G
  <2>1. F[h] \in H /\ n + 1 \in Nat OBVIOUS
  <2> QED BY <1>2, <2>1
<1>3. ASSUME NEW C, Closed(C), NEW p \in G PROVE p \in C BY <1>3
<1>4. G \subseteq Nat \X H OBVIOUS
<1> HIDE DEF G
<1> DEFINE Only(n, h) == <<n, h>> \in G /\ \A k \in H : <<n, k>> \in G => k = h
<1>5. Only(0, x)
  <2> SUFFICES ASSUME NEW k \in H, <<0, k>> \in G, k # x PROVE FALSE BY <1>1
  <2> DEFINE C == G \ {<<0, k>>}
  <2>1. <<0, x>> \in C BY <1>1
  <2>2. ASSUME NEW n \in Nat, NEW h \in H, <<n, h>> \in C PROVE <<n + 1, F[h]>> \in C
    <3>1. <<n + 1, F[h]>> \in G BY <1>2, <2>2
    <3>2. n + 1 # 0 OBVIOUS
    <3> QED BY <3>1, <3>2
  <2>3. Closed(C) BY <2>1, <2>2, <1>4
  <2>4. <<0, k>> \in C
    <3> HIDE DEF Closed, C
    <3> QED BY <2>3, <1>3
  <2> QED BY <2>4
<1>6. ASSUME NEW n \in Nat, NEW h \in H, Only(n, h) PROVE Only(n + 1, F[h])
  <2>1. <<n + 1, F[h]>> \in G /\ F[h] \in H BY <1>6, <1>2
  <2> SUFFICES ASSUME NEW k \in H, <<n + 1, k>> \in G, k # F[h] PROVE FALSE BY <2>1
  <2> DEFINE C == G \ {<<n + 1, k>>}
  <2>2. <<0, x>> \in C
    <3>1. n + 1 # 0 OBVIOUS
    <3> QED BY <1>1, <3>1
  <2>3. ASSUME NEW m \in Nat, NEW j \in H, <<m, j>> \in C PROVE <<m + 1, F[j]>> \in C
    <3>1. <<m, j>> \in G /\ <<m + 1, F[j]>> \in G BY <2>3, <1>2
    <3>2. <<m + 1, F[j]>> # <<n + 1, k>>
      <4>1. CASE m = n
        <5>1. j = h BY <1>6, <3>1, <4>1
        <5> QED BY <5>1
      <4>2. CASE m # n
        <5>1. m + 1 # n + 1 BY <4>2
        <5> QED BY <5>1
      <4> QED BY <4>1, <4>2
    <3> QED BY <3>1, <3>2
  <2>4. Closed(C) BY <2>2, <2>3, <1>4
  <2>5. <<n + 1, k>> \in C
    <3> HIDE DEF Closed, C
    <3> QED BY <2>4, <1>3
  <2> QED BY <2>5
<1> HIDE DEF Closed
<1> DEFINE g == [n \in Nat |-> CHOOSE h \in H : Only(n, h)]
<1>7. \A n \in Nat : \E h \in H : Only(n, h)
  <2> DEFINE S == {n \in Nat : \E h \in H : Only(n, h)}
  <2> HIDE DEF Only
  <2>1. 0 \in S BY <1>5
  <2>2. ASSUME NEW n \in Nat, n \in S PROVE n + 1 \in S
    <3> PICK h \in H : Only(n, h) BY <2>2
    <3>1. Only(n + 1, F[h]) /\ F[h] \in H BY <1>6
    <3> QED BY <3>1
  <2> HIDE DEF S
  <2>3. Nat \subseteq S BY <2>1, <2>2, SetInduction
  <2> QED BY <2>3 DEF S
<1>8. \A n \in Nat : g[n] \in H /\ Only(n, g[n])
  <2> HIDE DEF Only
  <2> QED BY <1>7
<1>9. g \in [Nat -> H]
  <2> HIDE DEF Only
  <2> QED BY <1>8
<1> HIDE DEF g
<1>10. g[0] = x BY <1>1, <1>8
<1>11. ASSUME NEW n \in Nat PROVE g[n + 1] = F[g[n]]
  <2>1. Only(n + 1, F[g[n]]) BY <1>6, <1>8
  <2>2. n + 1 \in Nat OBVIOUS
  <2>3. <<n + 1, g[n + 1]>> \in G /\ g[n + 1] \in H BY <1>8, <2>2
  <2> QED BY <2>1, <2>3
<1> HIDE DEF Only
<1> QED BY <1>9, <1>10, <1>11 DEF Iterable

\* Iterate(F, x) is that function.
LEMMA IterateFacts ==
  ASSUME NEW H, NEW F, NEW x \in H, \A h \in H : F[h] \in H
  PROVE  /\ \A n \in Nat : Iterate(F, x)[n] \in H
         /\ Iterate(F, x)[0] = x
         /\ \A n \in Nat : Iterate(F, x)[n + 1] = F[Iterate(F, x)[n]]
<1> DEFINE P(f) == f = [n \in Nat |-> IF n = 0 THEN x ELSE F[f[n - 1]]]
<1>1. PICK g \in [Nat -> H] : g[0] = x /\ \A n \in Nat : g[n + 1] = F[g[n]]
  <2>1. Iterable(H, F, x) BY Iterates
  <2> QED BY <2>1 DEF Iterable
<1>2. P(g)
  <2>1. ASSUME NEW n \in Nat PROVE g[n] = IF n = 0 THEN x ELSE F[g[n - 1]]
    <3> SUFFICES ASSUME n # 0 PROVE g[n] = F[g[n - 1]] BY <1>1
    <3>1. n - 1 \in Nat /\ (n - 1) + 1 = n OBVIOUS
    <3> QED BY <3>1, <1>1
  <2> QED BY <2>1
<1> DEFINE f == Iterate(F, x)
<1>3. P(f)
  <2>1. f = CHOOSE e : P(e) BY DEF Iterate
  <2> HIDE DEF P, f
  <2> QED BY <1>2, <2>1
<1>4. f[0] = x BY <1>3
<1>5. \A n \in Nat : f[n + 1] = F[f[n]]
  <2> HIDE DEF f
  <2> QED BY <1>3
<1>6. \A n \in Nat : f[n] \in H
  <2> DEFINE S == {n \in Nat : f[n] \in H}
  <2> HIDE DEF f
  <2>1. 0 \in S BY <1>4
  <2>2. \A n \in Nat : n \in S => n + 1 \in S BY <1>5
  <2> HIDE DEF S
  <2>3. Nat \subseteq S BY <2>1, <2>2, SetInduction
  <2> QED BY <2>3 DEF S
<1> QED BY <1>4, <1>5, <1>6

Sequel(H, F, x) ==
  \E g \in [Nat -> H] : g[0] = x /\ \A n \in Nat : g[n + 1] = F[<<n, g[n]>>]

\* The same when the function applied depends on the step.
LEMMA Sequels ==
  ASSUME NEW H, NEW F, NEW x \in H, \A n \in Nat, h \in H : F[<<n, h>>] \in H
  PROVE  Sequel(H, F, x)
<1> DEFINE K == Nat \X H
<1> DEFINE E == [p \in K |-> <<p[1] + 1, F[<<p[1], p[2]>>]>>]
<1>1. \A p \in K : E[p] \in K OBVIOUS
<1>2. <<0, x>> \in K OBVIOUS
<1>3. Iterable(K, E, <<0, x>>)
  <2> HIDE DEF E, K
  <2> QED BY <1>1, <1>2, Iterates
<1>4. PICK e \in [Nat -> K] : e[0] = <<0, x>> /\ \A n \in Nat : e[n + 1] = E[e[n]]
  BY <1>3 DEF Iterable
<1> DEFINE S == {n \in Nat : e[n][1] = n}
<1>5. Nat \subseteq S
  <2>1. 0 \in S BY <1>4
  <2>2. ASSUME NEW n \in Nat, n \in S PROVE n + 1 \in S
    <3>1. e[n] \in K /\ e[n][1] = n BY <1>4, <2>2
    <3>2. e[n + 1] = <<n + 1, F[<<e[n][1], e[n][2]>>]>> BY <1>4, <3>1
    <3> QED BY <3>2
  <2> HIDE DEF S
  <2> QED BY <2>1, <2>2, SetInduction
<1> DEFINE g == [n \in Nat |-> e[n][2]]
<1>6. g \in [Nat -> H] BY <1>4
<1>7. g[0] = x BY <1>4
<1>8. ASSUME NEW n \in Nat PROVE g[n + 1] = F[<<n, g[n]>>]
  <2>1. e[n] \in K /\ e[n][1] = n BY <1>4, <1>5
  <2>2. e[n + 1] = <<e[n][1] + 1, F[<<e[n][1], e[n][2]>>]>> BY <1>4, <2>1
  <2> QED BY <2>1, <2>2
<1> HIDE DEF g
<1> QED BY <1>6, <1>7, <1>8 DEF Sequel

(***************************************************************************)
(* A loop of n steps from x, step k leading from T[k], a set of values the *)
(* loop variable may have before it, to T[k + 1]: there is such a sequence *)
(* of values, and every one stays in its sets.                             *)
(***************************************************************************)
Stages(n, H, B, T, x) ==
  /\ n \in Nat /\ x \in H /\ x \in T[0]
  /\ \A k \in Nat, h \in H :
       k < n /\ h \in T[k] => B[<<k, h>>] \in H /\ B[<<k, h>>] \in T[k + 1]

LEMMA StagesExist ==
  ASSUME NEW n, NEW H, NEW B, NEW T, NEW x, Stages(n, H, B, T, x)
  PROVE  \E f \in [0 .. n -> H] :
           /\ f[0] = x
           /\ \A k \in 0 .. n : f[k] \in T[k]
           /\ \A k \in 1 .. n : f[k] = B[<<k - 1, f[k - 1]>>]
<1>1. n \in Nat /\ x \in H BY DEF Stages
<1> DEFINE F == [p \in Nat \X H |-> IF B[p] \in H THEN B[p] ELSE x]
<1>2. \A k \in Nat, h \in H : F[<<k, h>>] = IF B[<<k, h>>] \in H THEN B[<<k, h>>] ELSE x
  OBVIOUS
<1>3. \A k \in Nat, h \in H : F[<<k, h>>] \in H BY <1>1, <1>2
<1> HIDE DEF F
<1>4. PICK g \in [Nat -> H] : g[0] = x /\ \A k \in Nat : g[k + 1] = F[<<k, g[k]>>]
  <2>1. Sequel(H, F, x) BY <1>1, <1>3, Sequels
  <2> QED BY <2>1 DEF Sequel
<1>5. ASSUME NEW k \in Nat, k < n, g[k] \in T[k]
      PROVE  g[k + 1] = B[<<k, g[k]>>] /\ g[k + 1] \in T[k + 1]
  <2>1. B[<<k, g[k]>>] \in H /\ B[<<k, g[k]>>] \in T[k + 1] BY <1>5 DEF Stages
  <2> QED BY <1>2, <1>4, <2>1
<1> DEFINE S == {k \in Nat : k <= n => g[k] \in T[k]}
<1>6. Nat \subseteq S
  <2>1. 0 \in S BY <1>4 DEF Stages
  <2>2. ASSUME NEW k \in Nat, k \in S PROVE k + 1 \in S
    <3> SUFFICES ASSUME k + 1 <= n PROVE g[k + 1] \in T[k + 1] OBVIOUS
    <3>1. k < n /\ g[k] \in T[k] BY <1>1, <2>2
    <3> QED BY <1>5, <3>1
  <2> HIDE DEF S
  <2> QED BY <2>1, <2>2, SetInduction
<1> DEFINE f == [k \in 0 .. n |-> g[k]]
<1>7. f \in [0 .. n -> H] /\ f[0] = x BY <1>1, <1>4
<1>8. \A k \in 0 .. n : f[k] \in T[k] BY <1>1, <1>6
<1>9. ASSUME NEW k \in 1 .. n PROVE f[k] = B[<<k - 1, f[k - 1]>>]
  <2>1. k - 1 \in Nat /\ k - 1 < n /\ (k - 1) + 1 = k /\ k - 1 \in 0 .. n /\ k \in 0 .. n
    BY <1>1
  <2>2. g[k - 1] \in T[k - 1] BY <1>6, <2>1
  <2>3. g[k] = B[<<k - 1, g[k - 1]>>] BY <1>5, <2>1, <2>2
  <2> QED BY <2>1, <2>3
<1> HIDE DEF f
<1> QED BY <1>7, <1>8, <1>9

LEMMA StagesHold ==
  ASSUME NEW n, NEW H, NEW B, NEW T, NEW x, Stages(n, H, B, T, x),
         NEW f, f[0] = x,
         \A k \in 1 .. n :
           f[k - 1] \in H /\ f[k - 1] \in T[k - 1] => f[k] = B[<<k - 1, f[k - 1]>>]
  PROVE  \A k \in 0 .. n : f[k] \in H /\ f[k] \in T[k]
<1>1. n \in Nat BY DEF Stages
<1> DEFINE S == {k \in Nat : k <= n => f[k] \in H /\ f[k] \in T[k]}
<1>2. 0 \in S BY DEF Stages
<1>3. ASSUME NEW k \in Nat, k \in S PROVE k + 1 \in S
  <2> SUFFICES ASSUME k + 1 <= n PROVE f[k + 1] \in H /\ f[k + 1] \in T[k + 1] OBVIOUS
  <2>1. k < n /\ f[k] \in H /\ f[k] \in T[k] BY <1>1, <1>3
  <2>2. k + 1 \in 1 .. n /\ (k + 1) - 1 = k BY <1>1
  <2>3. f[k + 1] = B[<<k, f[k]>>] BY <2>1, <2>2
  <2> QED BY <2>1, <2>3 DEF Stages
<1>4. Nat \subseteq S
  <2> HIDE DEF S
  <2> QED BY <1>2, <1>3, SetInduction
<1> QED BY <1>1, <1>4
=============================================================================
