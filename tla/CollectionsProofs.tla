-------------------------- MODULE CollectionsProofs --------------------------
(***************************************************************************)
(* Theorems about Collections, for any keys, members, fields and inputs.   *)
(*                                                                         *)
(* Most of them rest on what Restricted does, the filter that LREM, LTRIM  *)
(* and the properties are written with.  It is known by the enumeration of *)
(* the places that it keeps: the one strictly increasing function onto     *)
(* them.  That there is only one makes two filters comparable.             *)
(***************************************************************************)
EXTENDS Collections, SequenceTheorems, FiniteSetTheorems, WellFoundedInduction, TLAPS

(* Least numbers stand in for induction, because a theorem about every     *)
(* predicate cannot be applied to one.                                     *)
LEMMA Least ==
  ASSUME NEW N \in SUBSET Nat, NEW n \in N
  PROVE  \E u \in N : \A m \in N : u <= m
<1>1. PICK R : R = {ss \in Nat \X Nat : ss[1] < ss[2]}
  OBVIOUS
<1>2. IsWellFoundedOn(R, Nat)
  BY <1>1, NatLessThanWellFounded, Zenon DEF OpToRel
<1>3. \E u \in N : \A m \in N : ~(<<m, u>> \in R)
  <2>1. N # {}
    OBVIOUS
  <2>. QED  BY <1>2, <2>1, WFMin, Zenon
<1>4. PICK u \in N : \A m \in N : ~(m < u)
  BY <1>1, <1>3
<1>. QED  BY <1>4

(***************************************************************************)
(* Enumerations.                                                           *)
(***************************************************************************)
Enumerates(h, c, K) ==
  /\ h \in [1..c -> K]
  /\ \A i, j \in 1..c : i < j => h[i] < h[j]
  /\ \A k \in K : \E j \in 1..c : h[j] = k

(* There is one enumeration of a set.                                      *)
LEMMA EnumerationAgrees ==
  ASSUME NEW K \in SUBSET Nat, NEW c \in Nat, NEW d \in Nat, NEW h, NEW g,
         Enumerates(h, c, K), Enumerates(g, d, K), NEW j \in 1..c
  PROVE  j <= d /\ g[j] = h[j]
<1>. SUFFICES ASSUME ~(j <= d /\ g[j] = h[j]) PROVE FALSE
  OBVIOUS
<1>1. PICK N : N = {i \in 1..c : ~(i <= d /\ g[i] = h[i])}
  OBVIOUS
<1>2. N \in SUBSET Nat /\ j \in N
  BY <1>1
<1>3. PICK u \in N : \A m \in N : u <= m
  BY <1>2, Least
<1>4. u \in 1..c /\ ~(u <= d /\ g[u] = h[u])
  BY <1>1
<1>5. \A i \in 1..c : i < u => i <= d /\ g[i] = h[i]
  BY <1>1, <1>3, <1>4
<1>6. \A i \in 1..c : h[i] \in K /\ h[i] \in Nat
  BY DEF Enumerates
<1>7. \A i \in 1..d : g[i] \in K /\ g[i] \in Nat
  BY DEF Enumerates
<1>8. PICK v \in 1..d : g[v] = h[u]
  BY <1>4, <1>6 DEF Enumerates
<1>9. ~(v < u)
  <2>. SUFFICES ASSUME v < u PROVE FALSE
    OBVIOUS
  <2>1. v \in 1..c /\ g[v] = h[v]
    BY <1>4, <1>5
  <2>2. h[v] < h[u]
    BY <1>4, <2>1 DEF Enumerates
  <2>. QED  BY <1>4, <1>6, <1>8, <2>1, <2>2
<1>10. u <= d /\ u # v /\ u < v
  BY <1>4, <1>8, <1>9
<1>11. u \in 1..d /\ g[u] < h[u]
  <2>1. u \in 1..d
    BY <1>4, <1>10
  <2>. QED  BY <1>8, <1>10, <2>1 DEF Enumerates
<1>12. PICK w \in 1..c : h[w] = g[u]
  BY <1>7, <1>11 DEF Enumerates
<1>13. w < u
  <2>. SUFFICES ASSUME ~(w < u) PROVE FALSE
    OBVIOUS
  <2>1. w = u \/ u < w
    BY <1>4
  <2>2. u < w => h[u] < h[w]
    BY <1>4 DEF Enumerates
  <2>. QED  BY <1>4, <1>6, <1>11, <1>12, <2>1, <2>2
<1>14. w \in 1..d /\ g[w] = h[w]
  BY <1>5, <1>13
<1>15. g[w] < g[u]
  BY <1>11, <1>13, <1>14 DEF Enumerates
<1>. QED  BY <1>7, <1>11, <1>12, <1>14, <1>15

LEMMA OneEnumeration ==
  ASSUME NEW K \in SUBSET Nat, NEW c \in Nat, NEW d \in Nat, NEW h, NEW g,
         Enumerates(h, c, K), Enumerates(g, d, K)
  PROVE  c = d /\ h = g
<1>1. \A j \in 1..c : j <= d /\ g[j] = h[j]
  BY EnumerationAgrees
<1>2. \A j \in 1..d : j <= c
  BY EnumerationAgrees
<1>3. c = d
  <2>1. c # 0 => c \in 1..c
    OBVIOUS
  <2>2. d # 0 => d \in 1..d
    OBVIOUS
  <2>3. c <= d /\ d <= c
    BY <1>1, <1>2, <2>1, <2>2
  <2>. QED  BY <2>3
<1>. QED  BY <1>1, <1>3 DEF Enumerates

(* What is enumerated can be counted.                                      *)
LEMMA EnumerationCounts ==
  ASSUME NEW K \in SUBSET Nat, NEW c \in Nat, NEW h, Enumerates(h, c, K)
  PROVE  IsFiniteSet(K) /\ Cardinality(K) = c
<1>1. \A i, j \in 1..c : h[i] = h[j] => i = j
  <2>. SUFFICES ASSUME NEW i \in 1..c, NEW j \in 1..c, h[i] = h[j], i # j PROVE FALSE
    OBVIOUS
  <2>1. h[i] \in Nat /\ h[j] \in Nat
    BY DEF Enumerates
  <2>2. i < j \/ j < i
    OBVIOUS
  <2>. QED  BY <2>1, <2>2 DEF Enumerates
<1>2. h \in Bijection(1..c, K)
  BY <1>1 DEF Enumerates, Bijection, Injection, Surjection, IsInjective
<1>3. ExistsBijection(1..c, K)
  BY <1>2 DEF ExistsBijection
<1>4. IsFiniteSet(K)
  BY <1>3, FS_NatBijection
<1>. QED  BY <1>3, <1>4, FS_CountingElements

(* An enumeration followed by one of the indices at which it is in M.      *)
IndicesIn(h, c, M) == {j \in 1..c : h[j] \in M}
Then(h, g, d) == [j \in 1..d |-> h[g[j]]]

LEMMA EnumerationOfSome ==
  ASSUME NEW K \in SUBSET Nat, NEW c \in Nat, NEW h, NEW M, NEW d \in Nat, NEW g,
         Enumerates(h, c, K), Enumerates(g, d, IndicesIn(h, c, M))
  PROVE  Enumerates(Then(h, g, d), d, K \cap M)
<1>1. PICK x, P, J : x = Then(h, g, d) /\ P = K \cap M /\ J = IndicesIn(h, c, M)
  OBVIOUS
<1>2. \A j \in 1..d : g[j] \in 1..c /\ h[g[j]] \in M /\ x[j] = h[g[j]]
  BY <1>1 DEF Enumerates, Then, IndicesIn
<1>3. x \in [1..d -> P]
  <2>1. \A j \in 1..d : x[j] \in P
    BY <1>1, <1>2 DEF Enumerates
  <2>. QED  BY <1>1, <2>1 DEF Then
<1>4. ASSUME NEW i \in 1..d, NEW j \in 1..d, i < j
      PROVE  x[i] < x[j]
  <2>1. g[i] < g[j]
    BY <1>4 DEF Enumerates
  <2>. QED  BY <1>2, <2>1 DEF Enumerates
<1>5. ASSUME NEW k \in P
      PROVE  \E j \in 1..d : x[j] = k
  <2>1. PICK i \in 1..c : h[i] = k
    BY <1>1 DEF Enumerates
  <2>2. PICK j \in 1..d : g[j] = i
    BY <1>1, <2>1 DEF Enumerates, IndicesIn
  <2>. QED  BY <1>2, <2>1, <2>2
<1>6. Enumerates(x, d, P)
  BY <1>3, <1>4, <1>5 DEF Enumerates
<1>. QED  BY <1>1, <1>6

(* The numbers from a to b.                                                *)
LEMMA IntervalEnumeration ==
  ASSUME NEW a \in Nat, NEW b \in Int, NEW c \in Nat,
         c = IF a <= b THEN b - a + 1 ELSE 0
  PROVE  Enumerates([j \in 1..c |-> a + j - 1], c, a..b)
<1>1. PICK h : h = [j \in 1..c |-> a + j - 1]
  OBVIOUS
<1>2. \A j \in 1..c : h[j] = a + j - 1 /\ h[j] \in a..b
  BY <1>1
<1>3. h \in [1..c -> a..b]
  BY <1>1, <1>2
<1>4. \A k \in a..b : \E j \in 1..c : h[j] = k
  <2>. TAKE k \in a..b
  <2>1. PICK j \in 1..c : j = k - a + 1
    OBVIOUS
  <2>2. a + j - 1 = k
    BY <2>1
  <2>. QED  BY <1>2, <2>2
<1>5. \A i, j \in 1..c : i < j => h[i] < h[j]
  <2>. TAKE i \in 1..c, j \in 1..c
  <2>1. h[i] = a + i - 1 /\ h[j] = a + j - 1
    BY <1>2
  <2>. QED  BY <2>1
<1>. QED  BY <1>1, <1>3, <1>4, <1>5 DEF Enumerates

(***************************************************************************)
(* The filter.                                                             *)
(***************************************************************************)

(* The function that Restricted computes is there for every length.        *)
IsKept(f, q, K, n) ==
  f = [i \in 0..n |-> IF i = 0 THEN <<>>
                      ELSE IF i \in K THEN Append(f[i - 1], q[i]) ELSE f[i - 1]]

LEMMA KeptExists ==
  ASSUME NEW q, NEW K, NEW n \in Nat
  PROVE  \E f : IsKept(f, q, K, n)
<1>. SUFFICES ASSUME ~\E f : IsKept(f, q, K, n) PROVE FALSE
  OBVIOUS
<1>1. PICK N : N = {m \in Nat : ~\E f : IsKept(f, q, K, m)}
  OBVIOUS
<1>2. PICK u \in N : \A m \in N : u <= m
  BY <1>1, Least
<1>3. u \in Nat /\ ~\E f : IsKept(f, q, K, u)
  BY <1>1
<1>4. CASE u = 0
  <2>1. IsKept([i \in 0..0 |-> <<>>], q, K, 0)
    BY DEF IsKept
  <2>. QED  BY <1>3, <1>4, <2>1
<1>5. CASE u # 0
  <2>1. u - 1 \in Nat /\ u - 1 \notin N
    BY <1>2, <1>3, <1>5
  <2>2. PICK f : IsKept(f, q, K, u - 1)
    BY <1>1, <2>1
  <2>3. PICK x : x = IF u \in K THEN Append(f[u - 1], q[u]) ELSE f[u - 1]
    OBVIOUS
  <2>4. PICK g : g = [i \in 0..u |-> IF i = u THEN x ELSE f[i]]
    OBVIOUS
  <2>5. \A i \in 0..(u - 1) : g[i] = f[i] /\ i \in 0..u
    BY <1>3, <2>4
  <2>6. \A i \in 0..(u - 1) : f[i] = IF i = 0 THEN <<>>
                                     ELSE IF i \in K THEN Append(f[i - 1], q[i]) ELSE f[i - 1]
    BY <2>2 DEF IsKept
  <2>7. ASSUME NEW i \in 0..u
        PROVE  g[i] = IF i = 0 THEN <<>> ELSE IF i \in K THEN Append(g[i - 1], q[i]) ELSE g[i - 1]
    <3>1. CASE i = u
      <4>1. g[i] = x /\ i # 0 /\ i - 1 \in 0..(u - 1)
        BY <1>3, <1>5, <2>4, <3>1
      <4>2. g[i - 1] = f[u - 1]
        BY <2>5, <3>1, <4>1
      <4>. QED  BY <2>3, <3>1, <4>1, <4>2
    <3>2. CASE i # u
      <4>1. i \in 0..(u - 1) /\ (i # 0 => i - 1 \in 0..(u - 1))
        BY <1>3, <3>2
      <4>2. g[i] = f[i] /\ (i # 0 => g[i - 1] = f[i - 1])
        BY <2>5, <4>1
      <4>. QED  BY <2>6, <4>1, <4>2
    <3>. QED  BY <3>1, <3>2
  <2>8. g = [i \in 0..u |-> IF i = 0 THEN <<>>
                            ELSE IF i \in K THEN Append(g[i - 1], q[i]) ELSE g[i - 1]]
    BY <2>4, <2>7
  <2>. QED  BY <1>3, <2>8 DEF IsKept
<1>. QED  BY <1>4, <1>5

(* The elements of q at the places that h enumerates.                      *)
Picked(q, h, c) == [j \in 1..c |-> q[h[j]]]

(* One place more at the end of an enumeration.                            *)
Grown(q, K, u, c, h) ==
  \E g : /\ Enumerates(g, c + 1, K \cap (1..u))
         /\ Picked(q, g, c + 1) = Append(Picked(q, h, c), q[u])
LEMMA EnumerationGrows ==
  ASSUME NEW S, NEW q \in Seq(S), NEW K, NEW u \in 1..Len(q), u \in K,
         NEW c \in Nat, NEW h, Enumerates(h, c, K \cap (1..(u - 1)))
  PROVE  Grown(q, K, u, c, h)
<1>1. PICK g : g = [j \in 1..(c + 1) |-> IF j = c + 1 THEN u ELSE h[j]]
  OBVIOUS
<1>2. g[c + 1] = u /\ \A j \in 1..c : g[j] = h[j] /\ j \in 1..(c + 1)
  BY <1>1
<1>3. \A j \in 1..c : h[j] \in K /\ h[j] \in 1..(u - 1)
  BY DEF Enumerates
<1>4. \A j \in 1..(c + 1) : j = c + 1 \/ j \in 1..c
  OBVIOUS
<1>5. \A j \in 1..(c + 1) : g[j] \in K /\ g[j] \in 1..u
  BY <1>2, <1>3, <1>4
<1>6. g \in [1..(c + 1) -> K \cap (1..u)]
  BY <1>1, <1>5
<1>7. ASSUME NEW i \in 1..(c + 1), NEW j \in 1..(c + 1), i < j
      PROVE  g[i] < g[j]
  <2>1. i \in 1..c
    BY <1>7
  <2>2. CASE j = c + 1
    BY <1>2, <1>3, <2>1, <2>2
  <2>3. CASE j \in 1..c
    BY <1>2, <1>7, <2>1, <2>3 DEF Enumerates
  <2>. QED  BY <1>4, <2>2, <2>3
<1>8. ASSUME NEW k \in K \cap (1..u)
      PROVE  \E j \in 1..(c + 1) : g[j] = k
  <2>1. CASE k = u
    BY <1>2, <2>1
  <2>2. CASE k # u
    <3>1. k \in K \cap (1..(u - 1))
      BY <2>2
    <3>2. PICK j \in 1..c : h[j] = k
      BY <3>1 DEF Enumerates
    <3>. QED  BY <1>2, <3>2
  <2>. QED  BY <2>1, <2>2
<1>9. Enumerates(g, c + 1, K \cap (1..u))
  BY <1>6, <1>7, <1>8 DEF Enumerates
<1>10. PICK p : p = Picked(q, h, c)
  OBVIOUS
<1>11. p \in Seq(S) /\ Len(p) = c /\ \A j \in 1..c : p[j] = q[h[j]]
  <2>1. \A j \in 1..c : q[h[j]] \in S
    BY <1>3
  <2>. QED  BY <1>10, <2>1 DEF Picked
<1>12. PICK r : r = Picked(q, g, c + 1)
  OBVIOUS
<1>13. r \in Seq(S) /\ Len(r) = c + 1 /\ \A j \in 1..(c + 1) : r[j] = q[g[j]]
  <2>1. \A j \in 1..(c + 1) : q[g[j]] \in S
    BY <1>5
  <2>. QED  BY <1>12, <2>1 DEF Picked
<1>14. PICK a : a = Append(p, q[u])
  OBVIOUS
<1>15. /\ a \in Seq(S) /\ Len(a) = c + 1 /\ a[c + 1] = q[u]
       /\ \A j \in 1..c : a[j] = p[j]
  BY <1>11, <1>14, AppendProperties
<1>16. ASSUME NEW j \in 1..(c + 1)
       PROVE  r[j] = a[j]
  <2>1. CASE j = c + 1
    BY <1>2, <1>13, <1>15, <2>1
  <2>2. CASE j \in 1..c
    <3>1. r[j] = q[g[j]] /\ g[j] = h[j]
      BY <1>2, <1>13, <2>2
    <3>2. a[j] = q[h[j]]
      BY <1>11, <1>15, <2>2
    <3>. QED  BY <3>1, <3>2
  <2>. QED  BY <1>4, <2>1, <2>2
<1>17. r = a
  BY <1>13, <1>15, <1>16, SeqEqual
<1>. QED  BY <1>9, <1>10, <1>12, <1>14, <1>17 DEF Grown

(* Restricted picks the elements at the places that it is to keep.         *)
LEMMA RestrictedPicks ==
  ASSUME NEW S, NEW q \in Seq(S), NEW K \in SUBSET (1..Len(q))
  PROVE  \E c \in Nat : \E h : Enumerates(h, c, K) /\ Restricted(q, K) = Picked(q, h, c)
<1>1. PICK n \in Nat : n = Len(q)
  OBVIOUS
<1>2. PICK f : f = CHOOSE g : IsKept(g, q, K, n)
  OBVIOUS
<1>3. IsKept(f, q, K, n)
  BY <1>2, KeptExists
<1>4. Restricted(q, K) = f[n]
  BY <1>1, <1>2 DEF Restricted, IsKept
<1>5. \A i \in 0..n : f[i] = IF i = 0 THEN <<>>
                             ELSE IF i \in K THEN Append(f[i - 1], q[i]) ELSE f[i - 1]
  BY <1>3 DEF IsKept
<1>6. PICK N : N = {m \in 0..n : ~\E c \in Nat : \E h : /\ Enumerates(h, c, K \cap (1..m))
                                                        /\ f[m] = Picked(q, h, c)}
  OBVIOUS
<1>7. N = {}
  <2>. SUFFICES ASSUME NEW m \in N PROVE FALSE
    OBVIOUS
  <2>1. N \in SUBSET Nat
    BY <1>6
  <2>2. PICK u \in N : \A v \in N : u <= v
    BY <2>1, Least
  <2>3. /\ u \in 0..n
        /\ ~\E c \in Nat : \E h : Enumerates(h, c, K \cap (1..u)) /\ f[u] = Picked(q, h, c)
    BY <1>6
  <2>4. u # 0
    <3>. SUFFICES ASSUME u = 0 PROVE FALSE
      OBVIOUS
    <3>1. PICK h : h = [j \in 1..0 |-> 0]
      OBVIOUS
    <3>2. Enumerates(h, 0, K \cap (1..0))
      BY <3>1 DEF Enumerates
    <3>3. f[0] = <<>>
      BY <1>5
    <3>4. Picked(q, h, 0) = <<>>
      BY DEF Picked
    <3>. QED  BY <2>3, <3>2, <3>3, <3>4
  <2>5. u - 1 \in 0..n /\ u - 1 \notin N /\ u \in 1..Len(q)
    BY <1>1, <2>2, <2>3, <2>4
  <2>6. PICK c, h : c \in Nat /\ Enumerates(h, c, K \cap (1..(u - 1))) /\ f[u - 1] = Picked(q, h, c)
    BY <1>6, <2>5
  <2>7. CASE u \in K
    <3>1. f[u] = Append(Picked(q, h, c), q[u])
      BY <1>5, <2>3, <2>4, <2>6, <2>7
    <3>2. PICK g : /\ Enumerates(g, c + 1, K \cap (1..u))
                   /\ Picked(q, g, c + 1) = Append(Picked(q, h, c), q[u])
      <4>1. Enumerates(h, c, K \cap (1..(u - 1))) /\ u \in 1..Len(q) /\ u \in K
        BY <2>5, <2>6, <2>7
      <4>2. Grown(q, K, u, c, h)
        BY <2>6, <4>1, EnumerationGrows
      <4>. QED  BY <4>2 DEF Grown
    <3>3. c + 1 \in Nat /\ f[u] = Picked(q, g, c + 1)
      BY <2>6, <3>1, <3>2
    <3>. QED  BY <2>3, <3>2, <3>3
  <2>8. CASE u \notin K
    <3>1. f[u] = f[u - 1]
      BY <1>5, <2>3, <2>4, <2>8
    <3>2. K \cap (1..u) = K \cap (1..(u - 1))
      BY <2>3, <2>8
    <3>. QED  BY <2>3, <2>6, <3>1, <3>2
  <2>. QED  BY <2>7, <2>8
<1>8. PICK c, h : c \in Nat /\ Enumerates(h, c, K \cap (1..n)) /\ f[n] = Picked(q, h, c)
  <2>1. n \in 0..n /\ n \notin N
    BY <1>7
  <2>. QED  BY <1>6, <2>1
<1>9. K \cap (1..n) = K
  BY <1>1
<1>. QED  BY <1>4, <1>8, <1>9

(* ... whichever way they are enumerated.                                  *)
IsPicked(r, S, q, h, c) ==
  /\ r = Picked(q, h, c)
  /\ r \in Seq(S) /\ Len(r) = c
  /\ \A j \in 1..c : r[j] = q[h[j]]

LEMMA RestrictedIs ==
  ASSUME NEW S, NEW q \in Seq(S), NEW K \in SUBSET (1..Len(q)),
         NEW c \in Nat, NEW h, Enumerates(h, c, K)
  PROVE  IsPicked(Restricted(q, K), S, q, h, c)
<1>1. PICK d, g : d \in Nat /\ Enumerates(g, d, K) /\ Restricted(q, K) = Picked(q, g, d)
  BY RestrictedPicks
<1>2. K \in SUBSET Nat
  OBVIOUS
<1>3. c = d /\ h = g
  BY <1>1, <1>2, OneEnumeration
<1>4. ASSUME NEW j \in 1..c
      PROVE  q[h[j]] \in S
  <2>1. h[j] \in 1..Len(q)
    BY DEF Enumerates
  <2>. QED  BY <2>1, ElementOfSeq
<1>5. PICK r : r = Picked(q, h, c)
  OBVIOUS
<1>6. r \in Seq(S) /\ Len(r) = c /\ \A j \in 1..c : r[j] = q[h[j]]
  BY <1>4, <1>5 DEF Picked
<1>. QED  BY <1>1, <1>3, <1>5, <1>6 DEF IsPicked

LEMMA EnumerationExists ==
  ASSUME NEW n \in Nat, NEW K \in SUBSET (1..n)
  PROVE  \E c \in Nat : \E h : Enumerates(h, c, K)
<1>1. PICK q : q = [i \in 1..n |-> i]
  OBVIOUS
<1>2. q \in Seq(Nat) /\ Len(q) = n
  BY <1>1
<1>3. K \in SUBSET (1..Len(q))
  BY <1>2
<1>4. \E c \in Nat : \E h : Enumerates(h, c, K) /\ Restricted(q, K) = Picked(q, h, c)
  BY <1>2, <1>3, RestrictedPicks
<1>. QED  BY <1>4

LEMMA RestrictedCounts ==
  ASSUME NEW S, NEW q \in Seq(S), NEW K \in SUBSET (1..Len(q))
  PROVE  /\ Restricted(q, K) \in Seq(S)
         /\ IsFiniteSet(K) /\ Len(Restricted(q, K)) = Cardinality(K)
<1>1. PICK c, h : c \in Nat /\ Enumerates(h, c, K)
  BY RestrictedPicks
<1>2. Restricted(q, K) \in Seq(S) /\ Len(Restricted(q, K)) = c
  BY <1>1, RestrictedIs DEF IsPicked
<1>3. K \in SUBSET Nat
  OBVIOUS
<1>. QED  BY <1>1, <1>2, <1>3, EnumerationCounts

(* To keep an interval is to take a subsequence.                           *)
LEMMA RestrictedToInterval ==
  ASSUME NEW S, NEW q \in Seq(S), NEW a \in Nat \ {0}, NEW b \in Int, b <= Len(q)
  PROVE  Restricted(q, a..b) = SubSeq(q, a, b)
<1>1. PICK c \in Nat : c = IF a <= b THEN b - a + 1 ELSE 0
  <2>1. PICK c : c = IF a <= b THEN b - a + 1 ELSE 0
    OBVIOUS
  <2>2. c \in Nat
    BY <2>1
  <2>. QED  BY <2>1, <2>2
<1>2. PICK h : h = [j \in 1..c |-> a + j - 1]
  OBVIOUS
<1>3. Enumerates(h, c, a..b)
  BY <1>1, <1>2, IntervalEnumeration
<1>4. a..b \in SUBSET (1..Len(q))
  <2>1. Len(q) \in Nat
    OBVIOUS
  <2>2. \A i \in a..b : i \in 1..Len(q)
    BY <2>1
  <2>. QED  BY <2>2
<1>5. PICK r : r = Restricted(q, a..b)
  OBVIOUS
<1>6. r \in Seq(S) /\ Len(r) = c /\ \A j \in 1..c : r[j] = q[h[j]]
  BY <1>3, <1>4, <1>5, RestrictedIs DEF IsPicked
<1>7. PICK s : s = SubSeq(q, a, b)
  OBVIOUS
<1>8. s \in Seq(S) /\ Len(s) = c /\ \A j \in 1..c : s[j] = q[a + j - 1]
  BY <1>1, <1>7, SubSeqProperties
<1>9. \A j \in 1..c : r[j] = s[j]
  BY <1>2, <1>6, <1>8
<1>10. r = s
  BY <1>6, <1>8, <1>9, SeqEqual
<1>. QED  BY <1>5, <1>7, <1>10

(* To keep some of what was kept is to keep those among the first.         *)
Holding(q, K, V) == {i \in K : q[i] \in V}

LEMMA RestrictedTwice ==
  ASSUME NEW S, NEW q \in Seq(S), NEW K \in SUBSET (1..Len(q)), NEW V,
         NEW r, r = Restricted(q, K)
  PROVE  Restricted(r, Holding(r, 1..Len(r), V)) = Restricted(q, Holding(q, K, V))
<1>1. PICK c, h : c \in Nat /\ Enumerates(h, c, K)
  BY RestrictedPicks
<1>2. r \in Seq(S) /\ Len(r) = c /\ \A j \in 1..c : r[j] = q[h[j]]
  BY <1>1, RestrictedIs DEF IsPicked
<1>3. PICK J : J = {j \in 1..c : r[j] \in V}
  OBVIOUS
<1>4. PICK M : M = {i \in 1..Len(q) : q[i] \in V}
  OBVIOUS
<1>5. J = IndicesIn(h, c, M)
  BY <1>1, <1>2, <1>3, <1>4 DEF Enumerates, IndicesIn
<1>6. J \in SUBSET (1..c)
  BY <1>3
<1>7. PICK d, g : d \in Nat /\ Enumerates(g, d, J)
  BY <1>1, <1>6, EnumerationExists
<1>8. Restricted(r, J) = Picked(r, g, d)
  BY <1>2, <1>6, <1>7, RestrictedIs DEF IsPicked
<1>9. PICK P : P = K \cap M
  OBVIOUS
<1>10. PICK x : Enumerates(x, d, P) /\ x = Then(h, g, d)
  <2>1. K \in SUBSET Nat
    OBVIOUS
  <2>2. Enumerates(h, c, K) /\ Enumerates(g, d, J)
    BY <1>1, <1>7
  <2>3. Enumerates(Then(h, g, d), d, K \cap M)
    BY <1>1, <1>5, <1>7, <2>1, <2>2, EnumerationOfSome
  <2>. QED  BY <1>9, <2>3
<1>11. P \in SUBSET (1..Len(q))
  BY <1>9
<1>12. Restricted(q, P) = Picked(q, x, d)
  BY <1>7, <1>10, <1>11, RestrictedIs DEF IsPicked
<1>13. Picked(r, g, d) = Picked(q, x, d)
  <2>1. \A j \in 1..d : g[j] \in 1..c
    BY <1>6, <1>7 DEF Enumerates
  <2>2. \A j \in 1..d : r[g[j]] = q[x[j]]
    BY <1>2, <1>10, <2>1 DEF Then
  <2>. QED  BY <2>2 DEF Picked
<1>14. P = Holding(q, K, V)
  BY <1>4, <1>9 DEF Holding
<1>15. J = Holding(r, 1..Len(r), V)
  BY <1>2, <1>3 DEF Holding
<1>. QED  BY <1>8, <1>12, <1>13, <1>14, <1>15

(***************************************************************************)
(* Ranges of a list.                                                       *)
(***************************************************************************)

(* Array.slice from a position that is held at the front reads what lies   *)
(* between the two positions.                                              *)
LEMMA SliceIsBetween ==
  ASSUME NEW q \in Seq(Members), NEW first \in Int, NEW last \in Int, FromFront(q, last) >= -1
  PROVE  /\ Slice(q, Higher(FromFront(q, first), 0), FromFront(q, last) + 1) = Between(q, first, last)
         /\ Between(q, first, last) \in Seq(Members)
<1>1. PICK n \in Nat : n = Len(q)
  OBVIOUS
<1>2. PICK f \in Int, l \in Int : f = FromFront(q, first) /\ l = FromFront(q, last) /\ l >= -1
  BY DEF FromFront
<1>3. PICK a \in Nat \ {0}, b \in Nat : /\ a = (IF f < 0 THEN 0 ELSE IF f < n THEN f ELSE n) + 1
                                        /\ b = IF l + 1 < n THEN l + 1 ELSE n
  BY <1>1, <1>2
<1>4. Slice(q, Higher(f, 0), l + 1) = SubSeq(q, a, b)
  <2>1. Place(q, Higher(f, 0)) = a - 1
    BY <1>1, <1>2, <1>3 DEF Place, Higher, Lower
  <2>2. Place(q, l + 1) = b
    BY <1>1, <1>2, <1>3 DEF Place, Higher, Lower
  <2>3. a - 1 + 1 = a
    BY <1>3
  <2>. QED  BY ONLY <2>1, <2>2, <2>3 DEF Slice
<1>5. {i \in 1..n : f <= i - 1 /\ i - 1 <= l} = a..b
  <2>1. ASSUME NEW i \in Int
        PROVE  (i \in 1..n /\ f <= i - 1 /\ i - 1 <= l) <=> i \in a..b
    <3>1. f <= i - 1 /\ i \in 1..n <=> a <= i /\ i \in 1..n
      BY <1>2, <1>3
    <3>2. i - 1 <= l /\ i \in 1..n <=> i <= b /\ i \in 1..n
      BY <1>2, <1>3
    <3>3. i \in a..b => i \in 1..n
      BY <1>1, <1>3
    <3>. QED  BY <3>1, <3>2, <3>3
  <2>2. PICK D : D = {i \in 1..n : f <= i - 1 /\ i - 1 <= l}
    OBVIOUS
  <2>3. ASSUME NEW i \in D
        PROVE  i \in a..b
    <3>1. i \in 1..n /\ f <= i - 1 /\ i - 1 <= l
      BY <2>2
    <3>2. i \in Int
      BY <3>1
    <3>. QED  BY <2>1, <3>1, <3>2
  <2>4. ASSUME NEW i \in a..b
        PROVE  i \in D
    <3>1. i \in Int
      OBVIOUS
    <3>2. i \in 1..n /\ f <= i - 1 /\ i - 1 <= l
      BY <2>1, <3>1
    <3>. QED  BY <2>2, <3>2
  <2>5. D = a..b
    BY <2>3, <2>4
  <2>. QED  BY <2>2, <2>5
<1>6. Restricted(q, a..b) = SubSeq(q, a, b) /\ Restricted(q, a..b) \in Seq(Members)
  <2>1. b \in Int /\ b <= Len(q) /\ a..b \in SUBSET (1..Len(q))
    BY <1>1, <1>3
  <2>. QED  BY <2>1, RestrictedToInterval, RestrictedCounts
<1>7. Between(q, first, last) = Restricted(q, a..b)
  BY <1>1, <1>2, <1>5 DEF Between
<1>. QED  BY <1>2, <1>4, <1>6, <1>7

(***************************************************************************)
(* Items and replies.                                                      *)
(***************************************************************************)
LEMMA RepliesDiffer ==
  ASSUME NEW m, NEW n
  PROVE  /\ Integer(m) \notin {Error, NoReply} /\ Array(m) \notin {Error, NoReply}
         /\ Bulk(m) \notin {Error, NoReply} /\ Ok \notin {Error, NoReply} /\ Nil \notin {Error, NoReply}
         /\ Integer(m) = Integer(n) => m = n
         /\ Integer(m) # Ok /\ Integer(m) # Nil /\ Integer(m) # Error /\ Integer(m) # NoReply
         /\ Integer(m) # Array(n) /\ Integer(m) # Bulk(n)
<1>1. Integer(m)[1] = "integer" /\ Integer(m)[2] = m
  BY DEF Integer
<1>2. Integer(n)[2] = n
  BY DEF Integer
<1>3. Array(m)[1] = "array"
  BY DEF Array
<1>4. Bulk(m)[1] = "string"
  BY DEF Bulk
<1>5. Array(n)[1] = "array"
  BY DEF Array
<1>6. Bulk(n)[1] = "string"
  BY DEF Bulk
<1>7. Ok[1] = "status" /\ Nil[1] = "nil" /\ Error[1] = "error" /\ NoReply[1] = "none"
  BY DEF Ok, Nil, Error, NoReply
<1>. QED  BY <1>1, <1>2, <1>3, <1>4, <1>5, <1>6, <1>7

LEMMA ItemIs ==
  ASSUME NEW x \in Items
  PROVE  /\ x # Absent /\ x.volatile \in BOOLEAN /\ x.type \in {"string", "set", "list", "hash"}
         /\ x.type = "string" => x.value = Blob
         /\ x.type = "set" => x.value \in SUBSET AllMembers
         /\ x.type = "list" => x.value \in Seq(Members)
         /\ x.type = "hash" => x.value \in Hashes
         /\ x = [type |-> x.type, value |-> x.value, volatile |-> x.volatile]
<1>1. x # Absent
  BY AbsentAssumption
<1>2. CASE x \in [type : {"string"}, value : {Blob}, volatile : BOOLEAN]
  BY <1>1, <1>2
<1>3. CASE x \in [type : {"set"}, value : SUBSET AllMembers, volatile : BOOLEAN]
  BY <1>1, <1>3
<1>4. CASE x \in [type : {"list"}, value : Seq(Members), volatile : BOOLEAN]
  BY <1>1, <1>4
<1>5. CASE x \in [type : {"hash"}, value : Hashes, volatile : BOOLEAN]
  BY <1>1, <1>5
<1>. QED  BY <1>2, <1>3, <1>4, <1>5 DEF Items

(* An item that the invariant allows.                                      *)
Good(x) ==
  /\ x \in Items \cup {Absent}
  /\ x # Absent /\ x.type = "list" => x.value # <<>>

Fits(type, v) ==
  \/ type = "string" /\ v = Blob
  \/ type = "set" /\ v \in SUBSET AllMembers
  \/ type = "list" /\ v \in Seq(Members) /\ v # <<>>
  \/ type = "hash" /\ v \in Hashes

IsFresh(x, type, v) == Good(x) /\ x # Absent /\ x.type = type /\ x.value = v

LEMMA FreshIsGood ==
  ASSUME NEW v, NEW type, Fits(type, v)
  PROVE  IsFresh(Fresh(type, v), type, v)
<1>1. PICK x : x = Fresh(type, v)
  OBVIOUS
<1>2. x.type = type /\ x.value = v /\ x.volatile = FALSE
  BY <1>1 DEF Fresh
<1>3. x \in Items
  BY <1>1 DEF Fits, Fresh, Items
<1>4. x # Absent
  BY <1>3, AbsentAssumption
<1>. QED  BY <1>1, <1>2, <1>3, <1>4 DEF Good, Fits, IsFresh

LEMMA FreshSet ==
  ASSUME NEW V \in SUBSET AllMembers
  PROVE  /\ Good(Fresh("set", V)) /\ Fresh("set", V) # Absent
         /\ Fresh("set", V).type = "set" /\ Fresh("set", V).value = V
<1>1. Fits("set", V)
  BY DEF Fits
<1>2. IsFresh(Fresh("set", V), "set", V)
  BY <1>1, FreshIsGood
<1>. QED  BY <1>2 DEF IsFresh

LEMMA PutBackIsGood ==
  ASSUME NEW x \in Items, NEW v, x.type # "string", Fits(x.type, v)
  PROVE  /\ Good([x EXCEPT !.value = v]) /\ [x EXCEPT !.value = v] # Absent
         /\ [x EXCEPT !.value = v].type = x.type /\ [x EXCEPT !.value = v].value = v
         /\ [x EXCEPT !.value = v].volatile = x.volatile
<1>1. PICK t, w, b : x = [type |-> t, value |-> w, volatile |-> b] /\ b \in BOOLEAN
  BY ItemIs
<1>2. PICK y : y = [type |-> t, value |-> v, volatile |-> b]
  OBVIOUS
<1>3. [x EXCEPT !.value = v] = y
  BY <1>1, <1>2
<1>4. y.type = x.type /\ y.value = v /\ y.volatile = x.volatile
  BY <1>1, <1>2
<1>5. y \in Items
  <2>1. t = x.type
    BY <1>1
  <2>. QED  BY <1>1, <1>2, <2>1 DEF Items, Fits
<1>6. y # Absent
  BY <1>5, AbsentAssumption
<1>7. Good(y)
  BY <1>4, <1>5 DEF Good, Fits
<1>. QED  BY <1>3, <1>4, <1>6, <1>7

(* What the accessors of a key's value give.                               *)
LEMMA ContentIs ==
  ASSUME NoListIsEmpty, NEW k \in Keys
  PROVE  /\ Good(db[k])
         /\ Usable(k, "set") => SetAt(k) \in SUBSET AllMembers /\ SetAt(k) = SetIn(db, k)
         /\ Is(k, "list") => ListAt(k) \in Seq(Members) /\ ListAt(k) # <<>> /\ ListAt(k) = ListIn(db, k)
         /\ Usable(k, "hash") => HashAt(k) \in Hashes /\ HashAt(k) = HashIn(db, k)
<1>1. PICK x : x = db[k]
  OBVIOUS
<1>2. x \in Items \cup {Absent} /\ Good(x)
  BY <1>1 DEF NoListIsEmpty, TypeOK, Good, Is
<1>3. <<>> \in Hashes
  <2>1. <<>> \in [{} -> Values]
    OBVIOUS
  <2>2. {} \in SUBSET Fields
    OBVIOUS
  <2>. QED  BY <2>1, <2>2 DEF Hashes
<1>4. CASE x = Absent
  BY <1>1, <1>2, <1>3, <1>4
     DEF Usable, Is, SetAt, ListAt, HashAt, Content, SetIn, ListIn, HashIn
<1>5. CASE x \in Items
  <2>1. /\ x # Absent
        /\ x.type = "set" => x.value \in SUBSET AllMembers
        /\ x.type = "list" => x.value \in Seq(Members)
        /\ x.type = "hash" => x.value \in Hashes
    BY <1>5, ItemIs
  <2>. QED  BY <1>1, <1>2, <2>1
            DEF Good, Usable, Is, SetAt, ListAt, HashAt, Content, SetIn, ListIn, HashIn
<1>. QED  BY <1>2, <1>4, <1>5

(***************************************************************************)
(* LINDEX and LRANGE.                                                      *)
(***************************************************************************)
LEMMA LIndexIsExact ==
  ASSUME NoListIsEmpty, NEW k \in Keys, Is(k, "list"), NEW n \in Indices,
         <<Len(ListAt(k)), n>> # <<1, -1>>
  PROVE  LIndex(k, n) = IF FromFront(ListAt(k), n) + 1 \in 1..Len(ListAt(k))
                        THEN Bulk(ListAt(k)[FromFront(ListAt(k), n) + 1]) ELSE Nil
<1>1. PICK q \in Seq(Members) : q = ListAt(k) /\ q # <<>>
  BY ContentIs
<1>2. PICK l \in Nat : l = Len(q) /\ l > 0
  BY <1>1
<1>3. n \in Int /\ n # Malformed
  BY InputAssumption
<1>4. ~(l = 1 /\ n = -1)
  BY <1>1, <1>2
<1>5. PICK e \in Int : e = IF n < 0 /\ Abs(n) < l THEN l + 1 + n ELSE n + 1
  <2>1. PICK e : e = IF n < 0 /\ Abs(n) < l THEN l + 1 + n ELSE n + 1
    OBVIOUS
  <2>2. e \in Int
    BY <1>2, <1>3, <2>1
  <2>. QED  BY <2>1, <2>2
<1>6. PICK at \in Int : at = FromFront(q, n) + 1 /\ at = IF n < 0 THEN l + n + 1 ELSE n + 1
  BY <1>2, <1>3 DEF FromFront
<1>7. PICK a \in Int, b \in Int : /\ a = Place(q, n) + 1 /\ b = Place(q, e)
                                  /\ a = (IF n < 0 THEN IF l + n > 0 THEN l + n ELSE 0
                                          ELSE IF n < l THEN n ELSE l) + 1
                                  /\ b = IF e < 0 THEN IF l + e > 0 THEN l + e ELSE 0
                                         ELSE IF e < l THEN e ELSE l
  <2>1. Place(q, n) = IF n < 0 THEN IF l + n > 0 THEN l + n ELSE 0
                      ELSE IF n < l THEN n ELSE l
    BY <1>2, <1>3 DEF Place, Higher, Lower
  <2>2. Place(q, e) = IF e < 0 THEN IF l + e > 0 THEN l + e ELSE 0
                      ELSE IF e < l THEN e ELSE l
    BY <1>2, <1>5 DEF Place, Higher, Lower
  <2>3. Place(q, n) + 1 \in Int /\ Place(q, e) \in Int
    BY <1>2, <1>3, <1>5, <2>1, <2>2
  <2>. QED  BY <2>1, <2>2, <2>3
<1>8. at \in 1..l => a = at /\ b = at
  BY <1>2, <1>3, <1>4, <1>5, <1>6, <1>7 DEF Abs
<1>9. at \notin 1..l => b < a
  BY <1>2, <1>3, <1>4, <1>5, <1>6, <1>7 DEF Abs
<1>10. PICK found : found = SubSeq(q, a, b)
  OBVIOUS
<1>11. LIndex(k, n) = IF found = <<>> THEN Nil ELSE Bulk(found[1])
  <2>1. Slice(q, n, e) = found
    BY <1>7, <1>10 DEF Slice
  <2>. QED  BY <1>1, <1>2, <1>3, <1>5, <2>1 DEF LIndex, Is
<1>12. CASE at \in 1..l
  <2>1. found = SubSeq(q, at, at)
    BY <1>8, <1>10, <1>12
  <2>2. found # <<>> /\ found[1] = q[at]
    <3>1. at \in 1..Len(q)
      BY <1>2, <1>12
    <3>2. Len(found) = 1 /\ found[1] = q[at]
      BY <2>1, <3>1, SubSeqProperties
    <3>3. found # <<>>
      <4>. SUFFICES ASSUME found = <<>> PROVE FALSE
        OBVIOUS
      <4>1. Len(found) = 0
        BY EmptySeq
      <4>. QED  BY <3>2, <4>1
    <3>. QED  BY <3>2, <3>3
  <2>. QED  BY <1>1, <1>2, <1>6, <1>11, <1>12, <2>2
<1>13. CASE at \notin 1..l
  <2>1. found = <<>>
    BY <1>7, <1>9, <1>10, <1>13
  <2>. QED  BY <1>1, <1>2, <1>6, <1>11, <1>13, <2>1
<1>. QED  BY <1>12, <1>13

LEMMA LRangeIsExact ==
  ASSUME NoListIsEmpty, NEW k \in Keys, Is(k, "list"), NEW n \in Indices, NEW m \in Indices,
         m >= -Len(ListAt(k))
  PROVE  LRange(k, n, m) = Array(Between(ListAt(k), n, m))
<1>1. PICK q \in Seq(Members) : q = ListAt(k)
  BY ContentIs
<1>2. n \in Int /\ m \in Int /\ Malformed \notin {n, m}
  BY InputAssumption
<1>3. FromFront(q, m) \in Int /\ FromFront(q, m) >= 0
  BY <1>1, <1>2 DEF FromFront
<1>4. Higher(FromFront(q, m), 0) = FromFront(q, m)
  BY <1>3 DEF Higher
<1>5. Slice(q, Higher(FromFront(q, n), 0), FromFront(q, m) + 1) = Between(q, n, m)
  BY <1>2, <1>3, SliceIsBetween
<1>6. LRange(k, n, m) = Array(Slice(q, Higher(FromFront(q, n), 0), Higher(FromFront(q, m), 0) + 1))
  BY <1>1, <1>2 DEF LRange, Usable, Is
<1>. QED  BY <1>1, <1>4, <1>5, <1>6

LEMMA ListReads == NoListIsEmpty => ListReadsAreExact
<1>. SUFFICES ASSUME NoListIsEmpty, NEW k \in Keys, Is(k, "list"),
                     NEW n \in Indices, NEW m \in Indices
              PROVE  /\ <<Len(ListAt(k)), n>> # <<1, -1>> =>
                          LIndex(k, n) = IF FromFront(ListAt(k), n) + 1 \in 1..Len(ListAt(k))
                                         THEN Bulk(ListAt(k)[FromFront(ListAt(k), n) + 1]) ELSE Nil
                     /\ m >= -Len(ListAt(k)) => LRange(k, n, m) = Array(Between(ListAt(k), n, m))
  BY DEF ListReadsAreExact
<1>. QED  BY LIndexIsExact, LRangeIsExact

(***************************************************************************)
(* What the properties say of one step, command by command.                *)
(***************************************************************************)

(* Of a reply that is the number n.                                        *)
Tells(command, k, args, n) ==
  LET old == SetIn(db, k)
      new == SetIn(db', k)
  IN /\ command = "sadd" => new = old \cup args /\ Cardinality(new) = Cardinality(old) + n
     /\ command = "srem" => new = old \ args /\ Cardinality(new) = Cardinality(old) - n
     /\ command = "smove" => SMoveTold(k, args, n, db, db')
     /\ command = "lrem" => Len(ListIn(db', k)) = Len(ListIn(db, k)) - n
     /\ command = "hset" => HsetTold(HashIn(db, k), HashIn(db', k), n)

(* Of the list that the key had.                                           *)
Edits(command, k, args) ==
  LET old == ListIn(db, k)
      new == ListIn(db', k)
  IN /\ command = "ltrim" => TrimmedExactly(old, new, args)
     /\ command = "lset" => ReplacedExactly(old, new, args)
     /\ command = "lrem" => RemovedExactly(old, new, args)

(* Of the deadline that the item old had, if the key has new afterwards.   *)
RenewingCommands == Replacing \cup Renewing

DeadlineGoes(command, old, new) ==
  (old # Absent /\ new # Absent /\ old.volatile # new.volatile) =>
    IF old.volatile THEN command \in RenewingCommands ELSE command = "expire"

(* Of all keys, when a request of a command on key k is answered.          *)
Effect(command, k, args, reply) ==
  /\ NoListIsEmpty'
  /\ answer' = [command |-> command, key |-> k, args |-> args, reply |-> reply]
  /\ reply \in {Error, NoReply} =>
       \/ db' = db
       \/ command = "smove" /\ ~Usable(args[1], "set") /\ db' = Lost(k, args[2])
  /\ \A x \in Keys : DeadlineGoes(command, db[x], db'[x])
  /\ \A n \in Nat : reply = Integer(n) => Tells(command, k, args, n)
  /\ Is(k, "list") /\ reply \notin {Error, NoReply} => Edits(command, k, args)

(* A request that changes nothing has only its reply to explain.           *)
LEMMA UnmovedEffect ==
  ASSUME NoListIsEmpty, NEW command, NEW k \in Keys, NEW args, NEW reply,
         Unmoved(command, k, args, reply),
         \A n \in Nat : reply = Integer(n) => Tells(command, k, args, n),
         Is(k, "list") /\ reply \notin {Error, NoReply} => Edits(command, k, args)
  PROVE  Effect(command, k, args, reply)
<1>1. db' = db /\ answer' = [command |-> command, key |-> k, args |-> args, reply |-> reply]
  BY DEF Unmoved, Answer
<1>2. NoListIsEmpty'
  BY <1>1 DEF NoListIsEmpty, TypeOK, Is
<1>3. \A x \in Keys : DeadlineGoes(command, db[x], db'[x])
  BY <1>1 DEF DeadlineGoes
<1>. QED  BY <1>1, <1>2, <1>3 DEF Effect

(* The invariant outlives whatever puts good items.                        *)
LEMMA GoodStays ==
  ASSUME db' \in [Keys -> Items \cup {Absent}], \A x \in Keys : Good(db'[x])
  PROVE  NoListIsEmpty'
BY DEF NoListIsEmpty, TypeOK, Is, Good

(* One that writes leaves a good item, and the deadline where it may.      *)
LEMMA WriteEffect ==
  ASSUME NoListIsEmpty, NEW command, NEW k \in Keys, NEW args, NEW item, NEW reply,
         Write(command, k, args, item, reply), Good(item), reply \notin {Error, NoReply},
         DeadlineGoes(command, db[k], item),
         db'[k] = item => \A n \in Nat : reply = Integer(n) => Tells(command, k, args, n),
         db'[k] = item /\ Is(k, "list") => Edits(command, k, args)
  PROVE  Effect(command, k, args, reply)
<1>1. db' = [db EXCEPT ![k] = item]
  BY DEF Write
<1>2. answer' = [command |-> command, key |-> k, args |-> args, reply |-> reply]
  BY DEF Write, Answer
<1>3. db \in [Keys -> Items \cup {Absent}]
  BY DEF NoListIsEmpty, TypeOK
<1>4. /\ db' \in [Keys -> Items \cup {Absent}] /\ db'[k] = item
      /\ \A x \in Keys \ {k} : db'[x] = db[x]
  BY <1>1, <1>3 DEF Good
<1>5. \A x \in Keys : Good(db'[x])
  BY <1>4, ContentIs
<1>6. NoListIsEmpty'
  BY <1>4, <1>5, GoodStays
<1>7. \A x \in Keys : DeadlineGoes(command, db[x], db'[x])
  BY <1>4 DEF DeadlineGoes
<1>. QED  BY <1>2, <1>4, <1>6, <1>7 DEF Effect

Explained(k) == \E command, args, reply : Effect(command, k, args, reply)

(***************************************************************************)
(* The commands on sets.                                                   *)
(***************************************************************************)
LEMMA MembersAreFinite ==
  ASSUME NEW S \in SUBSET AllMembers
  PROVE  IsFiniteSet(S) /\ Cardinality(S) \in Nat
<1>1. IsFiniteSet(AllMembers)
  BY FiniteAssumption, FS_AddElement DEF AllMembers
<1>. QED  BY <1>1, FS_Subset, FS_CardinalityType

LEMMA AddCounts ==
  ASSUME NEW S, IsFiniteSet(S), NEW T, IsFiniteSet(T)
  PROVE  /\ Cardinality(S \cup T) = Cardinality(S) + Cardinality(T \ S)
         /\ Cardinality(T \ S) \in Nat
<1>1. PICK D : D = T \ S
  OBVIOUS
<1>2. IsFiniteSet(D)
  BY <1>1, FS_Subset
<1>3. S \cup D = S \cup T /\ S \cap D = {}
  BY <1>1
<1>4. Cardinality(S \cup D) = Cardinality(S) + Cardinality(D) - Cardinality(S \cap D)
  BY <1>2, FS_Union
<1>5. Cardinality(S) \in Nat /\ Cardinality(D) \in Nat
  BY <1>2, FS_CardinalityType
<1>6. Cardinality(S \cap D) = 0
  BY <1>3, FS_EmptySet
<1>7. Cardinality(S \cup D) = Cardinality(S) + Cardinality(D)
  BY <1>4, <1>5, <1>6
<1>8. Cardinality(S \cup D) = Cardinality(S \cup T)
  BY <1>3
<1>. QED  BY <1>1, <1>5, <1>7, <1>8

LEMMA RemoveCounts ==
  ASSUME NEW S, IsFiniteSet(S), NEW T
  PROVE  /\ Cardinality(S \ T) = Cardinality(S) - Cardinality(S \cap T)
         /\ Cardinality(S \cap T) \in Nat /\ IsFiniteSet(S \ T)
<1>1. PICK I, D : I = S \cap T /\ D = S \ T
  OBVIOUS
<1>2. IsFiniteSet(I) /\ IsFiniteSet(D)
  BY <1>1, FS_Subset
<1>3. Cardinality(I \cup D) = Cardinality(I) + Cardinality(D \ I) /\ Cardinality(D \ I) \in Nat
  BY <1>2, AddCounts
<1>4. I \cup D = S /\ D \ I = D
  BY <1>1
<1>5. Cardinality(I) \in Nat /\ Cardinality(D) \in Nat
  BY <1>2, FS_CardinalityType
<1>6. Cardinality(I \cup D) = Cardinality(S) /\ Cardinality(D \ I) = Cardinality(D)
  BY <1>4
<1>7. Cardinality(S) = Cardinality(I) + Cardinality(D)
  BY <1>3, <1>6
<1>. QED  BY <1>1, <1>2, <1>5, <1>7

LEMMA SAddEffect ==
  ASSUME NoListIsEmpty, NEW k \in Keys, NEW ms \in SUBSET Members, SAddCommand(k, ms)
  PROVE  Explained(k)
<1>1. CASE ~Usable(k, "set")
  <2>1. Unmoved("sadd", k, ms, NoReply)
    BY <1>1 DEF SAddCommand
  <2>2. Effect("sadd", k, ms, NoReply)
    BY <2>1, UnmovedEffect, RepliesDiffer
  <2>. QED  BY <2>2 DEF Explained
<1>2. CASE Usable(k, "set")
  <2>1. PICK S \in SUBSET AllMembers : S = SetAt(k) /\ S = SetIn(db, k)
    BY <1>2, ContentIs
  <2>2. PICK item : item = Fresh("set", S \cup ms)
    OBVIOUS
  <2>3. PICK n : n = Cardinality(ms \ S)
    OBVIOUS
  <2>4. Write("sadd", k, ms, item, Integer(n))
    BY <1>2, <2>1, <2>2, <2>3 DEF SAddCommand
  <2>5. Good(item) /\ item # Absent /\ item.type = "set" /\ item.value = S \cup ms
    BY <2>2, FreshSet DEF AllMembers
  <2>6. DeadlineGoes("sadd", db[k], item)
    BY <2>2, ContentIs, ItemIs DEF DeadlineGoes, RenewingCommands, Replacing, Renewing, Good, Fresh
  <2>7. Cardinality(S \cup ms) = Cardinality(S) + n
    BY <2>3, MembersAreFinite, AddCounts DEF AllMembers
  <2>8. db'[k] = item => \A m \in Nat : Integer(n) = Integer(m) => Tells("sadd", k, ms, m)
    BY <2>1, <2>5, <2>7, RepliesDiffer DEF Tells, SetIn
  <2>9. db'[k] = item /\ Is(k, "list") => Edits("sadd", k, ms)
    BY DEF Edits
  <2>10. Effect("sadd", k, ms, Integer(n))
    BY <2>4, <2>5, <2>6, <2>8, <2>9, WriteEffect, RepliesDiffer
  <2>. QED  BY <2>10 DEF Explained
<1>. QED  BY <1>1, <1>2

LEMMA SRemEffect ==
  ASSUME NoListIsEmpty, NEW k \in Keys, NEW ms \in SUBSET Members, SRemCommand(k, ms)
  PROVE  Explained(k)
<1>1. CASE db[k] # Absent /\ ~Is(k, "set")
  <2>1. Unmoved("srem", k, ms, NoReply)
    BY <1>1 DEF SRemCommand
  <2>2. Effect("srem", k, ms, NoReply)
    BY <2>1, UnmovedEffect, RepliesDiffer
  <2>. QED  BY <2>2 DEF Explained
<1>2. CASE Usable(k, "set")
  <2>1. PICK S \in SUBSET AllMembers : S = SetAt(k) /\ S = SetIn(db, k)
    BY <1>2, ContentIs
  <2>2. PICK hit : hit = S \cap ms
    OBVIOUS
  <2>3. IsFiniteSet(S) /\ Cardinality(S \ ms) = Cardinality(S) - Cardinality(hit)
    BY <2>2, MembersAreFinite, RemoveCounts
  <2>4. S \ hit = S \ ms
    BY <2>2
  <2>5. CASE hit = {}
    <3>1. Unmoved("srem", k, ms, Integer(0))
      BY <1>2, <2>1, <2>2, <2>5 DEF SRemCommand, Usable, Is
    <3>2. db' = db
      BY <3>1 DEF Unmoved
    <3>3. Cardinality(hit) = 0
      BY <2>5, FS_EmptySet
    <3>4. \A m \in Nat : Integer(0) = Integer(m) => Tells("srem", k, ms, m)
      BY <2>1, <2>3, <2>4, <2>5, <3>2, <3>3, RepliesDiffer DEF Tells, SetIn
    <3>5. Is(k, "list") /\ Integer(0) \notin {Error, NoReply} => Edits("srem", k, ms)
      BY DEF Edits
    <3>6. Effect("srem", k, ms, Integer(0))
      BY <3>1, <3>4, <3>5, UnmovedEffect
    <3>. QED  BY <3>6 DEF Explained
  <2>6. CASE hit # {}
    <3>1. db[k] # Absent /\ db[k].type = "set" /\ S = db[k].value
      BY <1>2, <2>1, <2>2, <2>6 DEF Usable, SetAt, Content
    <3>2. PICK item : item = Kept(k, S \ hit, {})
      OBVIOUS
    <3>3. Write("srem", k, ms, item, Integer(Cardinality(hit)))
      BY <1>2, <2>1, <2>2, <2>6, <3>1, <3>2 DEF SRemCommand, Is
    <3>4. db[k] \in Items
      BY <3>1, ContentIs DEF Good
    <3>5. /\ Good(item) /\ DeadlineGoes("srem", db[k], item)
          /\ db'[k] = item => SetIn(db', k) = S \ hit
      <4>1. CASE S \ hit = {}
        <5>1. item = Absent
          BY <3>2, <4>1 DEF Kept
        <5>2. Good(item) /\ DeadlineGoes("srem", db[k], item)
          BY <5>1 DEF Good, DeadlineGoes
        <5>3. db'[k] = item => SetIn(db', k) = S \ hit
          BY <4>1, <5>1 DEF SetIn
        <5>. QED  BY <5>2, <5>3
      <4>2. CASE S \ hit # {}
        <5>1. item = [db[k] EXCEPT !.value = S \ hit]
          BY <3>2, <4>2 DEF Kept
        <5>2. /\ Good(item) /\ item # Absent /\ item.type = "set" /\ item.value = S \ hit
              /\ item.volatile = db[k].volatile
          <6>1. Fits(db[k].type, S \ hit)
            BY <3>1 DEF Fits
          <6>. QED  BY <3>1, <3>4, <5>1, <6>1, PutBackIsGood
        <5>3. DeadlineGoes("srem", db[k], item)
          BY <5>2 DEF DeadlineGoes
        <5>4. db'[k] = item => SetIn(db', k) = S \ hit
          BY <5>2 DEF SetIn
        <5>. QED  BY <5>2, <5>3, <5>4
      <4>. QED  BY <4>1, <4>2
    <3>6. db'[k] = item => \A m \in Nat : Integer(Cardinality(hit)) = Integer(m) => Tells("srem", k, ms, m)
      BY <2>1, <2>3, <2>4, <3>5, RepliesDiffer DEF Tells
    <3>7. db'[k] = item /\ Is(k, "list") => Edits("srem", k, ms)
      BY DEF Edits
    <3>8. Effect("srem", k, ms, Integer(Cardinality(hit)))
      BY <3>3, <3>5, <3>6, <3>7, WriteEffect, RepliesDiffer
    <3>. QED  BY <3>8 DEF Explained
  <2>. QED  BY <2>5, <2>6
<1>. QED  BY <1>1, <1>2 DEF Usable, Is

(* A new item has no deadline, and these commands may take one away.       *)
LEMMA FreshDeadline ==
  ASSUME NoListIsEmpty, NEW command \in RenewingCommands, NEW k \in Keys, NEW type, NEW v
  PROVE  DeadlineGoes(command, db[k], Fresh(type, v))
<1>1. Fresh(type, v).volatile = FALSE
  BY DEF Fresh
<1>2. db[k] # Absent => db[k].volatile \in BOOLEAN
  BY ContentIs, ItemIs DEF Good
<1>. QED  BY <1>1, <1>2 DEF DeadlineGoes

(* What Moved leaves at the two keys.                                      *)
LEMMA MovedLeaves ==
  ASSUME NoListIsEmpty, NEW from \in Keys, NEW to \in Keys, NEW m \in Members,
         Usable(from, "set"), Usable(to, "set"), m \in SetAt(from), db' = Moved(from, to, m)
  PROVE  /\ db' \in [Keys -> Items \cup {Absent}]
         /\ \A x \in Keys : Good(db'[x]) /\ DeadlineGoes("smove", db[x], db'[x])
         /\ SMoveTold(from, <<to, m>>, 1, db, db')
<1>1. PICK S \in SUBSET AllMembers, T \in SUBSET AllMembers :
        /\ S = SetAt(from) /\ S = SetIn(db, from)
        /\ T = SetAt(to) /\ T = SetIn(db, to)
  BY ContentIs
<1>2. PICK d : d = db /\ d \in [Keys -> Items \cup {Absent}]
  BY DEF NoListIsEmpty, TypeOK
<1>3. \A x \in Keys : Good(d[x]) /\ DeadlineGoes("smove", db[x], d[x])
  BY <1>2, ContentIs DEF DeadlineGoes
<1>4. ASSUME NEW V \in SUBSET AllMembers
      PROVE  /\ Good(Fresh("set", V)) /\ Fresh("set", V) # Absent
             /\ Fresh("set", V).type = "set" /\ Fresh("set", V).value = V
             /\ \A x \in Keys : DeadlineGoes("smove", db[x], Fresh("set", V))
  <2>1. /\ Good(Fresh("set", V)) /\ Fresh("set", V) # Absent
        /\ Fresh("set", V).type = "set" /\ Fresh("set", V).value = V
    BY FreshSet
  <2>2. "smove" \in RenewingCommands
    BY DEF RenewingCommands, Replacing, Renewing
  <2>3. \A x \in Keys : DeadlineGoes("smove", db[x], Fresh("set", V))
    BY <2>2, FreshDeadline
  <2>. QED  BY <2>1, <2>3
<1>5. CASE from = to
  <2>1. PICK item : item = Fresh("set", S)
    OBVIOUS
  <2>2. db' = [d EXCEPT ![from] = item]
    BY <1>1, <1>2, <1>5, <2>1 DEF Moved
  <2>3. Good(item) /\ SetIn(db', from) = S
    <3>1. Good(item) /\ item # Absent /\ item.type = "set" /\ item.value = S
      BY <1>4, <2>1
    <3>2. db'[from] = item
      BY <1>2, <2>2
    <3>. QED  BY <3>1, <3>2 DEF SetIn
  <2>4. db' \in [Keys -> Items \cup {Absent}]
    BY <1>2, <2>2, <2>3 DEF Good
  <2>5. \A x \in Keys : Good(db'[x]) /\ DeadlineGoes("smove", db[x], db'[x])
    BY <1>2, <1>3, <1>4, <2>1, <2>2
  <2>6. SMoveTold(from, <<to, m>>, 1, db, db')
    BY <1>1, <1>5, <2>3 DEF SMoveTold
  <2>. QED  BY <2>4, <2>5, <2>6
<1>6. CASE from # to
  <2>1. PICK x1, x2 : /\ x1 = IF m \in T THEN db[to] ELSE Fresh("set", T \cup {m})
                      /\ x2 = Fresh("set", S \ {m})
    OBVIOUS
  <2>2. db' = [d EXCEPT ![to] = x1, ![from] = x2]
    BY <1>1, <1>2, <1>6, <2>1 DEF Moved
  <2>3. Good(x1) /\ \A x \in Keys : x = to => DeadlineGoes("smove", db[x], x1)
    <3>1. CASE m \in T
      BY <1>2, <1>3, <2>1, <3>1
    <3>2. CASE m \notin T
      BY <1>1, <1>4, <2>1, <3>2 DEF AllMembers
    <3>. QED  BY <3>1, <3>2
  <2>4. x1 # Absent /\ x1.type = "set" /\ x1.value = T \cup {m}
    <3>1. CASE m \in T
      <4>1. db[to] # Absent /\ db[to].type = "set" /\ db[to].value = T
        BY <1>1, <3>1 DEF SetIn
      <4>. QED  BY <2>1, <3>1, <4>1
    <3>2. CASE m \notin T
      BY <1>1, <1>4, <2>1, <3>2 DEF AllMembers
    <3>. QED  BY <3>1, <3>2
  <2>5. /\ Good(x2) /\ x2 # Absent /\ x2.type = "set" /\ x2.value = S \ {m}
        /\ \A x \in Keys : DeadlineGoes("smove", db[x], x2)
    BY <1>4, <2>1
  <2>6. db'[to] = x1 /\ db'[from] = x2 /\ \A x \in Keys \ {from, to} : db'[x] = d[x]
    BY <1>2, <1>6, <2>2
  <2>7. db' \in [Keys -> Items \cup {Absent}]
    BY <1>2, <2>2, <2>3, <2>5 DEF Good
  <2>8. \A x \in Keys : Good(db'[x]) /\ DeadlineGoes("smove", db[x], db'[x])
    BY <1>3, <2>3, <2>5, <2>6
  <2>9. SetIn(db', to) = T \cup {m} /\ SetIn(db', from) = S \ {m}
    BY <2>4, <2>5, <2>6 DEF SetIn
  <2>10. SMoveTold(from, <<to, m>>, 1, db, db')
    BY <1>1, <2>9 DEF SMoveTold
  <2>. QED  BY <2>7, <2>8, <2>10
<1>. QED  BY <1>5, <1>6

(* SUNIONSTORE and SINTERSTORE always put a set.                           *)
LEMMA StoreEffect ==
  ASSUME NoListIsEmpty, NEW command \in {"sunionstore", "sinterstore"}, NEW k \in Keys, NEW ks,
         NEW V \in SUBSET AllMembers, NEW n,
         Write(command, k, ks, Fresh("set", V), Integer(n))
  PROVE  Explained(k)
<1>1. PICK item : item = Fresh("set", V)
  OBVIOUS
<1>2. Good(item)
  BY <1>1, FreshSet
<1>3. DeadlineGoes(command, db[k], item)
  BY <1>1, FreshDeadline DEF RenewingCommands, Replacing, Renewing
<1>4. Write(command, k, ks, item, Integer(n))
  BY <1>1
<1>5. db'[k] = item => \A m \in Nat : Integer(n) = Integer(m) => Tells(command, k, ks, m)
  BY DEF Tells
<1>6. db'[k] = item /\ Is(k, "list") => Edits(command, k, ks)
  BY DEF Edits
<1>7. Effect(command, k, ks, Integer(n))
  BY <1>2, <1>3, <1>4, <1>5, <1>6, WriteEffect, RepliesDiffer
<1>. QED  BY <1>7 DEF Explained

LEMMA SUnionStoreEffect ==
  ASSUME NoListIsEmpty, NEW k \in Keys, NEW ks \in Sources, SUnionStoreCommand(k, ks)
  PROVE  Explained(k)
<1>1. PICK V : V = IF Union(ks) = Error THEN {ErrorText} ELSE Union(ks)[2]
  OBVIOUS
<1>2. Write("sunionstore", k, ks, Fresh("set", V), Integer(Cardinality(V)))
  BY <1>1 DEF SUnionStoreCommand
<1>3. V \in SUBSET AllMembers
  <2>1. CASE Union(ks) = Error
    BY <1>1, <2>1 DEF AllMembers
  <2>2. CASE Union(ks) = Array({}) /\ Union(ks) # Error
    <3>1. V = Array({})[2]
      BY <1>1, <2>2
    <3>2. Array({})[2] = {}
      BY DEF Array
    <3>. QED  BY <3>1, <3>2
  <2>3. CASE /\ Union(ks) # Error /\ Union(ks) # Array({})
             /\ \A i \in DOMAIN ks : Is(ks[i], "set")
    <3>1. PICK W : W = UNION {SetAt(ks[i]) : i \in DOMAIN ks}
      OBVIOUS
    <3>2. Union(ks) = Array(W)
      BY <2>3, <3>1 DEF Union
    <3>3. Array(W)[2] = W
      BY DEF Array
    <3>4. V = W
      BY <1>1, <2>3, <3>2, <3>3
    <3>5. ASSUME NEW i \in DOMAIN ks
          PROVE  SetAt(ks[i]) \in SUBSET AllMembers
      <4>1. ks[i] \in Keys
        BY DEF Sources
      <4>2. Usable(ks[i], "set")
        BY <2>3 DEF Usable, Is
      <4>. QED  BY <4>1, <4>2, ContentIs
    <3>. QED  BY <3>1, <3>4, <3>5
  <2>. QED  BY <2>1, <2>2, <2>3 DEF Union
<1>. QED  BY <1>2, <1>3, StoreEffect

LEMMA SInterStoreEffect ==
  ASSUME NoListIsEmpty, NEW k \in Keys, NEW ks, SInterStoreCommand(k, ks)
  PROVE  Explained(k)
<1>1. PICK result : result = Intersection(ks)
  OBVIOUS
<1>2. CASE result = Array({})
  <2>1. Write("sinterstore", k, ks, Fresh("set", {}), Integer(0))
    BY <1>1, <1>2 DEF SInterStoreCommand
  <2>. QED  BY <2>1, StoreEffect
<1>3. CASE result # Array({})
  <2>1. result \in {Error, NoReply}
    BY <1>1, <1>3 DEF Intersection
  <2>2. Unmoved("sinterstore", k, ks, result)
    BY <1>1, <1>3 DEF SInterStoreCommand
  <2>3. \A n \in Nat : result = Integer(n) => Tells("sinterstore", k, ks, n)
    BY DEF Tells
  <2>4. Effect("sinterstore", k, ks, result)
    BY <2>1, <2>2, <2>3, UnmovedEffect
  <2>. QED  BY <2>4 DEF Explained
<1>. QED  BY <1>2, <1>3

LEMMA SMoveEffect ==
  ASSUME NoListIsEmpty, NEW from \in Keys, NEW to \in Keys, NEW m \in Members,
         SMoveCommand(from, to, m)
  PROVE  Explained(from)
<1>1. PICK args : args = <<to, m>>
  OBVIOUS
<1>0. args[1] = to /\ args[2] = m
  BY <1>1
<1>2. CASE ~Usable(from, "set")
  <2>1. Unmoved("smove", from, args, NoReply)
    BY <1>1, <1>2 DEF SMoveCommand
  <2>2. Effect("smove", from, args, NoReply)
    BY <2>1, UnmovedEffect, RepliesDiffer
  <2>. QED  BY <2>2 DEF Explained
<1>3. CASE Usable(from, "set") /\ m \notin SetAt(from)
  <2>1. Unmoved("smove", from, args, Integer(0))
    BY <1>1, <1>3 DEF SMoveCommand
  <2>2. db' = db /\ m \notin SetIn(db, from)
    BY <1>3, <2>1, ContentIs DEF Unmoved
  <2>3. \A n \in Nat : Integer(0) = Integer(n) => Tells("smove", from, args, n)
    BY <1>0, <2>2, RepliesDiffer DEF Tells, SMoveTold
  <2>4. Is(from, "list") /\ Integer(0) \notin {Error, NoReply} => Edits("smove", from, args)
    BY DEF Edits
  <2>5. Effect("smove", from, args, Integer(0))
    BY <2>1, <2>3, <2>4, UnmovedEffect
  <2>. QED  BY <2>5 DEF Explained
<1>4. CASE Usable(from, "set") /\ m \in SetAt(from) /\ ~Usable(to, "set")
  <2>1. PICK S \in SUBSET AllMembers : S = SetAt(from) /\ S = SetIn(db, from)
    BY <1>4, ContentIs
  <2>2. db[from] # Absent /\ db[from].type = "set" /\ S = db[from].value
    BY <1>4, <2>1 DEF SetIn
  <2>3. PICK item : item = [db[from] EXCEPT !.value = S \ {m}]
    OBVIOUS
  <2>4. PICK d : d = db /\ d \in [Keys -> Items \cup {Absent}]
    BY DEF NoListIsEmpty, TypeOK
  <2>5. [db[from] EXCEPT !.value = @ \ {m}] = item
    BY <2>2, <2>3
  <2>6. db' = [d EXCEPT ![from] = item] /\ Answer("smove", from, args, NoReply)
    BY <1>1, <1>4, <2>4, <2>5 DEF SMoveCommand, Write
  <2>7. Good(item) /\ item.volatile = db[from].volatile
    <3>1. db[from] \in Items /\ Fits(db[from].type, S \ {m})
      BY <2>1, <2>2, ContentIs DEF Good, Fits
    <3>. QED  BY <2>2, <2>3, <3>1, PutBackIsGood
  <2>8. /\ db' \in [Keys -> Items \cup {Absent}]
        /\ db'[from] = item /\ \A x \in Keys \ {from} : db'[x] = d[x]
    BY <2>4, <2>6, <2>7 DEF Good
  <2>9. \A x \in Keys : Good(db'[x]) /\ DeadlineGoes("smove", db[x], db'[x])
    BY <2>4, <2>7, <2>8, ContentIs DEF DeadlineGoes
  <2>10. db' = Lost(from, m)
    BY <2>2, <2>3, <2>4, <2>6 DEF Lost
  <2>11. ~Is(from, "list")
    BY <2>2 DEF Is
  <2>12. \A n \in Nat : NoReply # Integer(n)
    BY RepliesDiffer
  <2>13. answer' = [command |-> "smove", key |-> from, args |-> args, reply |-> NoReply]
    BY <2>6 DEF Answer
  <2>14. NoListIsEmpty'
    BY <2>8, <2>9, GoodStays
  <2>15. Effect("smove", from, args, NoReply)
    BY <1>0, <1>4, <2>9, <2>10, <2>11, <2>12, <2>13, <2>14 DEF Effect
  <2>. QED  BY <2>15 DEF Explained
<1>5. CASE Usable(from, "set") /\ m \in SetAt(from) /\ Usable(to, "set")
  <2>1. db' = Moved(from, to, m) /\ Answer("smove", from, args, Integer(1))
    BY <1>1, <1>5 DEF SMoveCommand
  <2>2. /\ db' \in [Keys -> Items \cup {Absent}]
        /\ \A x \in Keys : Good(db'[x]) /\ DeadlineGoes("smove", db[x], db'[x])
        /\ SMoveTold(from, args, 1, db, db')
    BY <1>1, <1>5, <2>1, MovedLeaves
  <2>3. \A n \in Nat : Integer(1) = Integer(n) => Tells("smove", from, args, n)
    BY <2>2, RepliesDiffer DEF Tells
  <2>4. Edits("smove", from, args)
    BY DEF Edits
  <2>5. answer' = [command |-> "smove", key |-> from, args |-> args, reply |-> Integer(1)]
    BY <2>1 DEF Answer
  <2>6. NoListIsEmpty'
    BY <2>2, GoodStays
  <2>7. Effect("smove", from, args, Integer(1))
    BY <2>2, <2>3, <2>4, <2>5, <2>6, RepliesDiffer DEF Effect
  <2>. QED  BY <2>7 DEF Explained
<1>. QED  BY <1>2, <1>3, <1>4, <1>5

(***************************************************************************)
(* The commands on hashes.                                                 *)
(***************************************************************************)
LEMMA HSetOddEffect ==
  ASSUME NoListIsEmpty, NEW k \in Keys, HSetOddCommand(k)
  PROVE  Explained(k)
<1>1. Unmoved("hset", k, <<>>, Error)
  BY DEF HSetOddCommand
<1>2. Effect("hset", k, <<>>, Error)
  BY <1>1, UnmovedEffect, RepliesDiffer
<1>. QED  BY <1>2 DEF Explained

(* The fields that HSET counts.                                            *)
LEMMA AddedFields ==
  ASSUME NEW old \in Hashes, NEW fs \in SUBSET Fields, NEW added,
         added = {f \in fs : Falsy(Field(old, f))}
  PROVE  /\ (fs \ DOMAIN old) \ Inherited \subseteq added
         /\ added \subseteq ((fs \ DOMAIN old) \ Inherited) \cup {f \in DOMAIN old : old[f] = Empty}
<1>1. Builtin \notin {Absent, Empty}
  BY AbsentAssumption, EmptyAssumption
<1>2. \A f \in DOMAIN old : old[f] # Absent
  <2>1. \A f \in DOMAIN old : old[f] \in Values
    BY DEF Hashes
  <2>. QED  BY <2>1, AbsentAssumption
<1>3. ASSUME NEW f \in fs
      PROVE  /\ f \notin DOMAIN old /\ f \notin Inherited => f \in added
             /\ f \in added => \/ f \notin DOMAIN old /\ f \notin Inherited
                               \/ f \in DOMAIN old /\ old[f] = Empty
  BY <1>1, <1>2 DEF Falsy, Field
<1>. QED  BY <1>3

LEMMA SetFields ==
  ASSUME NEW old \in Hashes, NEW fs \in SUBSET Fields, NEW new \in [fs -> Values], NEW hash,
         hash = [f \in DOMAIN old \cup (fs \ {Proto}) |->
                   IF f \in fs \ {Proto} THEN new[f] ELSE old[f]]
  PROVE  hash \in Hashes /\ DOMAIN hash = DOMAIN old \cup (fs \ {Proto})
<1>1. PICK ds \in SUBSET Fields : old \in [ds -> Values]
  BY DEF Hashes
<1>2. PICK es : es = ds \cup (fs \ {Proto})
  OBVIOUS
<1>3. es \in SUBSET Fields
  BY <1>2
<1>4. hash = [f \in es |-> IF f \in fs \ {Proto} THEN new[f] ELSE old[f]]
  BY <1>1, <1>2
<1>5. \A f \in es : (IF f \in fs \ {Proto} THEN new[f] ELSE old[f]) \in Values
  BY <1>1, <1>2
<1>6. hash \in [es -> Values]
  BY <1>4, <1>5
<1>7. hash \in Hashes
  BY <1>3, <1>6 DEF Hashes
<1>. QED  BY <1>1, <1>2, <1>6, <1>7

LEMMA HSetEffect ==
  ASSUME NoListIsEmpty, NEW k \in Keys, NEW fs \in SUBSET Fields, fs # {},
         NEW new \in [fs -> Values], HSetCommand(k, new)
  PROVE  Explained(k)
<1>1. CASE ~Usable(k, "hash")
  <2>1. Unmoved("hset", k, new, NoReply)
    BY <1>1 DEF HSetCommand
  <2>2. Effect("hset", k, new, NoReply)
    BY <2>1, UnmovedEffect, RepliesDiffer
  <2>. QED  BY <2>2 DEF Explained
<1>2. CASE Usable(k, "hash")
  <2>1. PICK old \in Hashes : old = HashAt(k) /\ old = HashIn(db, k)
    BY <1>2, ContentIs
  <2>2. PICK hash : hash = [f \in DOMAIN old \cup (fs \ {Proto}) |->
                              IF f \in fs \ {Proto} THEN new[f] ELSE old[f]]
    OBVIOUS
  <2>3. PICK added : added = {f \in fs : Falsy(Field(old, f))}
    OBVIOUS
  <2>4. PICK item : item = Fresh("hash", hash)
    OBVIOUS
  <2>5. DOMAIN new = fs
    OBVIOUS
  <2>6. Write("hset", k, new, item, Integer(Cardinality(added)))
    BY <1>2, <2>1, <2>2, <2>3, <2>4, <2>5 DEF HSetCommand
  <2>7. hash \in Hashes /\ DOMAIN hash = DOMAIN old \cup (fs \ {Proto})
    BY <2>2, SetFields
  <2>8. Good(item) /\ item # Absent /\ item.type = "hash" /\ item.value = hash
    <3>1. Fits("hash", hash)
      BY <2>7 DEF Fits
    <3>2. IsFresh(item, "hash", hash)
      BY <2>4, <3>1, FreshIsGood
    <3>. QED  BY <3>2 DEF IsFresh
  <2>9. DeadlineGoes("hset", db[k], item)
    <3>1. "hset" \in RenewingCommands
      BY DEF RenewingCommands, Replacing, Renewing
    <3>. QED  BY <2>4, <3>1, FreshDeadline
  <2>10. db'[k] = item => HashIn(db', k) = hash
    BY <2>8 DEF HashIn
  <2>11. HsetTold(old, hash, Cardinality(added))
    <3>1. PICK born, empty : /\ born = DOMAIN hash \ DOMAIN old
                             /\ empty = {f \in DOMAIN old : old[f] = Empty}
      OBVIOUS
    <3>2. born \ Inherited = (fs \ DOMAIN old) \ Inherited
      BY <2>7, <3>1, InheritedAssumption
    <3>3. born \ Inherited \subseteq added /\ added \subseteq born \cup empty
      BY <2>3, <3>1, <3>2, AddedFields
    <3>4. DOMAIN old \in SUBSET Fields /\ DOMAIN hash \in SUBSET Fields
      BY <2>7 DEF Hashes
    <3>5. IsFiniteSet(born \cup empty) /\ IsFiniteSet(added)
      <4>1. born \cup empty \in SUBSET Fields /\ added \in SUBSET Fields
        BY <2>3, <3>1, <3>4
      <4>. QED  BY <4>1, FiniteAssumption, FS_Subset
    <3>6. /\ Cardinality(born \ Inherited) <= Cardinality(added)
          /\ Cardinality(added) <= Cardinality(born \cup empty)
      BY <3>3, <3>5, FS_Subset
    <3>. QED  BY <3>1, <3>6 DEF HsetTold
  <2>12. db'[k] = item => \A m \in Nat : Integer(Cardinality(added)) = Integer(m)
                                          => Tells("hset", k, new, m)
    BY <2>1, <2>10, <2>11, RepliesDiffer DEF Tells
  <2>13. db'[k] = item /\ Is(k, "list") => Edits("hset", k, new)
    BY DEF Edits
  <2>14. Effect("hset", k, new, Integer(Cardinality(added)))
    BY <2>6, <2>8, <2>9, <2>12, <2>13, WriteEffect, RepliesDiffer
  <2>. QED  BY <2>14 DEF Explained
<1>. QED  BY <1>1, <1>2

(***************************************************************************)
(* The commands on lists.                                                  *)
(***************************************************************************)

(* A list is put back with its deadline, or goes when nothing is left.     *)
LEMMA KeptEffect ==
  ASSUME NoListIsEmpty, NEW command, NEW k \in Keys, NEW args, NEW reply, Is(k, "list"),
         reply \notin {Error, NoReply}, NEW q \in Seq(Members),
         Write(command, k, args, Kept(k, q, <<>>), reply),
         ListIn(db', k) = q => \A n \in Nat : reply = Integer(n) => Tells(command, k, args, n),
         ListIn(db', k) = q => Edits(command, k, args)
  PROVE  Explained(k)
<1>1. PICK item : item = Kept(k, q, <<>>)
  OBVIOUS
<1>2. db[k] \in Items /\ db[k].type = "list"
  BY ContentIs DEF Good, Is
<1>3. /\ Good(item) /\ DeadlineGoes(command, db[k], item)
      /\ db'[k] = item => ListIn(db', k) = q
  <2>1. CASE q = <<>>
    <3>1. item = Absent
      BY <1>1, <2>1 DEF Kept
    <3>. QED  BY <2>1, <3>1 DEF Good, DeadlineGoes, ListIn
  <2>2. CASE q # <<>>
    <3>1. item = [db[k] EXCEPT !.value = q]
      BY <1>1, <2>2 DEF Kept
    <3>2. /\ Good(item) /\ item # Absent /\ item.type = "list" /\ item.value = q
          /\ item.volatile = db[k].volatile
      <4>1. Fits(db[k].type, q)
        BY <1>2, <2>2 DEF Fits
      <4>. QED  BY <1>2, <3>1, <4>1, PutBackIsGood
    <3>3. DeadlineGoes(command, db[k], item)
      BY <3>2 DEF DeadlineGoes
    <3>4. db'[k] = item => ListIn(db', k) = q
      BY <3>2 DEF ListIn
    <3>. QED  BY <3>2, <3>3, <3>4
  <2>. QED  BY <2>1, <2>2
<1>4. Write(command, k, args, item, reply)
  BY <1>1
<1>5. Effect(command, k, args, reply)
  BY <1>3, <1>4, WriteEffect
<1>. QED  BY <1>5 DEF Explained

(* A refusal explains itself.                                              *)
LEMMA RefusalEffect ==
  ASSUME NoListIsEmpty, NEW command, NEW k \in Keys, NEW args, NEW reply \in {Error, NoReply},
         Unmoved(command, k, args, reply)
  PROVE  Explained(k)
<1>1. \A n \in Nat : reply # Integer(n)
  BY RepliesDiffer
<1>2. Effect(command, k, args, reply)
  BY <1>1, UnmovedEffect
<1>. QED  BY <1>2 DEF Explained

(* So does a request that finds no list and whose number says nothing.     *)
LEMMA IdleEffect ==
  ASSUME NoListIsEmpty, NEW command, NEW k \in Keys, NEW args, NEW reply, ~Is(k, "list"),
         command \notin {"sadd", "srem", "smove", "lrem", "hset"},
         Unmoved(command, k, args, reply)
  PROVE  Explained(k)
<1>1. \A n \in Nat : reply = Integer(n) => Tells(command, k, args, n)
  BY DEF Tells
<1>2. Effect(command, k, args, reply)
  BY <1>1, UnmovedEffect
<1>. QED  BY <1>2 DEF Explained

LEMMA RPushEffect ==
  ASSUME NoListIsEmpty, NEW k \in Keys, NEW e \in Members, RPushCommand(k, e)
  PROVE  Explained(k)
<1>1. CASE db[k] = Absent
  <2>1. PICK item : item = Fresh("list", <<e>>)
    OBVIOUS
  <2>2. Write("rpush", k, e, item, Integer(1))
    BY <1>1, <2>1 DEF RPushCommand
  <2>3. Good(item)
    <3>1. PICK q \in Seq(Members) : q = <<e>> /\ q # <<>>
      <4>1. <<e>> \in Seq(Members) /\ Len(<<e>>) = 1 /\ Len(<<>>) = 0
        OBVIOUS
      <4>. QED  BY <4>1
    <3>2. Fits("list", q)
      BY <3>1 DEF Fits
    <3>3. IsFresh(item, "list", q)
      BY <2>1, <3>1, <3>2, FreshIsGood
    <3>. QED  BY <3>3 DEF IsFresh
  <2>4. DeadlineGoes("rpush", db[k], item)
    BY <1>1 DEF DeadlineGoes
  <2>5. db'[k] = item => \A m \in Nat : Integer(1) = Integer(m) => Tells("rpush", k, e, m)
    BY DEF Tells
  <2>6. db'[k] = item /\ Is(k, "list") => Edits("rpush", k, e)
    BY DEF Edits
  <2>7. Effect("rpush", k, e, Integer(1))
    BY <2>2, <2>3, <2>4, <2>5, <2>6, WriteEffect, RepliesDiffer
  <2>. QED  BY <2>7 DEF Explained
<1>2. CASE db[k] # Absent /\ ~Is(k, "list")
  <2>1. Unmoved("rpush", k, e, NoReply)
    BY <1>2 DEF RPushCommand
  <2>. QED  BY <2>1, RefusalEffect
<1>3. CASE db[k] # Absent /\ Is(k, "list")
  <2>1. PICK q \in Seq(Members) : q = ListAt(k) /\ q = db[k].value
    BY <1>3, ContentIs DEF ListAt, Content
  <2>2. PICK p : p = Append(q, e)
    OBVIOUS
  <2>3. p \in Seq(Members) /\ p # <<>>
    <3>1. p \in Seq(Members) /\ Len(p) = Len(q) + 1 /\ Len(q) \in Nat
      BY <2>2, AppendProperties
    <3>2. Len(<<>>) = 0
      OBVIOUS
    <3>. QED  BY <3>1, <3>2
  <2>4. [db[k] EXCEPT !.value = Append(@, e)] = Kept(k, p, <<>>)
    BY <2>1, <2>2, <2>3 DEF Kept
  <2>5. PICK n : n = Len(ListAt(k)) + 1
    OBVIOUS
  <2>6. Write("rpush", k, e, Kept(k, p, <<>>), Integer(n))
    BY <1>3, <2>4, <2>5 DEF RPushCommand
  <2>7. \A m \in Nat : Integer(n) = Integer(m) => Tells("rpush", k, e, m)
    BY DEF Tells
  <2>8. Edits("rpush", k, e)
    BY DEF Edits
  <2>. QED  BY <1>3, <2>3, <2>6, <2>7, <2>8, KeptEffect, RepliesDiffer
<1>. QED  BY <1>1, <1>2, <1>3

LEMMA LSetEffect ==
  ASSUME NoListIsEmpty, NEW k \in Keys, NEW e \in Members, NEW n \in Indices \cup {Malformed},
         LSetCommand(k, n, e)
  PROVE  Explained(k)
<1>1. PICK args : args = <<n, e>>
  OBVIOUS
<1>2. args[1] = n /\ args[2] = e
  BY <1>1
<1>3. CASE db[k] = Absent \/ n = Malformed
  <2>1. Unmoved("lset", k, args, Error)
    BY <1>1, <1>3 DEF LSetCommand
  <2>. QED  BY <2>1, RefusalEffect
<1>4. CASE db[k] # Absent /\ n # Malformed /\ ~Is(k, "list")
  <2>1. Unmoved("lset", k, args, NoReply)
    BY <1>1, <1>4 DEF LSetCommand
  <2>. QED  BY <2>1, RefusalEffect
<1>5. CASE db[k] # Absent /\ n # Malformed /\ Is(k, "list")
  <2>1. PICK q \in Seq(Members) : q = ListAt(k) /\ q = ListIn(db, k) /\ q = db[k].value
    BY <1>5, ContentIs DEF ListAt, Content
  <2>2. n \in Int
    BY <1>5, InputAssumption
  <2>3. CASE Abs(n) >= Len(q)
    <3>1. Unmoved("lset", k, args, Error)
      BY <1>1, <1>5, <2>1, <2>3 DEF LSetCommand
    <3>. QED  BY <3>1, RefusalEffect
  <2>4. CASE ~(Abs(n) >= Len(q))
    <3>1. PICK place : place = Place(q, n) + 1
      OBVIOUS
    <3>2. place = FromFront(q, n) + 1 /\ place \in 1..Len(q)
      <4>1. PICK l \in Nat : l = Len(q)
        OBVIOUS
      <4>2. (IF n < 0 THEN -n ELSE n) < l
        BY <2>2, <2>4, <4>1 DEF Abs
      <4>3. place = (IF n < 0 THEN IF l + n > 0 THEN l + n ELSE 0 ELSE IF n < l THEN n ELSE l) + 1
        BY <3>1, <4>1 DEF Place, Higher, Lower
      <4>4. FromFront(q, n) = IF n < 0 THEN l + n ELSE n
        BY <4>1 DEF FromFront
      <4>5. CASE n < 0
        BY <2>2, <4>1, <4>2, <4>3, <4>4, <4>5
      <4>6. CASE ~(n < 0)
        BY <2>2, <4>1, <4>2, <4>3, <4>4, <4>6
      <4>. QED  BY <4>5, <4>6
    <3>3. PICK p : p = [q EXCEPT ![place] = e]
      OBVIOUS
    <3>4. p \in Seq(Members) /\ Len(p) = Len(q)
      BY <3>2, <3>3, ExceptSeq
    <3>5. p # <<>>
      <4>1. Len(p) > 0 /\ Len(<<>>) = 0
        BY <3>2, <3>4
      <4>. QED  BY <4>1
    <3>6. [db[k] EXCEPT !.value[place] = e] = Kept(k, p, <<>>)
      BY <2>1, <3>3, <3>5 DEF Kept
    <3>7. Write("lset", k, args, Kept(k, p, <<>>), Ok)
      BY <1>1, <1>5, <2>1, <2>4, <3>1, <3>6 DEF LSetCommand
    <3>8. ListIn(db', k) = p => Edits("lset", k, args)
      BY <1>2, <2>1, <3>2, <3>3 DEF Edits, ReplacedExactly
    <3>9. \A m \in Nat : Ok # Integer(m)
      BY RepliesDiffer
    <3>. QED  BY <1>5, <3>4, <3>7, <3>8, <3>9, KeptEffect, RepliesDiffer
  <2>. QED  BY <2>3, <2>4
<1>. QED  BY <1>3, <1>4, <1>5

LEMMA LTrimEffect ==
  ASSUME NoListIsEmpty, NEW k \in Keys, NEW first \in Indices \cup {Malformed},
         NEW last \in Indices \cup {Malformed}, LTrimCommand(k, first, last)
  PROVE  Explained(k)
<1>1. PICK args : args = <<first, last>>
  OBVIOUS
<1>2. args[1] = first /\ args[2] = last
  BY <1>1
<1>3. CASE Malformed \in {first, last}
  <2>1. Unmoved("ltrim", k, args, Error)
    BY <1>1, <1>3 DEF LTrimCommand
  <2>. QED  BY <2>1, RefusalEffect
<1>4. CASE Malformed \notin {first, last} /\ db[k] = Absent
  <2>1. Unmoved("ltrim", k, args, Ok)
    BY <1>1, <1>4 DEF LTrimCommand
  <2>. QED  BY <1>4, <2>1, IdleEffect DEF Is
<1>5. CASE Malformed \notin {first, last} /\ db[k] # Absent /\ ~Is(k, "list")
  <2>1. Unmoved("ltrim", k, args, NoReply)
    BY <1>1, <1>5 DEF LTrimCommand
  <2>. QED  BY <2>1, RefusalEffect
<1>6. CASE Malformed \notin {first, last} /\ db[k] # Absent /\ Is(k, "list")
  <2>1. PICK q \in Seq(Members) : q = ListAt(k) /\ q = ListIn(db, k)
    BY <1>6, ContentIs
  <2>2. first \in Int /\ last \in Int
    BY <1>6, InputAssumption
  <2>3. PICK p : p = Trimmed(q, first, last)
    OBVIOUS
  <2>4. Write("ltrim", k, args, Kept(k, p, <<>>), Ok)
    BY <1>1, <1>6, <2>1, <2>3 DEF LTrimCommand
  <2>5. p \in Seq(Members)
    <3>1. PICK l \in Nat : l = Len(q)
      OBVIOUS
    <3>2. PICK f \in Nat : f = Higher(FromFront(q, first), 0)
      BY <2>2 DEF Higher, FromFront
    <3>3. PICK g \in Int : g = FromFront(q, last) + 1
      BY <2>2 DEF FromFront
    <3>4. p = SubSeq(q, Place(q, f) + 1, Place(q, g))
      BY <2>3, <3>2, <3>3 DEF Trimmed, Slice
    <3>5. PICK a \in Nat, b \in Nat : a = Place(q, f) + 1 /\ b = Place(q, g) /\ a >= 1 /\ b <= Len(q)
      <4>1. Place(q, f) \in Nat
        BY <3>1, <3>2 DEF Place, Lower
      <4>2. Place(q, g) \in Nat /\ Place(q, g) <= l
        BY <3>1, <3>3 DEF Place, Lower, Higher
      <4>. QED  BY <3>1, <4>1, <4>2
    <3>. QED  BY <3>4, <3>5, SubSeqProperties
  <2>6. TrimmedExactly(q, p, args)
    <3>. SUFFICES ASSUME last >= -Len(q) - 1 PROVE p = Between(q, first, last)
      BY <1>2 DEF TrimmedExactly
    <3>1. FromFront(q, last) >= -1
      BY <2>2 DEF FromFront
    <3>. QED  BY <2>2, <2>3, <3>1, SliceIsBetween DEF Trimmed
  <2>7. ListIn(db', k) = p => Edits("ltrim", k, args)
    BY <2>1, <2>6 DEF Edits
  <2>8. \A m \in Nat : Ok # Integer(m)
    BY RepliesDiffer
  <2>. QED  BY <1>6, <2>4, <2>5, <2>7, <2>8, KeptEffect, RepliesDiffer
<1>. QED  BY <1>3, <1>4, <1>5, <1>6

(***************************************************************************)
(* LREM.                                                                   *)
(***************************************************************************)

(* The first r places of an enumeration.                                   *)
FirstPlaces(x, r) == {x[j] : j \in 1..r}

HasFirstPlaces(K, x, r) == FirstPlaces(x, r) \in SUBSET K /\ Cardinality(FirstPlaces(x, r)) = r

LEMMA FirstPlacesCount ==
  ASSUME NEW K \in SUBSET Nat, NEW d \in Nat, NEW x, Enumerates(x, d, K), NEW r \in 0..d
  PROVE  HasFirstPlaces(K, x, r)
<1>1. PICK F, y : F = FirstPlaces(x, r) /\ y = [j \in 1..r |-> x[j]]
  OBVIOUS
<1>2. \A j \in 1..r : j \in 1..d /\ y[j] = x[j] /\ x[j] \in F /\ x[j] \in K
  BY <1>1 DEF FirstPlaces, Enumerates
<1>3. F \in SUBSET K
  BY <1>1, <1>2 DEF FirstPlaces
<1>4. y \in [1..r -> F]
  BY <1>1, <1>2
<1>5. ASSUME NEW i \in 1..r, NEW j \in 1..r, i < j
      PROVE  y[i] < y[j]
  BY <1>2, <1>5 DEF Enumerates
<1>6. \A k \in F : \E j \in 1..r : y[j] = k
  BY <1>1, <1>2 DEF FirstPlaces
<1>7. Enumerates(y, r, F)
  BY <1>4, <1>5, <1>6 DEF Enumerates
<1>8. F \in SUBSET Nat
  BY <1>3
<1>9. Cardinality(F) = r
  BY <1>7, <1>8, EnumerationCounts
<1>. QED  BY <1>1, <1>3, <1>9 DEF HasFirstPlaces

Below(K, b) == {j \in K : j < b}

LEMMA PlacesBelow ==
  ASSUME NEW K \in SUBSET Nat, NEW p \in Nat, NEW h, Enumerates(h, p, K), NEW i \in 1..p
  PROVE  Cardinality(Below(K, h[i])) = i - 1
<1>1. PICK B : B = Below(K, h[i]) /\ B = {j \in K : j < h[i]}
  BY DEF Below
<1>2. \A j \in 1..p : h[j] \in K /\ h[j] \in Nat
  BY DEF Enumerates
<1>3. ASSUME NEW j \in 1..p
      PROVE  h[j] < h[i] <=> j < i
  <2>1. j < i => h[j] < h[i]
    BY DEF Enumerates
  <2>2. i < j => h[i] < h[j]
    BY DEF Enumerates
  <2>3. j < i \/ j = i \/ i < j
    OBVIOUS
  <2>. QED  BY <1>2, <2>1, <2>2, <2>3
<1>4. ASSUME NEW k \in B
      PROVE  k \in FirstPlaces(h, i - 1)
  <2>1. PICK j \in 1..p : h[j] = k
    BY <1>1 DEF Enumerates
  <2>2. j < i
    BY <1>1, <1>3, <2>1
  <2>3. j \in 1..(i - 1)
    BY <2>2
  <2>. QED  BY <2>1, <2>3 DEF FirstPlaces
<1>5. ASSUME NEW k \in FirstPlaces(h, i - 1)
      PROVE  k \in B
  <2>1. PICK j \in 1..(i - 1) : h[j] = k
    BY DEF FirstPlaces
  <2>2. j \in 1..p /\ j < i
    OBVIOUS
  <2>. QED  BY <1>1, <1>2, <1>3, <2>1, <2>2
<1>6. B = FirstPlaces(h, i - 1)
  BY <1>4, <1>5
<1>7. PICK m \in 0..p : m = i - 1
  OBVIOUS
<1>8. Cardinality(FirstPlaces(h, m)) = m
  <2>1. HasFirstPlaces(K, h, m)
    BY FirstPlacesCount
  <2>. QED  BY <2>1 DEF HasFirstPlaces
<1>. QED  BY <1>1, <1>6, <1>7, <1>8

(* The first count of the places are the front of their enumeration.       *)
LEMMA FirstOfIsFirstPlaces ==
  ASSUME NEW K \in SUBSET Nat, NEW p \in Nat, NEW h, Enumerates(h, p, K), NEW count \in Nat,
         NEW r, r = IF count = 0 THEN p ELSE Lower(count, p)
  PROVE  FirstOf(K, count) = FirstPlaces(h, r)
<1>1. r \in 0..p
  BY DEF Lower
<1>2. PICK F : F = FirstOf(K, count)
  OBVIOUS
<1>3. ASSUME NEW i \in 1..p
      PROVE  h[i] \in F <=> i <= r
  <2>1. h[i] \in K
    BY DEF Enumerates
  <2>2. h[i] \in F <=> count = 0 \/ Cardinality(Below(K, h[i])) < count
    BY <1>2, <2>1 DEF FirstOf, Below
  <2>3. h[i] \in F <=> count = 0 \/ i - 1 < count
    BY <2>2, PlacesBelow
  <2>. QED  BY <2>3 DEF Lower
<1>4. ASSUME NEW k \in F
      PROVE  k \in FirstPlaces(h, r)
  <2>1. k \in K
    BY <1>2 DEF FirstOf
  <2>2. PICK i \in 1..p : h[i] = k
    BY <2>1 DEF Enumerates
  <2>3. i \in 1..r
    BY <1>1, <1>3, <2>2
  <2>. QED  BY <2>2, <2>3 DEF FirstPlaces
<1>5. ASSUME NEW k \in FirstPlaces(h, r)
      PROVE  k \in F
  <2>1. PICK i \in 1..r : h[i] = k
    BY DEF FirstPlaces
  <2>2. i \in 1..p /\ i <= r
    BY <1>1
  <2>. QED  BY <1>3, <2>1, <2>2
<1>. QED  BY <1>2, <1>4, <1>5

(* An enumeration of positive numbers climbs at least by one.              *)
LEMMA EnumerationClimbs ==
  ASSUME NEW K \in SUBSET (Nat \ {0}), NEW p \in Nat, NEW h, Enumerates(h, p, K), NEW j \in 1..p
  PROVE  h[j] >= j
<1>. SUFFICES ASSUME ~(h[j] >= j) PROVE FALSE
  OBVIOUS
<1>1. PICK N : N = {i \in 1..p : ~(h[i] >= i)}
  OBVIOUS
<1>2. N \in SUBSET Nat /\ j \in N
  BY <1>1
<1>3. PICK u \in N : \A m \in N : u <= m
  BY <1>2, Least
<1>4. u \in 1..p /\ ~(h[u] >= u)
  BY <1>1
<1>5. h[u] \in Nat \ {0}
  BY <1>4 DEF Enumerates
<1>6. u # 1
  BY <1>4, <1>5
<1>7. u - 1 \in 1..p /\ u - 1 < u
  BY <1>4, <1>6
<1>8. u - 1 \notin N
  BY <1>3, <1>4, <1>7
<1>9. h[u - 1] >= u - 1
  BY <1>1, <1>7, <1>8
<1>10. h[u - 1] < h[u]
  BY <1>4, <1>7 DEF Enumerates
<1>11. h[u - 1] \in Nat
  BY <1>7 DEF Enumerates
<1>. QED  BY <1>4, <1>5, <1>7, <1>9, <1>10, <1>11

(* So enough places are late enough for a negative count.                  *)
LEMMA EnoughAreLate ==
  ASSUME NEW K \in SUBSET (Nat \ {0}), NEW p \in Nat, NEW h, Enumerates(h, p, K),
         NEW count \in Int, count < 0, NEW J, J = {j \in 1..p : h[j] - 1 >= p + count},
         NEW d \in Nat, NEW g, Enumerates(g, d, J)
  PROVE  Lower(Abs(count), d) = Lower(Abs(count), p) /\ d <= p
<1>1. PICK m \in Nat : m = Higher(p + count, 0)
  BY DEF Higher
<1>2. m <= p
  BY <1>1 DEF Higher
<1>3. PICK c \in Nat : c = p - m
  BY <1>2
<1>4. Enumerates([j \in 1..c |-> (m + 1) + j - 1], c, (m + 1)..p)
  <2>1. c = IF m + 1 <= p THEN p - (m + 1) + 1 ELSE 0
    BY <1>2, <1>3
  <2>. QED  BY <2>1, IntervalEnumeration
<1>5. J \in SUBSET (1..p) /\ J \in SUBSET Nat
  OBVIOUS
<1>6. Cardinality((m + 1)..p) = c
  <2>1. (m + 1)..p \in SUBSET Nat
    OBVIOUS
  <2>. QED  BY <1>4, <2>1, EnumerationCounts
<1>7. (m + 1)..p \subseteq J
  <2>1. ASSUME NEW j \in (m + 1)..p
        PROVE  j \in J
    <3>1. j \in 1..p /\ j >= m + 1 /\ m >= p + count
      BY <1>1, <1>2 DEF Higher
    <3>2. h[j] >= j
      BY <3>1, EnumerationClimbs
    <3>3. h[j] \in Nat
      BY <3>1 DEF Enumerates
    <3>. QED  BY <3>1, <3>2, <3>3
  <2>. QED  BY <2>1
<1>8. IsFiniteSet(J) /\ Cardinality(J) = d
  BY <1>5, EnumerationCounts
<1>9. c <= d
  BY <1>6, <1>7, <1>8, FS_Subset
<1>10. d <= p
  <2>1. IsFiniteSet(1..p) /\ Cardinality(1..p) = p
    BY FS_Interval
  <2>. QED  BY <1>5, <1>8, <2>1, FS_Subset
<1>. QED  BY <1>1, <1>3, <1>9, <1>10 DEF Higher, Lower, Abs

(* The places, counted from 1, that LREM may take from.                    *)
Eligible(q, count, e) ==
  IF count < 0 THEN {i \in Occurrences(q, e) : i - 1 >= Cardinality(Occurrences(q, e)) + count}
  ELSE Occurrences(q, e)

(* It takes the first of them.                                             *)
LEMMA ToRemoveIs ==
  ASSUME NEW q \in Seq(Members), NEW count \in Int, NEW e, NEW removed, removed = ToRemove(q, count, e)
  PROVE  \E d \in Nat : \E x : \E r \in 0..d :
           /\ Enumerates(x, d, Eligible(q, count, e))
           /\ r = IF count = 0 THEN d ELSE Lower(Abs(count), d)
           /\ Lower(Abs(count), d) = Lower(Abs(count), Cardinality(Occurrences(q, e)))
           /\ removed \in Seq(Nat) /\ Len(removed) = r /\ \A j \in 1..r : removed[j] = x[j] - 1
<1>1. PICK l, O : l \in Nat /\ l = Len(q) /\ O = Occurrences(q, e)
  OBVIOUS
<1>2. O \in SUBSET (1..l) /\ O \in SUBSET Nat /\ O \in SUBSET (Nat \ {0})
  BY <1>1 DEF Occurrences
<1>3. PICK p, h : p \in Nat /\ Enumerates(h, p, O)
  BY <1>1, <1>2, EnumerationExists
<1>4. Cardinality(O) = p
  BY <1>2, <1>3, EnumerationCounts
<1>5. PICK positions : positions = [i \in 1..l |-> i - 1]
  OBVIOUS
<1>6. positions \in Seq(Nat) /\ Len(positions) = l
  BY <1>1, <1>5
<1>7. PICK m : m = Restricted(positions, O)
  OBVIOUS
<1>8. m \in Seq(Nat) /\ Len(m) = p /\ \A j \in 1..p : m[j] = positions[h[j]]
  <2>1. O \in SUBSET (1..Len(positions))
    BY <1>2, <1>6
  <2>2. p \in Nat /\ Enumerates(h, p, O)
    BY <1>3
  <2>3. IsPicked(m, Nat, positions, h, p)
    BY <1>6, <1>7, <2>1, <2>2, RestrictedIs
  <2>. QED  BY <2>3 DEF IsPicked
<1>9. \A j \in 1..p : m[j] = h[j] - 1 /\ h[j] \in 1..l
  BY <1>2, <1>3, <1>5, <1>8 DEF Enumerates
<1>10. m = Matching(q, e)
  BY <1>1, <1>5, <1>7 DEF Matching
<1>11. PICK J : J = {j \in 1..p : m[j] >= p + count}
  OBVIOUS
<1>12. PICK s : s = IF count < 0 THEN Restricted(m, J) ELSE m
  OBVIOUS
<1>13. removed = IF count = 0 THEN s ELSE SubSeq(s, 1, Lower(Abs(count), Len(s)))
  BY <1>8, <1>10, <1>11, <1>12 DEF ToRemove
<1>14. \E d \in Nat : \E x :
         /\ Enumerates(x, d, Eligible(q, count, e)) /\ Lower(Abs(count), d) = Lower(Abs(count), p)
         /\ s \in Seq(Nat) /\ Len(s) = d /\ \A j \in 1..d : s[j] = x[j] - 1
  <2>1. CASE ~(count < 0)
    <3>1. Eligible(q, count, e) = O /\ s = m
      BY <1>1, <1>12, <2>1 DEF Eligible
    <3>. QED  BY <1>3, <1>8, <1>9, <3>1
  <2>2. CASE count < 0
    <3>1. J \in SUBSET (1..p) /\ J \in SUBSET (1..Len(m))
      BY <1>8, <1>11
    <3>2. PICK d, g : d \in Nat /\ Enumerates(g, d, J)
      BY <1>3, <3>1, EnumerationExists
    <3>3. s \in Seq(Nat) /\ Len(s) = d /\ \A j \in 1..d : s[j] = m[g[j]]
      <4>1. IsPicked(s, Nat, m, g, d)
        BY <1>8, <1>12, <2>2, <3>1, <3>2, RestrictedIs
      <4>. QED  BY <4>1 DEF IsPicked
    <3>4. PICK M : M = {i \in 1..l : i - 1 >= p + count}
      OBVIOUS
    <3>5. J = IndicesIn(h, p, M)
      BY <1>9, <1>11, <3>4 DEF IndicesIn
    <3>6. PICK x : x = Then(h, g, d)
      OBVIOUS
    <3>7. Enumerates(x, d, O \cap M)
      BY <1>2, <1>3, <3>2, <3>5, <3>6, EnumerationOfSome
    <3>8. Eligible(q, count, e) = O \cap M
      BY <1>1, <1>2, <1>4, <2>2, <3>4 DEF Eligible
    <3>9. \A j \in 1..d : s[j] = x[j] - 1
      <4>1. \A j \in 1..d : g[j] \in 1..p /\ x[j] = h[g[j]]
        BY <3>1, <3>2, <3>6 DEF Enumerates, Then
      <4>2. ASSUME NEW j \in 1..d
            PROVE  s[j] = x[j] - 1
        <5>1. g[j] \in 1..p /\ x[j] = h[g[j]] /\ s[j] = m[g[j]]
          BY <3>3, <4>1
        <5>. QED  BY <1>9, <5>1
      <4>. QED  BY <4>2
    <3>10. J = {j \in 1..p : h[j] - 1 >= p + count}
      BY <1>9, <1>11
    <3>11. Lower(Abs(count), d) = Lower(Abs(count), p)
      BY <1>1, <1>2, <1>3, <2>2, <3>2, <3>10, EnoughAreLate
    <3>. QED  BY <3>3, <3>7, <3>8, <3>9, <3>11
  <2>. QED  BY <2>1, <2>2
<1>15. PICK d, x :
         /\ d \in Nat /\ Enumerates(x, d, Eligible(q, count, e)) /\ Lower(Abs(count), d) = Lower(Abs(count), p)
         /\ s \in Seq(Nat) /\ Len(s) = d /\ \A j \in 1..d : s[j] = x[j] - 1
  BY <1>14
<1>16. PICK r \in 0..d : r = IF count = 0 THEN d ELSE Lower(Abs(count), d)
  BY <1>15 DEF Lower, Abs
<1>17. removed \in Seq(Nat) /\ Len(removed) = r /\ \A j \in 1..r : removed[j] = s[j]
  <2>1. CASE count = 0
    BY <1>13, <1>15, <1>16, <2>1
  <2>2. CASE count # 0
    <3>1. removed = SubSeq(s, 1, r) /\ r \in Nat /\ r <= Len(s)
      BY <1>13, <1>15, <1>16, <2>2
    <3>. QED  BY <1>15, <3>1, SubSeqProperties
  <2>. QED  BY <2>1, <2>2
<1>18. \A j \in 1..r : removed[j] = x[j] - 1
  BY <1>15, <1>17
<1>19. Lower(Abs(count), d) = Lower(Abs(count), Cardinality(Occurrences(q, e)))
  BY <1>1, <1>4, <1>15
<1>. WITNESS d \in Nat
<1>. WITNESS x
<1>. WITNESS r \in 0..d
<1>. QED  BY <1>15, <1>16, <1>17, <1>18, <1>19

(* What LREM takes, and what it leaves.                                    *)
Taken(q, removed) == {i \in 1..Len(q) : i - 1 \in ToSet(removed)}
Left(q, removed) == Restricted(q, {i \in 1..Len(q) : i - 1 \notin ToSet(removed)})

LEMMA TakenIs ==
  ASSUME NEW q \in Seq(Members), NEW count \in Int, NEW e, NEW removed, removed = ToRemove(q, count, e),
         NEW O, O = Occurrences(q, e)
  PROVE  /\ Taken(q, removed) \in SUBSET O /\ Len(removed) \in Nat
         /\ IsFiniteSet(O) /\ Cardinality(O) \in Nat
         /\ Cardinality(Taken(q, removed)) = Len(removed)
         /\ count >= 0 => Taken(q, removed) = FirstOf(O, count)
         /\ count < 0 => Len(removed) = Lower(Abs(count), Cardinality(O))
<1>1. O \in SUBSET (1..Len(q)) /\ O \in SUBSET Nat
  BY DEF Occurrences
<1>2. PICK d, x, r :
        /\ d \in Nat /\ r \in 0..d /\ Enumerates(x, d, Eligible(q, count, e))
        /\ r = IF count = 0 THEN d ELSE Lower(Abs(count), d)
        /\ Lower(Abs(count), d) = Lower(Abs(count), Cardinality(O))
        /\ removed \in Seq(Nat) /\ Len(removed) = r /\ \A j \in 1..r : removed[j] = x[j] - 1
  BY ToRemoveIs
<1>3. PICK E : E = Eligible(q, count, e)
  OBVIOUS
<1>4. E \in SUBSET O /\ E \in SUBSET Nat /\ (count >= 0 => E = O)
  BY <1>1, <1>3 DEF Eligible
<1>5. FirstPlaces(x, r) \in SUBSET E /\ Cardinality(FirstPlaces(x, r)) = r
  <2>1. Enumerates(x, d, E) /\ r \in 0..d
    BY <1>2, <1>3
  <2>2. E \in SUBSET Nat /\ d \in Nat
    BY <1>2, <1>4
  <2>3. HasFirstPlaces(E, x, r)
    BY <2>1, <2>2, FirstPlacesCount
  <2>. QED  BY <2>3 DEF HasFirstPlaces
<1>6. DOMAIN removed = 1..r
  BY <1>2
<1>7. ASSUME NEW i \in Taken(q, removed)
      PROVE  i \in FirstPlaces(x, r)
  <2>1. i \in 1..Len(q) /\ i - 1 \in ToSet(removed)
    BY DEF Taken
  <2>2. PICK j \in 1..r : removed[j] = i - 1
    BY <1>6, <2>1 DEF ToSet
  <2>3. x[j] \in FirstPlaces(x, r)
    BY DEF FirstPlaces
  <2>4. x[j] \in Nat
    BY <1>4, <1>5, <2>3
  <2>5. x[j] - 1 = i - 1
    BY <1>2, <2>2
  <2>6. x[j] = i
    BY <2>1, <2>4, <2>5
  <2>. QED  BY <2>3, <2>6
<1>8. ASSUME NEW i \in FirstPlaces(x, r)
      PROVE  i \in Taken(q, removed)
  <2>1. PICK j \in 1..r : x[j] = i
    BY DEF FirstPlaces
  <2>2. removed[j] = i - 1
    BY <1>2, <2>1
  <2>3. i - 1 \in ToSet(removed)
    BY <1>6, <2>2 DEF ToSet
  <2>4. i \in 1..Len(q)
    BY <1>1, <1>4, <1>5
  <2>. QED  BY <2>3, <2>4 DEF Taken
<1>9. Taken(q, removed) = FirstPlaces(x, r)
  BY <1>7, <1>8
<1>10. IsFiniteSet(O) /\ Cardinality(O) \in Nat
  <2>1. IsFiniteSet(1..Len(q))
    BY FS_Interval
  <2>. QED  BY <1>1, <2>1, FS_Subset, FS_CardinalityType
<1>11. count >= 0 => Taken(q, removed) = FirstOf(O, count)
  <2>. SUFFICES ASSUME count >= 0 PROVE FirstOf(O, count) = FirstPlaces(x, r)
    BY <1>9
  <2>1. Enumerates(x, d, O) /\ count \in Nat
    BY <1>2, <1>3, <1>4
  <2>2. r = IF count = 0 THEN d ELSE Lower(count, d)
    BY <1>2 DEF Abs
  <2>. QED  BY <1>1, <1>2, <2>1, <2>2, FirstOfIsFirstPlaces
<1>12. count < 0 => Len(removed) = Lower(Abs(count), Cardinality(O))
  BY <1>2
<1>13. Taken(q, removed) \in SUBSET O
  BY <1>4, <1>5, <1>9
<1>14. Len(removed) \in Nat /\ Cardinality(Taken(q, removed)) = Len(removed)
  BY <1>2, <1>5, <1>9
<1>. QED  BY <1>10, <1>11, <1>12, <1>13, <1>14

LEMMA LeftIs ==
  ASSUME NEW q \in Seq(Members), NEW count \in Int, NEW e \in Members,
         NEW removed, removed = ToRemove(q, count, e), NEW new, new = Left(q, removed)
  PROVE  /\ new \in Seq(Members) /\ Len(new) = Len(q) - Len(removed)
         /\ RemovedExactly(q, new, <<count, e>>)
<1>1. PICK O, X, K : /\ O = Occurrences(q, e) /\ X = Taken(q, removed)
                     /\ K = {i \in 1..Len(q) : i - 1 \notin ToSet(removed)}
  OBVIOUS
<1>2. /\ X \in SUBSET O /\ Len(removed) \in Nat /\ IsFiniteSet(O) /\ Cardinality(O) \in Nat
      /\ Cardinality(X) = Len(removed)
      /\ count >= 0 => X = FirstOf(O, count)
      /\ count < 0 => Len(removed) = Lower(Abs(count), Cardinality(O))
  BY <1>1, TakenIs
<1>3. PICK D : D = 1..Len(q)
  OBVIOUS
<1>4. O \in SUBSET D /\ K = D \ X /\ K \in SUBSET (1..Len(q))
  BY <1>1, <1>3 DEF Occurrences, Taken
<1>5. new = Restricted(q, K)
  BY <1>1 DEF Left
<1>6. new \in Seq(Members) /\ Len(new) = Cardinality(K)
  BY <1>4, <1>5, RestrictedCounts
<1>7. Len(new) = Len(q) - Len(removed)
  <2>1. IsFiniteSet(D) /\ Cardinality(D) = Len(q)
    <3>1. PICK l \in Nat : l = Len(q)
      OBVIOUS
    <3>2. IsFiniteSet(1..l) /\ Cardinality(1..l) = IF 1 > l THEN 0 ELSE l - 1 + 1
      BY FS_Interval
    <3>. QED  BY <1>3, <3>1, <3>2
  <2>2. Cardinality(D \ X) = Cardinality(D) - Cardinality(D \cap X)
    BY <2>1, RemoveCounts
  <2>3. D \cap X = X
    BY <1>2, <1>4
  <2>. QED  BY <1>2, <1>4, <1>6, <2>1, <2>2, <2>3
<1>8. Others(new, e) = Others(q, e)
  <2>1. PICK V : V = Members \ {e}
    OBVIOUS
  <2>2. \A i \in 1..Len(q) : q[i] \in V <=> i \notin O
    BY <1>1, <2>1 DEF Occurrences
  <2>3. \A j \in 1..Len(new) : new[j] \in V <=> j \notin Occurrences(new, e)
    BY <1>6, <2>1 DEF Occurrences
  <2>4. PICK N : N = (1..Len(new)) \ Occurrences(new, e)
    OBVIOUS
  <2>5. N = Holding(new, 1..Len(new), V)
    BY <2>3, <2>4 DEF Holding
  <2>6. Restricted(new, N) = Restricted(q, Holding(q, K, V))
    BY <1>4, <1>5, <2>5, RestrictedTwice
  <2>7. Holding(q, K, V) = D \ O
    BY <1>2, <1>3, <1>4, <2>2 DEF Holding
  <2>. QED  BY <1>1, <1>3, <2>4, <2>6, <2>7 DEF Others
<1>9. Cardinality(Occurrences(new, e)) = Cardinality(O) - Len(removed)
  <2>1. PICK V, N : V = {e} /\ N = Occurrences(new, e)
    OBVIOUS
  <2>2. N = Holding(new, 1..Len(new), V) /\ N \in SUBSET (1..Len(new))
    BY <2>1 DEF Occurrences, Holding
  <2>3. Restricted(new, N) = Restricted(q, Holding(q, K, V))
    BY <1>4, <1>5, <2>2, RestrictedTwice
  <2>4. PICK P : P = O \ X
    OBVIOUS
  <2>5. Holding(q, K, V) = P /\ P \in SUBSET (1..Len(q))
    BY <1>1, <1>3, <1>4, <2>1, <2>4 DEF Occurrences, Holding
  <2>6. Cardinality(N) = Len(Restricted(new, N))
    BY <1>6, <2>2, RestrictedCounts
  <2>7. Cardinality(P) = Len(Restricted(q, P))
    BY <2>5, RestrictedCounts
  <2>8. Cardinality(P) = Cardinality(O) - Cardinality(O \cap X)
    BY <1>2, <2>4, RemoveCounts
  <2>9. O \cap X = X
    BY <1>2
  <2>. QED  BY <1>2, <2>1, <2>3, <2>5, <2>6, <2>7, <2>8, <2>9
<1>10. PICK args : args = <<count, e>>
  OBVIOUS
<1>11. args[1] = count /\ args[2] = e
  BY <1>10
<1>12. count >= 0 => new = Restricted(q, (1..Len(q)) \ FirstOf(O, count))
  BY <1>2, <1>3, <1>4, <1>5
<1>13. count < 0 => Cardinality(Occurrences(new, e)) = Higher(Cardinality(O) + count, 0)
  BY <1>2, <1>9 DEF Higher, Lower, Abs
<1>14. RemovedExactly(q, new, args)
  BY <1>1, <1>8, <1>11, <1>12, <1>13 DEF RemovedExactly
<1>. QED  BY <1>6, <1>7, <1>10, <1>14

LEMMA LRemEffect ==
  ASSUME NoListIsEmpty, NEW k \in Keys, NEW e \in Members, NEW count \in Counts \cup {Malformed},
         LRemCommand(k, count, e)
  PROVE  Explained(k)
<1>1. PICK args : args = <<count, e>>
  OBVIOUS
<1>2. CASE count = Malformed
  <2>1. Unmoved("lrem", k, args, Error)
    BY <1>1, <1>2 DEF LRemCommand
  <2>. QED  BY <2>1, RefusalEffect
<1>3. CASE count # Malformed /\ db[k] = Absent
  <2>1. Unmoved("lrem", k, args, Integer(0))
    BY <1>1, <1>3 DEF LRemCommand
  <2>2. db' = db /\ ListIn(db, k) = <<>>
    BY <1>3, <2>1 DEF Unmoved, ListIn
  <2>3. \A m \in Nat : Integer(0) = Integer(m) => Tells("lrem", k, args, m)
    BY <2>2, RepliesDiffer DEF Tells
  <2>4. ~Is(k, "list")
    BY <1>3 DEF Is
  <2>5. Effect("lrem", k, args, Integer(0))
    BY <2>1, <2>3, <2>4, UnmovedEffect
  <2>. QED  BY <2>5 DEF Explained
<1>4. CASE count # Malformed /\ db[k] # Absent /\ ~Is(k, "list")
  <2>1. Unmoved("lrem", k, args, NoReply)
    BY <1>1, <1>4 DEF LRemCommand
  <2>. QED  BY <2>1, RefusalEffect
<1>5. CASE count # Malformed /\ db[k] # Absent /\ Is(k, "list")
  <2>1. PICK q \in Seq(Members) : q = ListAt(k) /\ q = ListIn(db, k)
    BY <1>5, ContentIs
  <2>2. count \in Int
    BY <1>5, InputAssumption
  <2>3. PICK removed, new : removed = ToRemove(q, count, e) /\ new = Left(q, removed)
    OBVIOUS
  <2>4. /\ new \in Seq(Members) /\ Len(new) = Len(q) - Len(removed)
        /\ RemovedExactly(q, new, args)
    BY <1>1, <2>2, <2>3, LeftIs
  <2>5. Write("lrem", k, args, Kept(k, new, <<>>), Integer(Len(removed)))
    BY <1>1, <1>5, <2>1, <2>3 DEF LRemCommand, Left
  <2>6. ListIn(db', k) = new => \A m \in Nat : Integer(Len(removed)) = Integer(m) => Tells("lrem", k, args, m)
    BY <2>1, <2>4, RepliesDiffer DEF Tells
  <2>7. ListIn(db', k) = new => Edits("lrem", k, args)
    BY <2>1, <2>4 DEF Edits
  <2>. QED  BY <1>5, <2>4, <2>5, <2>6, <2>7, KeptEffect, RepliesDiffer
<1>. QED  BY <1>2, <1>3, <1>4, <1>5

(***************************************************************************)
(* Every step.                                                             *)
(***************************************************************************)
LEMMA ReadingEffect ==
  ASSUME NoListIsEmpty, NEW x \in Keys, NEW args, NEW reply,
         NEW command, command \notin {"sadd", "srem", "smove", "lrem", "hset", "ltrim", "lset"},
         Unmoved(command, x, args, reply)
  PROVE  \E y \in Keys : Explained(y)
<1>1. \A n \in Nat : reply = Integer(n) => Tells(command, x, args, n)
  BY DEF Tells
<1>2. Is(x, "list") /\ reply \notin {Error, NoReply} => Edits(command, x, args)
  BY DEF Edits
<1>3. Effect(command, x, args, reply)
  BY <1>1, <1>2, UnmovedEffect
<1>. QED  BY <1>3 DEF Explained

LEMMA ReadEffect ==
  ASSUME NoListIsEmpty, NEW k \in Keys, ReadStep(k)
  PROVE  \E x \in Keys : Explained(x)
<1>1. CASE \E ks \in Sources : \/ Unmoved("sunion", ks[1], ks, Union(ks))
                               \/ Unmoved("sinter", ks[1], ks, Intersection(ks))
                               \/ Unmoved("sdiff", ks[1], ks, SDiff(ks))
  <2>1. PICK ks \in Sources : \/ Unmoved("sunion", ks[1], ks, Union(ks))
                              \/ Unmoved("sinter", ks[1], ks, Intersection(ks))
                              \/ Unmoved("sdiff", ks[1], ks, SDiff(ks))
    BY <1>1
  <2>2. PICK x \in Keys : x = ks[1]
    <3>1. PICK n \in 1..Cardinality(Keys) : ks \in [1..n -> Keys]
      BY DEF Sources
    <3>2. 1 \in 1..n
      OBVIOUS
    <3>. QED  BY <3>1, <3>2
  <2>3. CASE Unmoved("sunion", x, ks, Union(ks))
    BY <2>3, ReadingEffect
  <2>4. CASE Unmoved("sinter", x, ks, Intersection(ks))
    BY <2>4, ReadingEffect
  <2>5. CASE Unmoved("sdiff", x, ks, SDiff(ks))
    BY <2>5, ReadingEffect
  <2>. QED  BY <2>1, <2>2, <2>3, <2>4, <2>5
<1>2. CASE \E m \in Members : Unmoved("sismember", k, m, SIsMember(k, m))
  BY <1>2, ReadingEffect
<1>3. CASE Unmoved("scard", k, <<>>, SCard(k))
  BY <1>3, ReadingEffect
<1>4. CASE Unmoved("smembers", k, <<>>, SMembers(k))
  BY <1>4, ReadingEffect
<1>5. CASE \E f \in Fields : Unmoved("hget", k, f, HGet(k, f))
  BY <1>5, ReadingEffect
<1>6. CASE Unmoved("hgetall", k, <<>>, HGetAll(k))
  BY <1>6, ReadingEffect
<1>7. CASE Unmoved("llen", k, <<>>, LLen(k))
  BY <1>7, ReadingEffect
<1>8. CASE \E n \in Indices \cup {Malformed} : Unmoved("lindex", k, n, LIndex(k, n))
  BY <1>8, ReadingEffect
<1>9. CASE \E first, last \in Indices \cup {Malformed} :
             Unmoved("lrange", k, <<first, last>>, LRange(k, first, last))
  <2>1. PICK first, last : Unmoved("lrange", k, <<first, last>>, LRange(k, first, last))
    BY <1>9
  <2>. QED  BY <2>1, ReadingEffect
<1>. QED  BY <1>1, <1>2, <1>3, <1>4, <1>5, <1>6, <1>7, <1>8, <1>9 DEF ReadStep

LEMMA SetEffect ==
  ASSUME NoListIsEmpty, NEW k \in Keys, SetCommand(k)
  PROVE  Explained(k)
<1>1. PICK item : item = Fresh("string", Blob)
  OBVIOUS
<1>2. Write("set", k, <<>>, item, Ok)
  BY <1>1 DEF SetCommand
<1>3. Good(item)
  <2>1. Fits("string", Blob)
    BY DEF Fits
  <2>2. IsFresh(item, "string", Blob)
    BY <1>1, <2>1, FreshIsGood
  <2>. QED  BY <2>2 DEF IsFresh
<1>4. DeadlineGoes("set", db[k], item)
  BY <1>1, FreshDeadline DEF RenewingCommands, Replacing, Renewing
<1>5. db'[k] = item => \A m \in Nat : Ok = Integer(m) => Tells("set", k, <<>>, m)
  BY DEF Tells
<1>6. db'[k] = item /\ Is(k, "list") => Edits("set", k, <<>>)
  BY DEF Edits
<1>7. Effect("set", k, <<>>, Ok)
  BY <1>2, <1>3, <1>4, <1>5, <1>6, WriteEffect, RepliesDiffer
<1>. QED  BY <1>7 DEF Explained

LEMMA ExpireEffect ==
  ASSUME NoListIsEmpty, NEW k \in Keys, ExpireCommand(k)
  PROVE  Explained(k)
<1>1. PICK item : item = [db[k] EXCEPT !.volatile = TRUE]
  OBVIOUS
<1>2. db[k] # Absent /\ Write("expire", k, <<>>, item, Integer(1))
  BY <1>1 DEF ExpireCommand
<1>3. PICK x \in Items : x = db[k] /\ Good(x)
  BY <1>2, ContentIs DEF Good
<1>4. x = [type |-> x.type, value |-> x.value, volatile |-> x.volatile]
  BY ItemIs
<1>5. PICK t, v : t = x.type /\ v = x.value
  OBVIOUS
<1>6. item = [type |-> t, value |-> v, volatile |-> TRUE]
  BY <1>1, <1>3, <1>4, <1>5
<1>7. item.type = t /\ item.value = v /\ item.volatile = TRUE
  BY <1>6
<1>8. Good(item)
  <2>1. \/ t = "string" /\ v = Blob
        \/ t = "set" /\ v \in SUBSET AllMembers
        \/ t = "list" /\ v \in Seq(Members)
        \/ t = "hash" /\ v \in Hashes
    <3>1. x.type \in {"string", "set", "list", "hash"}
      BY ItemIs
    <3>2. /\ x.type = "string" => x.value = Blob
          /\ x.type = "set" => x.value \in SUBSET AllMembers
          /\ x.type = "list" => x.value \in Seq(Members)
          /\ x.type = "hash" => x.value \in Hashes
      BY ItemIs
    <3>. QED  BY <1>5, <3>1, <3>2
  <2>2. item \in Items
    BY <1>6, <2>1 DEF Items
  <2>3. t = "list" => v # <<>>
    BY <1>2, <1>3, <1>5 DEF Good
  <2>. QED  BY <1>7, <2>2, <2>3 DEF Good
<1>9. DeadlineGoes("expire", db[k], item)
  <2>1. x.volatile \in BOOLEAN
    BY ItemIs
  <2>2. x.volatile # item.volatile => ~x.volatile
    BY <1>7, <2>1
  <2>. QED  BY <1>3, <2>2 DEF DeadlineGoes
<1>10. db'[k] = item => \A m \in Nat : Integer(1) = Integer(m) => Tells("expire", k, <<>>, m)
  BY DEF Tells
<1>11. db'[k] = item /\ Is(k, "list") => Edits("expire", k, <<>>)
  BY DEF Edits
<1>12. Effect("expire", k, <<>>, Integer(1))
  BY <1>2, <1>8, <1>9, <1>10, <1>11, WriteEffect, RepliesDiffer
<1>. QED  BY <1>12 DEF Explained

LEMMA VanishEffect ==
  ASSUME NoListIsEmpty, NEW k \in Keys, Vanish(k)
  PROVE  Explained(k)
<1>1. Write("time", k, <<>>, Absent, Nil)
  BY DEF Vanish
<1>2. Good(Absent) /\ DeadlineGoes("time", db[k], Absent)
  BY DEF Good, DeadlineGoes
<1>3. db'[k] = Absent => \A m \in Nat : Nil = Integer(m) => Tells("time", k, <<>>, m)
  BY DEF Tells
<1>4. db'[k] = Absent /\ Is(k, "list") => Edits("time", k, <<>>)
  BY DEF Edits
<1>5. Effect("time", k, <<>>, Nil)
  BY <1>1, <1>2, <1>3, <1>4, WriteEffect, RepliesDiffer
<1>. QED  BY <1>5 DEF Explained

LEMMA NextEffect ==
  ASSUME NoListIsEmpty, Next
  PROVE  \E x \in Keys : Explained(x)
<1>1. PICK k \in Keys : \/ SetStep(k) \/ HashStep(k) \/ ListStep(k) \/ ReadStep(k)
                        \/ SetCommand(k) \/ ExpireCommand(k) \/ Vanish(k)
  BY DEF Next
<1>2. CASE SetStep(k)
  <2>1. CASE \E ms \in (SUBSET Members) \ {{}} : SAddCommand(k, ms)
    BY <2>1, SAddEffect
  <2>2. CASE \E ms \in (SUBSET Members) \ {{}} : SRemCommand(k, ms)
    BY <2>2, SRemEffect
  <2>3. CASE \E to \in Keys, m \in Members : SMoveCommand(k, to, m)
    BY <2>3, SMoveEffect
  <2>4. CASE \E ks \in Sources : SUnionStoreCommand(k, ks)
    BY <2>4, SUnionStoreEffect
  <2>5. CASE \E ks \in Sources : SInterStoreCommand(k, ks)
    BY <2>5, SInterStoreEffect
  <2>. QED  BY <1>2, <2>1, <2>2, <2>3, <2>4, <2>5 DEF SetStep
<1>3. CASE HashStep(k)
  <2>1. CASE HSetOddCommand(k)
    BY <2>1, HSetOddEffect
  <2>2. CASE \E fs \in (SUBSET Fields) \ {{}} : \E new \in [fs -> Values] : HSetCommand(k, new)
    <3>1. PICK fs \in SUBSET Fields : fs # {} /\ \E new \in [fs -> Values] : HSetCommand(k, new)
      BY <2>2
    <3>2. PICK new \in [fs -> Values] : HSetCommand(k, new)
      BY <3>1
    <3>. QED  BY <3>1, <3>2, HSetEffect
  <2>. QED  BY <1>3, <2>1, <2>2 DEF HashStep
<1>4. CASE ListStep(k)
  <2>1. CASE \E e \in Members : RPushCommand(k, e)
    BY <2>1, RPushEffect
  <2>2. CASE \E e \in Members, n \in Indices \cup {Malformed} : LSetCommand(k, n, e)
    BY <2>2, LSetEffect
  <2>3. CASE \E e \in Members, n \in Counts \cup {Malformed} : LRemCommand(k, n, e)
    BY <2>3, LRemEffect
  <2>4. CASE \E first, last \in Indices \cup {Malformed} : LTrimCommand(k, first, last)
    BY <2>4, LTrimEffect
  <2>. QED  BY <1>4, <2>1, <2>2, <2>3, <2>4 DEF ListStep
<1>5. CASE ReadStep(k)
  BY <1>5, ReadEffect
<1>6. CASE SetCommand(k) \/ ExpireCommand(k) \/ Vanish(k)
  BY <1>6, SetEffect, ExpireEffect, VanishEffect
<1>. QED  BY <1>1, <1>2, <1>3, <1>4, <1>5, <1>6

(* A step that changes a variable has an effect on some key.               *)
LEMMA StepEffect ==
  ASSUME NoListIsEmpty, Next
  PROVE  \E k \in Keys : \E command, args, reply : Effect(command, k, args, reply)
BY NextEffect DEF Explained

LEMMA NoListIsEmptyInit == Init => NoListIsEmpty
BY DEF Init, NoListIsEmpty, TypeOK, Is

LEMMA NoListIsEmptyNext == NoListIsEmpty /\ [Next]_vars => NoListIsEmpty'
<1>. SUFFICES ASSUME NoListIsEmpty, [Next]_vars PROVE NoListIsEmpty'
  OBVIOUS
<1>1. CASE Next
  BY <1>1, StepEffect DEF Effect
<1>2. CASE UNCHANGED vars
  BY <1>2 DEF vars, NoListIsEmpty, TypeOK, Is
<1>. QED  BY <1>1, <1>2

(***************************************************************************)
(* The theorems.                                                           *)
(***************************************************************************)

(* No command leaves a list without elements, whatever came before: the    *)
(* invariant is inductive as it stands (LTrimCommand, LRemCommand).        *)
THEOREM NoListStaysEmpty == Spec => []NoListIsEmpty
<1>1. Init => NoListIsEmpty
  BY NoListIsEmptyInit
<1>2. NoListIsEmpty /\ [Next]_vars => NoListIsEmpty'
  BY NoListIsEmptyNext
<1>. QED  BY <1>1, <1>2, PTL DEF Spec

(* LINDEX and LRANGE find what positions from either end name, on lists of *)
(* any length (LIndexCommand, LRangeCommand).                              *)
THEOREM ListsReadExactly == Spec => []ListReadsAreExact
<1>1. NoListIsEmpty => ListReadsAreExact
  BY ListReads
<1>. QED  BY <1>1, NoListStaysEmpty, PTL

(* LTRIM, LSET and LREM leave the elements they should, in their order     *)
(* (LTrimCommand, LSetCommand, LRemCommand).                               *)
THEOREM ListsEditExactly == Spec => ListEditsAreExact
<1>1. NoListIsEmpty /\ [Next]_vars =>
        [\A k \in Keys :
           (Is(k, "list") /\ answer'.key = k /\ answer'.reply \notin {Error, NoReply}) =>
              LET old == ListIn(db, k)
                  new == ListIn(db', k)
                  args == answer'.args
              IN CASE answer'.command = "ltrim" -> TrimmedExactly(old, new, args)
                   [] answer'.command = "lset" -> ReplacedExactly(old, new, args)
                   [] answer'.command = "lrem" -> RemovedExactly(old, new, args)
                   [] OTHER -> TRUE]_vars
  <2>. SUFFICES ASSUME NoListIsEmpty, Next, NEW k \in Keys,
                       Is(k, "list"), answer'.key = k, answer'.reply \notin {Error, NoReply}
                PROVE  CASE answer'.command = "ltrim" ->
                              TrimmedExactly(ListIn(db, k), ListIn(db', k), answer'.args)
                         [] answer'.command = "lset" ->
                              ReplacedExactly(ListIn(db, k), ListIn(db', k), answer'.args)
                         [] answer'.command = "lrem" ->
                              RemovedExactly(ListIn(db, k), ListIn(db', k), answer'.args)
                         [] OTHER -> TRUE
    OBVIOUS
  <2>1. PICK x, command, args, reply : x \in Keys /\ Effect(command, x, args, reply)
    BY StepEffect
  <2>2. answer' = [command |-> command, key |-> x, args |-> args, reply |-> reply]
    BY <2>1 DEF Effect
  <2>3. x = k /\ command = answer'.command /\ args = answer'.args /\ reply = answer'.reply
    BY <2>2
  <2>4. Edits(answer'.command, k, answer'.args)
    BY <2>1, <2>3 DEF Effect
  <2>. QED  BY <2>4 DEF Edits
<1>. QED  BY <1>1, NoListStaysEmpty, PTL DEF Spec, ListEditsAreExact

(* A request that fails changes nothing, but for SMOVE into what is no set *)
(* (SMoveCommand).                                                         *)
THEOREM FailuresLeaveNoTrace == Spec => FailuresChangeNothing
<1>1. NoListIsEmpty /\ [Next]_vars =>
        [answer'.reply \in {Error, NoReply} =>
           \/ db' = db
           \/ /\ answer'.command = "smove"
              /\ ~Usable(answer'.args[1], "set")
              /\ db' = Lost(answer'.key, answer'.args[2])]_vars
  <2>. SUFFICES ASSUME NoListIsEmpty, Next, answer'.reply \in {Error, NoReply}
                PROVE  \/ db' = db
                       \/ /\ answer'.command = "smove"
                          /\ ~Usable(answer'.args[1], "set")
                          /\ db' = Lost(answer'.key, answer'.args[2])
    OBVIOUS
  <2>1. PICK x, command, args, reply : x \in Keys /\ Effect(command, x, args, reply)
    BY StepEffect
  <2>2. answer' = [command |-> command, key |-> x, args |-> args, reply |-> reply]
    BY <2>1 DEF Effect
  <2>3. /\ x = answer'.key /\ command = answer'.command
        /\ args = answer'.args /\ reply = answer'.reply
    BY <2>2
  <2>. QED  BY <2>1, <2>3 DEF Effect
<1>. QED  BY <1>1, NoListStaysEmpty, PTL DEF Spec, FailuresChangeNothing

(* The number that is answered is what happened to the collection, for     *)
(* HSET as far as HsetTold says (SAddCommand, SRemCommand, SMoveCommand,   *)
(* HsetCommand, LRemCommand).                                              *)
THEOREM RepliesAreTrue == Spec => RepliesTellChanges
<1>1. NoListIsEmpty /\ [Next]_vars =>
        [\A n \in Numbers : answer'.reply = Integer(n) =>
           LET k == answer'.key
               args == answer'.args
               old == SetIn(db, k)
               new == SetIn(db', k)
           IN CASE answer'.command = "sadd" ->
                     new = old \cup args /\ Cardinality(new) = Cardinality(old) + n
                [] answer'.command = "srem" ->
                     new = old \ args /\ Cardinality(new) = Cardinality(old) - n
                [] answer'.command = "smove" -> SMoveTold(k, args, n, db, db')
                [] answer'.command = "lrem" -> Len(ListIn(db', k)) = Len(ListIn(db, k)) - n
                [] answer'.command = "hset" -> HsetTold(HashIn(db, k), HashIn(db', k), n)
                [] OTHER -> TRUE]_vars
  <2>. SUFFICES ASSUME NoListIsEmpty, Next, NEW n \in Numbers, answer'.reply = Integer(n)
                PROVE  LET k == answer'.key
                           args == answer'.args
                           old == SetIn(db, k)
                           new == SetIn(db', k)
                       IN CASE answer'.command = "sadd" ->
                                 new = old \cup args /\ Cardinality(new) = Cardinality(old) + n
                            [] answer'.command = "srem" ->
                                 new = old \ args /\ Cardinality(new) = Cardinality(old) - n
                            [] answer'.command = "smove" -> SMoveTold(k, args, n, db, db')
                            [] answer'.command = "lrem" ->
                                 Len(ListIn(db', k)) = Len(ListIn(db, k)) - n
                            [] answer'.command = "hset" -> HsetTold(HashIn(db, k), HashIn(db', k), n)
                            [] OTHER -> TRUE
    OBVIOUS
  <2>1. PICK x, command, args, reply : x \in Keys /\ Effect(command, x, args, reply)
    BY StepEffect
  <2>2. answer' = [command |-> command, key |-> x, args |-> args, reply |-> reply]
    BY <2>1 DEF Effect
  <2>3. /\ x = answer'.key /\ command = answer'.command
        /\ args = answer'.args /\ reply = answer'.reply
    BY <2>2
  <2>4. n \in Nat
    BY DEF Numbers
  <2>5. Tells(answer'.command, answer'.key, answer'.args, n)
    BY <2>1, <2>3, <2>4 DEF Effect
  <2>. QED  BY <2>5 DEF Tells
<1>. QED  BY <1>1, NoListStaysEmpty, PTL DEF Spec, RepliesTellChanges

(* Deadlines go with replaced values and come with EXPIRE only, SADD, HSET *)
(* and SMOVE set aside (SRemCommand, LTrimCommand, LRemCommand,            *)
(* LSetCommand, RPushCommand).                                             *)
THEOREM EditsKeepTheDeadline == Spec => EditsKeepDeadlines
<1>1. NoListIsEmpty /\ [Next]_vars =>
        [\A k \in Keys :
           (/\ db[k] # Absent /\ db'[k] # Absent
            /\ db[k].volatile # db'[k].volatile
            /\ answer'.command \notin Renewing) =>
              IF db[k].volatile
              THEN answer'.command \in Replacing ELSE answer'.command = "expire"]_vars
  <2>. SUFFICES ASSUME NoListIsEmpty, Next, NEW k \in Keys
                PROVE  DeadlineGoes(answer'.command, db[k], db'[k])
    BY DEF DeadlineGoes, RenewingCommands
  <2>1. PICK x, command, args, reply : x \in Keys /\ Effect(command, x, args, reply)
    BY StepEffect
  <2>2. answer'.command = command
    BY <2>1 DEF Effect
  <2>. QED  BY <2>1, <2>2 DEF Effect
<1>. QED  BY <1>1, NoListStaysEmpty, PTL DEF Spec, EditsKeepDeadlines
=============================================================================
