-------------------------- MODULE SortedSetProofs ---------------------------
(***************************************************************************)
(* Theorems about SortedSet, for any members, scores, heights and ranges.  *)
(*                                                                         *)
(* The argument is about places.  Linked(z, N, a, v, g) says that z is a   *)
(* skip list of N nodes: a gives the node at each place, from the head at  *)
(* place 0 to the end of the list behind place N, v the scores, which rise *)
(* along the places, and g the heights; a link of level i at place p leads *)
(* to the next place behind p that is as high as i, and its span, on the   *)
(* levels in use, is the number of places between the two.  A descent      *)
(* whose stops lie ahead up to place k then ends at place k on the lowest  *)
(* level, and on each other one at the last place up to k that reaches it: *)
(* what update and rank hold.  From there _insert and _removeNode put in a *)
(* place, or take one out, and every method leaves a list that is Linked.  *)
(*                                                                         *)
(* Whole adds that the length is N and that the map has the scores of the  *)
(* nodes; it is kept by every step, and with the scores being those of the *)
(* instance it is the inductive invariant.                                 *)
(***************************************************************************)
EXTENDS SortedSet, SequenceTheorems, FiniteSetTheorems, WellFoundedInduction, TLAPS

(***************************************************************************)
(* Numbers up to n, in place of induction.                                 *)
(***************************************************************************)
LEMMA Reach ==
  ASSUME NEW n \in Nat, NEW G, 0 \in G, \A i \in 1..n : i - 1 \in G => i \in G
  PROVE  \A i \in 0..n : i \in G
<1>. SUFFICES ASSUME NEW m \in 0..n, m \notin G PROVE FALSE
  OBVIOUS
<1>1. PICK N : N = {i \in 0..n : i \notin G}
  OBVIOUS
<1>2. N \in SUBSET Nat /\ N # {}
  BY <1>1
<1>3. PICK R : R = {ss \in Nat \X Nat : ss[1] < ss[2]}
  OBVIOUS
<1>4. IsWellFoundedOn(R, Nat)
  BY <1>3, NatLessThanWellFounded, Zenon DEF OpToRel
<1>5. PICK u \in N : \A v \in N : ~(<<v, u>> \in R)
  BY <1>2, <1>4, WFMin, Zenon
<1>6. u \in 0..n /\ u \notin G
  BY <1>1
<1>7. u # 0 /\ u - 1 \in 0..n /\ u \in 1..n
  BY <1>6
<1>8. u - 1 \notin G
  BY <1>6, <1>7
<1>9. u - 1 \in N /\ <<u - 1, u>> \in R
  BY <1>1, <1>3, <1>6, <1>7, <1>8
<1>. QED  BY <1>5, <1>9

(***************************************************************************)
(* Heights.  g has the heights of the nodes by their places; place 0 is    *)
(* the head, and the place behind the last one is the end of the list.     *)
(***************************************************************************)
Heighted(g, N) == N \in Nat /\ g \in [0..N -> Nat]

(* The next place behind p, and the last one up to k, that reaches level i. *)
NextUp(g, N, p, i, q) ==
  /\ q \in (p + 1)..(N + 1) /\ (q <= N => g[q] >= i)
  /\ \A r \in (p + 1)..(q - 1) : g[r] < i

LastUp(g, k, i, p) ==
  /\ p \in 0..k /\ g[p] >= i
  /\ \A r \in (p + 1)..k : g[r] < i

(* There is a next place, and a last one when some place up to k is high   *)
(* enough, and neither is two places.                                      *)
LEMMA NextUpExists ==
  ASSUME NEW N, NEW g, Heighted(g, N), NEW p \in 0..N, NEW i \in Nat
  PROVE  \E q : NextUp(g, N, p, i, q)
<1>1. PICK G : G = {d \in 0..(N - p) : \A r \in (p + 1)..(p + d) : g[r] < i}
  OBVIOUS
<1>. SUFFICES ASSUME \A q : ~NextUp(g, N, p, i, q) PROVE FALSE
  OBVIOUS
<1>2. N \in Nat /\ g \in [0..N -> Nat] /\ N - p \in Nat
  BY DEF Heighted
<1>3. 0 \in G
  <2>1. (p + 1)..(p + 0) = {}
    OBVIOUS
  <2>2. 0 \in 0..(N - p)
    BY <1>2
  <2>. QED  BY <1>1, <2>1, <2>2
<1>4. ASSUME NEW d \in 1..(N - p), d - 1 \in G
      PROVE  d \in G
  <2>1. PICK q : q = p + d
    OBVIOUS
  <2>2. q \in (p + 1)..(N + 1) /\ q <= N /\ g[q] \in Nat
    BY <1>2, <2>1
  <2>3. \A r \in (p + 1)..(q - 1) : g[r] < i
    BY <1>1, <1>4, <2>1
  <2>4. ~(g[q] >= i)
    BY <2>2, <2>3 DEF NextUp
  <2>5. \A r \in (p + 1)..(p + d) : g[r] < i
    <3>. SUFFICES ASSUME NEW r \in (p + 1)..(p + d) PROVE g[r] < i
      OBVIOUS
    <3>1. r = q \/ r \in (p + 1)..(q - 1)
      BY <2>1
    <3>. QED  BY <2>2, <2>3, <2>4, <3>1
  <2>6. d \in 0..(N - p)
    OBVIOUS
  <2>. QED  BY <1>1, <2>5, <2>6
<1>5. N - p \in G
  <2>1. \A d \in 0..(N - p) : d \in G
    BY <1>2, <1>3, <1>4, Reach
  <2>. QED  BY <1>2, <2>1
<1>6. \A r \in (p + 1)..N : g[r] < i
  <2>1. p + (N - p) = N
    BY <1>2
  <2>. QED  BY <1>1, <1>5, <2>1
<1>7. NextUp(g, N, p, i, N + 1)
  BY <1>2, <1>6 DEF NextUp
<1>. QED  BY <1>7

LEMMA LastUpExists ==
  ASSUME NEW N, NEW g, Heighted(g, N), NEW k \in 0..N, NEW i \in Nat, NEW b \in 0..k, g[b] >= i
  PROVE  \E p \in b..k : LastUp(g, k, i, p)
<1>1. PICK G : G = {d \in 0..(k - b) : \A r \in (k - d + 1)..k : g[r] < i}
  OBVIOUS
<1>. SUFFICES ASSUME \A p \in b..k : ~LastUp(g, k, i, p) PROVE FALSE
  OBVIOUS
<1>2. N \in Nat /\ g \in [0..N -> Nat] /\ k - b \in Nat
  BY DEF Heighted
<1>3. 0 \in G
  <2>1. (k - 0 + 1)..k = {}
    OBVIOUS
  <2>2. 0 \in 0..(k - b)
    BY <1>2
  <2>. QED  BY <1>1, <2>1, <2>2
<1>4. ASSUME NEW d \in 1..(k - b), d - 1 \in G
      PROVE  d \in G
  <2>1. PICK p : p = k - d + 1
    OBVIOUS
  <2>2. p \in b..k /\ p \in 0..k /\ g[p] \in Nat
    BY <1>2, <2>1
  <2>3. \A r \in (p + 1)..k : g[r] < i
    <3>1. k - (d - 1) + 1 = p + 1
      BY <2>1
    <3>. QED  BY <1>1, <1>4, <3>1
  <2>4. ~(g[p] >= i)
    BY <2>2, <2>3 DEF LastUp
  <2>5. \A r \in p..k : g[r] < i
    <3>. SUFFICES ASSUME NEW r \in p..k PROVE g[r] < i
      OBVIOUS
    <3>1. r = p \/ r \in (p + 1)..k
      BY <2>2
    <3>. QED  BY <2>2, <2>3, <2>4, <3>1
  <2>6. d \in 0..(k - b)
    OBVIOUS
  <2>. QED  BY <1>1, <2>1, <2>5, <2>6
<1>5. k - b \in G
  <2>1. \A d \in 0..(k - b) : d \in G
    BY <1>2, <1>3, <1>4, Reach
  <2>. QED  BY <1>2, <2>1
<1>6. \A r \in (b + 1)..k : g[r] < i
  <2>1. k - (k - b) + 1 = b + 1
    BY <1>2
  <2>. QED  BY <1>1, <1>5, <2>1
<1>7. b \in b..k /\ LastUp(g, k, i, b)
  BY <1>2, <1>6 DEF LastUp
<1>. QED  BY <1>7

LEMMA OneUp ==
  ASSUME NEW N, NEW g, Heighted(g, N), NEW i \in Nat
  PROVE  /\ \A k \in 0..N : \A p, q : LastUp(g, k, i, p) /\ LastUp(g, k, i, q) => p = q
         /\ \A p \in 0..N : \A q, r : NextUp(g, N, p, i, q) /\ NextUp(g, N, p, i, r) => q = r
<1>1. N \in Nat /\ g \in [0..N -> Nat]
  BY DEF Heighted
<1>2. ASSUME NEW k \in 0..N, NEW p, NEW q, LastUp(g, k, i, p), LastUp(g, k, i, q)
      PROVE  p = q
  <2>1. p \in 0..k /\ q \in 0..k /\ g[p] \in Nat /\ g[q] \in Nat /\ g[p] >= i /\ g[q] >= i
    BY <1>1, <1>2 DEF LastUp
  <2>2. ~(q \in (p + 1)..k) /\ ~(p \in (q + 1)..k)
    BY <1>2, <2>1 DEF LastUp
  <2>. QED  BY <2>1, <2>2
<1>3. ASSUME NEW p \in 0..N, NEW q, NEW r, NextUp(g, N, p, i, q), NextUp(g, N, p, i, r)
      PROVE  q = r
  <2>1. q \in (p + 1)..(N + 1) /\ r \in (p + 1)..(N + 1)
        /\ (q <= N => g[q] >= i /\ g[q] \in Nat) /\ (r <= N => g[r] >= i /\ g[r] \in Nat)
    BY <1>1, <1>3 DEF NextUp
  <2>2. ~(q \in (p + 1)..(r - 1)) /\ ~(r \in (p + 1)..(q - 1))
    <3>1. q < r => q <= N
      BY <1>1, <2>1
    <3>2. r < q => r <= N
      BY <1>1, <2>1
    <3>. QED  BY <1>3, <2>1, <3>1, <3>2 DEF NextUp
  <2>. QED  BY <1>1, <2>1, <2>2
<1>. QED  BY <1>2, <1>3

(* The next one behind the last one up to k is behind k, and no other's    *)
(* next one is.                                                            *)
LEMMA LastAndNext ==
  ASSUME NEW N, NEW g, Heighted(g, N), NEW i \in Nat, NEW k \in 0..N,
         NEW p \in 0..k, g[p] >= i, NEW q, NextUp(g, N, p, i, q)
  PROVE  q > k <=> LastUp(g, k, i, p)
<1>1. N \in Nat /\ g \in [0..N -> Nat]
  BY DEF Heighted
<1>2. q \in (p + 1)..(N + 1) /\ (q <= N => g[q] >= i /\ g[q] \in Nat)
      /\ \A r \in (p + 1)..(q - 1) : g[r] < i
  BY <1>1 DEF NextUp
<1>3. ASSUME q > k
      PROVE  LastUp(g, k, i, p)
  BY <1>1, <1>2, <1>3 DEF LastUp
<1>4. ASSUME LastUp(g, k, i, p), ~(q > k)
      PROVE  FALSE
  <2>1. q \in (p + 1)..k /\ q <= N
    BY <1>1, <1>2, <1>4
  <2>2. g[q] < i
    BY <1>4, <2>1 DEF LastUp
  <2>. QED  BY <1>2, <2>1, <2>2
<1>. QED  BY <1>3, <1>4

(* A function on 0..n with x behind place k, and one without place k.      *)
Inserted(f, n, k, x) == [p \in 0..n |-> IF p <= k THEN f[p] ELSE IF p = k + 1 THEN x ELSE f[p - 1]]
Deleted(f, n, k) == [p \in 0..n |-> IF p < k THEN f[p] ELSE f[p + 1]]

(* What the next place is once a place is put in behind k, or place k is   *)
(* taken out.                                                              *)
LEMMA NextUpInserted ==
  ASSUME NEW N, NEW g, Heighted(g, N), NEW k \in 0..N, NEW h \in Nat, NEW i \in Nat,
         NEW p \in 0..N, NEW q, NextUp(g, N, p, i, q),
         NEW f, f = Inserted(g, N + 1, k, h)
  PROVE  /\ Heighted(f, N + 1)
         /\ q <= k => NextUp(f, N + 1, p, i, q)
         /\ p <= k /\ q > k /\ h >= i => NextUp(f, N + 1, p, i, k + 1)
         /\ p <= k /\ q > k /\ h < i => NextUp(f, N + 1, p, i, q + 1)
         /\ p <= k /\ q > k => NextUp(f, N + 1, k + 1, i, q + 1)
         /\ p > k => NextUp(f, N + 1, p + 1, i, q + 1)
<1>1. N \in Nat /\ g \in [0..N -> Nat]
  BY DEF Heighted
<1>2. q \in (p + 1)..(N + 1) /\ (q <= N => g[q] >= i)
      /\ \A r \in (p + 1)..(q - 1) : g[r] < i
  BY DEF NextUp
<1>3. f \in [0..(N + 1) -> Nat] /\ Heighted(f, N + 1)
  BY <1>1 DEF Inserted, Heighted
<1>4. /\ \A r \in 0..k : f[r] = g[r]
      /\ f[k + 1] = h
      /\ \A r \in (k + 1)..N : f[r + 1] = g[r]
  <2>1. ASSUME NEW r \in (k + 1)..N
        PROVE  f[r + 1] = g[r]
    <3>1. r + 1 \in 0..(N + 1) /\ ~(r + 1 <= k) /\ r + 1 # k + 1 /\ (r + 1) - 1 = r
      BY <1>1
    <3>. QED  BY <3>1 DEF Inserted
  <2>. QED  BY <1>1, <2>1 DEF Inserted
<1>5. ASSUME q <= k
      PROVE  NextUp(f, N + 1, p, i, q)
  <2>1. q \in 0..k /\ q <= N /\ q \in (p + 1)..((N + 1) + 1)
    BY <1>1, <1>2, <1>5
  <2>2. \A r \in (p + 1)..(q - 1) : f[r] < i
    BY <1>2, <1>4, <2>1
  <2>. QED  BY <1>2, <1>4, <2>1, <2>2 DEF NextUp
<1>6. ASSUME p <= k, q > k
      PROVE  \A r \in (p + 1)..k : f[r] < i
  BY <1>2, <1>4, <1>6
<1>7. ASSUME NEW r \in (k + 2)..q, r > p + 1, q > k
      PROVE  f[r] < i
  <2>1. r - 1 \in (k + 1)..N /\ r - 1 \in (p + 1)..(q - 1) /\ (r - 1) + 1 = r
    BY <1>1, <1>2, <1>7
  <2>. QED  BY <1>2, <1>4, <2>1
<1>8. q > k => (q + 1 <= N + 1 => f[q + 1] >= i)
  BY <1>1, <1>2, <1>4
<1>9. ASSUME p <= k, q > k, h >= i
      PROVE  NextUp(f, N + 1, p, i, k + 1)
  <2>1. k + 1 \in (p + 1)..((N + 1) + 1)
    BY <1>1, <1>9
  <2>. QED  BY <1>4, <1>6, <1>9, <2>1 DEF NextUp
<1>10. ASSUME p <= k, q > k, h < i
       PROVE  NextUp(f, N + 1, p, i, q + 1)
  <2>1. q + 1 \in (p + 1)..((N + 1) + 1)
    BY <1>1, <1>2
  <2>2. ASSUME NEW r \in (p + 1)..((q + 1) - 1)
        PROVE  f[r] < i
    <3>1. r \in (p + 1)..k \/ r = k + 1 \/ (r \in (k + 2)..q /\ r > p + 1)
      BY <1>1, <1>2, <1>10, <2>2
    <3>. QED  BY <1>4, <1>6, <1>7, <1>10, <3>1
  <2>. QED  BY <1>8, <1>10, <2>1, <2>2 DEF NextUp
<1>11. ASSUME p <= k, q > k
       PROVE  NextUp(f, N + 1, k + 1, i, q + 1)
  <2>1. q + 1 \in ((k + 1) + 1)..((N + 1) + 1)
    BY <1>1, <1>2, <1>11
  <2>2. ASSUME NEW r \in ((k + 1) + 1)..((q + 1) - 1)
        PROVE  f[r] < i
    <3>1. r \in (k + 2)..q /\ r > p + 1
      BY <1>1, <1>2, <1>11, <2>2
    <3>. QED  BY <1>7, <1>11, <3>1
  <2>. QED  BY <1>8, <1>11, <2>1, <2>2 DEF NextUp
<1>12. ASSUME p > k
       PROVE  NextUp(f, N + 1, p + 1, i, q + 1)
  <2>1. q + 1 \in ((p + 1) + 1)..((N + 1) + 1) /\ q > k
    BY <1>1, <1>2, <1>12
  <2>2. ASSUME NEW r \in ((p + 1) + 1)..((q + 1) - 1)
        PROVE  f[r] < i
    <3>1. r \in (k + 2)..q /\ r > p + 1
      BY <1>1, <1>2, <1>12, <2>2
    <3>. QED  BY <1>7, <2>1, <3>1
  <2>. QED  BY <1>8, <2>1, <2>2 DEF NextUp
<1>. QED  BY <1>3, <1>5, <1>9, <1>10, <1>11, <1>12

LEMMA NextUpDeleted ==
  ASSUME NEW N, NEW g, Heighted(g, N), NEW k \in 1..N, NEW i \in Nat,
         NEW p \in 0..N, NEW q, NextUp(g, N, p, i, q),
         NEW f, f = Deleted(g, N - 1, k)
  PROVE  /\ Heighted(f, N - 1)
         /\ q < k => NextUp(f, N - 1, p, i, q)
         /\ p < k /\ q = k => \A r : NextUp(g, N, k, i, r) => NextUp(f, N - 1, p, i, r - 1)
         /\ p < k /\ q > k => NextUp(f, N - 1, p, i, q - 1)
         /\ p > k => NextUp(f, N - 1, p - 1, i, q - 1)
<1>1. N \in Nat /\ g \in [0..N -> Nat] /\ N - 1 \in Nat /\ (N - 1) + 1 = N
  BY DEF Heighted
<1>2. q \in (p + 1)..(N + 1) /\ (q <= N => g[q] >= i)
      /\ \A r \in (p + 1)..(q - 1) : g[r] < i
  BY DEF NextUp
<1>3. f \in [0..(N - 1) -> Nat] /\ Heighted(f, N - 1)
  BY <1>1 DEF Deleted, Heighted
<1>4. /\ \A r \in 0..(k - 1) : f[r] = g[r]
      /\ \A r \in k..(N - 1) : f[r] = g[r + 1]
  BY <1>1 DEF Deleted
<1>5. ASSUME q < k
      PROVE  NextUp(f, N - 1, p, i, q)
  <2>1. q \in 0..(k - 1) /\ q <= N /\ q \in (p + 1)..((N - 1) + 1)
    BY <1>1, <1>2, <1>5
  <2>2. \A r \in (p + 1)..(q - 1) : f[r] < i
    BY <1>2, <1>4, <2>1
  <2>. QED  BY <1>2, <1>4, <2>1, <2>2 DEF NextUp
<1>6. ASSUME p < k, q >= k
      PROVE  \A r \in (p + 1)..(k - 1) : f[r] < i
  BY <1>2, <1>4, <1>6
<1>7. ASSUME p < k, q = k, NEW r, NextUp(g, N, k, i, r)
      PROVE  NextUp(f, N - 1, p, i, r - 1)
  <2>1. r \in (k + 1)..(N + 1) /\ (r <= N => g[r] >= i)
        /\ \A t \in (k + 1)..(r - 1) : g[t] < i
    BY <1>7 DEF NextUp
  <2>2. r - 1 \in (p + 1)..((N - 1) + 1)
    BY <1>1, <1>7, <2>1
  <2>3. r - 1 <= N - 1 => f[r - 1] >= i
    <3>. SUFFICES ASSUME r - 1 <= N - 1 PROVE f[r - 1] >= i
      OBVIOUS
    <3>1. r - 1 \in k..(N - 1) /\ (r - 1) + 1 = r /\ r <= N
      BY <1>1, <2>1
    <3>. QED  BY <1>4, <2>1, <3>1
  <2>4. ASSUME NEW t \in (p + 1)..((r - 1) - 1)
        PROVE  f[t] < i
    <3>1. t \in (p + 1)..(k - 1) \/ (t \in k..(N - 1) /\ t + 1 \in (k + 1)..(r - 1))
      BY <1>1, <2>1, <2>4
    <3>2. q >= k
      BY <1>7
    <3>. QED  BY <1>4, <1>6, <1>7, <2>1, <3>1, <3>2
  <2>. QED  BY <2>2, <2>3, <2>4 DEF NextUp
<1>8. ASSUME NEW t \in k..(q - 2), t >= p
      PROVE  f[t] < i
  <2>1. t \in k..(N - 1) /\ t + 1 \in (p + 1)..(q - 1)
    BY <1>1, <1>2, <1>8
  <2>. QED  BY <1>2, <1>4, <2>1
<1>9. q > k => (q - 1 <= N - 1 => f[q - 1] >= i)
  <2>. SUFFICES ASSUME q > k, q - 1 <= N - 1 PROVE f[q - 1] >= i
    OBVIOUS
  <2>1. q - 1 \in k..(N - 1) /\ (q - 1) + 1 = q /\ q <= N
    BY <1>1, <1>2
  <2>. QED  BY <1>2, <1>4, <2>1
<1>10. ASSUME p < k, q > k
       PROVE  NextUp(f, N - 1, p, i, q - 1)
  <2>1. q - 1 \in (p + 1)..((N - 1) + 1) /\ q >= k
    BY <1>1, <1>2, <1>10
  <2>2. ASSUME NEW r \in (p + 1)..((q - 1) - 1)
        PROVE  f[r] < i
    <3>1. r \in (p + 1)..(k - 1) \/ (r \in k..(q - 2) /\ r >= p)
      BY <1>1, <1>2, <1>10, <2>2
    <3>. QED  BY <1>6, <1>8, <1>10, <2>1, <3>1
  <2>. QED  BY <1>9, <1>10, <2>1, <2>2 DEF NextUp
<1>11. ASSUME p > k
       PROVE  NextUp(f, N - 1, p - 1, i, q - 1)
  <2>1. q - 1 \in ((p - 1) + 1)..((N - 1) + 1) /\ q > k
    BY <1>1, <1>2, <1>11
  <2>2. ASSUME NEW r \in ((p - 1) + 1)..((q - 1) - 1)
        PROVE  f[r] < i
    <3>1. r \in k..(q - 2) /\ r >= p
      BY <1>1, <1>2, <1>11, <2>2
    <3>. QED  BY <1>8, <3>1
  <2>. QED  BY <1>9, <2>1, <2>2 DEF NextUp
<1>. QED  BY <1>3, <1>5, <1>7, <1>10, <1>11

(***************************************************************************)
(* Greatest and least numbers, and functions that recur along a finite way.*)
(***************************************************************************)

(* A set of numbers up to n that is not empty has a greatest and a least   *)
(* member.                                                                 *)
LEMMA GreatestNumber ==
  ASSUME NEW n \in Nat, NEW S \in SUBSET (0..n), S # {}
  PROVE  Max(S) \in S /\ \A y \in S : y <= Max(S)
<1>1. PICK G : G = {i \in 0..n : (\E y \in S : y <= i) => \E x \in S : \A y \in S : y <= i => y <= x}
  OBVIOUS
<1>2. 0 \in G
  BY <1>1
<1>3. ASSUME NEW i \in 1..n, i - 1 \in G
      PROVE  i \in G
  <2>1. i \in S => \E x \in S : \A y \in S : y <= i => y <= x
    OBVIOUS
  <2>2. ASSUME i \notin S
        PROVE  \A y \in S : y <= i <=> y <= i - 1
    BY <2>2
  <2>. QED  BY <1>1, <1>3, <2>1, <2>2
<1>4. n \in G
  <2>1. \A i \in 0..n : i \in G
    BY <1>2, <1>3, Reach
  <2>. QED  BY <2>1
<1>5. \E x \in S : \A y \in S : y <= x
  <2>1. \A y \in S : y <= n
    OBVIOUS
  <2>2. \E x \in S : \A y \in S : y <= n => y <= x
    BY <1>1, <1>4, <2>1
  <2>. QED  BY <2>1, <2>2
<1>6. \E x \in S : \A y \in S : x >= y
  BY <1>5
<1>. QED  BY <1>6 DEF Max

LEMMA LeastNumber ==
  ASSUME NEW n \in Nat, NEW S \in SUBSET (0..n), S # {}
  PROVE  Min(S) \in S /\ \A y \in S : Min(S) <= y
<1>1. PICK G : G = {i \in 0..n : \A y \in S : y > i}
  OBVIOUS
<1>2. ASSUME \A x \in S : \E y \in S : ~(x <= y)
      PROVE  FALSE
  <2>1. 0 \in G
    <3>. SUFFICES ASSUME NEW y \in S, ~(y > 0) PROVE FALSE
      BY <1>1
    <3>1. y = 0
      OBVIOUS
    <3>. QED  BY <1>2, <3>1
  <2>2. ASSUME NEW i \in 1..n, i - 1 \in G
        PROVE  i \in G
    <3>. SUFFICES ASSUME NEW y \in S, ~(y > i) PROVE FALSE
      BY <1>1
    <3>1. y = i
      BY <1>1, <2>2
    <3>2. \A x \in S : y <= x
      BY <1>1, <2>2, <3>1
    <3>. QED  BY <1>2, <3>2
  <2>3. \A i \in 0..n : i \in G
    BY <2>1, <2>2, Reach
  <2>4. PICK y \in S : TRUE
    OBVIOUS
  <2>5. y \in 0..n /\ y \in Int
    OBVIOUS
  <2>6. y > y
    BY <1>1, <2>3, <2>5
  <2>. QED  BY <2>5, <2>6
<1>3. \E x \in S : \A y \in S : x =< y
  BY <1>2
<1>. QED  BY <1>3 DEF Min

(* A function that follows nx as long as it is in C and returns where it   *)
(* stops: there is one, whatever the steps lead to.                        *)
Follows(r, D, C, nx) == r = [q \in D |-> IF q \in C THEN r[nx[q]] ELSE q]

LEMMA TailRecursion ==
  ASSUME NEW D, NEW C, NEW nx, C \subseteq D, nx \in [C -> D]
  PROVE  \E r : Follows(r, D, C, nx)
<1>. DEFINE Chain(c, n, q) == /\ c \in [0..n -> D] /\ c[0] = q
                              /\ \A j \in 0..(n - 1) : c[j] \in C /\ c[j + 1] = nx[c[j]]
            E(q) == {y \in D \ C : \E n \in Nat : \E c : Chain(c, n, q) /\ c[n] = y}
            R == [q \in D |-> IF q \in C THEN CHOOSE y : y \in E(q) ELSE q]
<1>1. ASSUME NEW q \in C
      PROVE  E(q) = E(nx[q])
  <2>1. ASSUME NEW y \in E(q)
        PROVE  y \in E(nx[q])
    <3>0. PICK n \in Nat : \E c : Chain(c, n, q) /\ c[n] = y
      OBVIOUS
    <3>1. PICK c : Chain(c, n, q) /\ c[n] = y
      BY <3>0
    <3>2. n # 0
      BY <3>1
    <3>3. PICK d : d = [j \in 0..(n - 1) |-> c[j + 1]]
      OBVIOUS
    <3>4. d \in [0..(n - 1) -> D] /\ n - 1 \in Nat /\ d[n - 1] = y
      BY <3>1, <3>2, <3>3
    <3>5. d[0] = nx[q]
      <4>1. 0 \in 0..(n - 1) /\ 0 + 1 = 1
        BY <3>2
      <4>. QED  BY <3>1, <3>3, <4>1
    <3>6. ASSUME NEW j \in 0..((n - 1) - 1)
          PROVE  d[j] \in C /\ d[j + 1] = nx[d[j]]
      <4>1. j + 1 \in 0..(n - 1) /\ j \in 0..(n - 1)
        OBVIOUS
      <4>2. d[j] = c[j + 1] /\ d[j + 1] = c[(j + 1) + 1]
        BY <3>3, <4>1
      <4>. QED  BY <3>1, <4>1, <4>2
    <3>7. Chain(d, n - 1, nx[q])
      BY <3>4, <3>5, <3>6
    <3>. QED  BY <3>4, <3>7
  <2>2. ASSUME NEW y \in E(nx[q])
        PROVE  y \in E(q)
    <3>0. PICK n \in Nat : \E c : Chain(c, n, nx[q]) /\ c[n] = y
      OBVIOUS
    <3>1. PICK c : Chain(c, n, nx[q]) /\ c[n] = y
      BY <3>0
    <3>2. PICK d : d = [j \in 0..(n + 1) |-> IF j = 0 THEN q ELSE c[j - 1]]
      OBVIOUS
    <3>3. d \in [0..(n + 1) -> D] /\ n + 1 \in Nat /\ d[n + 1] = y /\ d[0] = q
      <4>1. (n + 1) - 1 = n /\ n + 1 # 0 /\ n + 1 \in 0..(n + 1) /\ 0 \in 0..(n + 1)
        OBVIOUS
      <4>2. \A j \in 0..(n + 1) : j # 0 => j - 1 \in 0..n
        OBVIOUS
      <4>. QED  BY <3>1, <3>2, <4>1, <4>2
    <3>4. ASSUME NEW j \in 0..((n + 1) - 1)
          PROVE  d[j] \in C /\ d[j + 1] = nx[d[j]]
      <4>1. j + 1 # 0 /\ j + 1 \in 0..(n + 1) /\ (j + 1) - 1 = j /\ j \in 0..(n + 1)
        OBVIOUS
      <4>2. d[j + 1] = c[j]
        BY <3>2, <4>1
      <4>3. CASE j = 0
        BY <3>1, <3>2, <4>1, <4>2, <4>3
      <4>4. CASE j # 0
        <5>1. j - 1 \in 0..(n - 1) /\ (j - 1) + 1 = j
          BY <4>4
        <5>2. d[j] = c[j - 1]
          BY <3>2, <4>1, <4>4
        <5>. QED  BY <3>1, <4>2, <5>1, <5>2
      <4>. QED  BY <4>3, <4>4
    <3>5. Chain(d, n + 1, q)
      BY <3>3, <3>4
    <3>. QED  BY <3>3, <3>5
  <2>. HIDE DEF E
  <2>. QED  BY <2>1, <2>2
<1>2. ASSUME NEW q \in D \ C
      PROVE  E(q) = {q}
  <2>1. ASSUME NEW y \in E(q)
        PROVE  y = q
    <3>0. PICK n \in Nat : \E c : Chain(c, n, q) /\ c[n] = y
      OBVIOUS
    <3>1. PICK c : Chain(c, n, q) /\ c[n] = y
      BY <3>0
    <3>2. n = 0
      BY <3>1
    <3>. QED  BY <3>1, <3>2
  <2>2. q \in E(q)
    <3>1. Chain([j \in 0..0 |-> q], 0, q)
      OBVIOUS
    <3>2. [j \in 0..0 |-> q][0] = q
      OBVIOUS
    <3>. QED  BY <3>1, <3>2
  <2>. HIDE DEF E
  <2>. QED  BY <2>1, <2>2
<1>. HIDE DEF E
<1>3. ASSUME NEW q \in D
      PROVE  R[q] = IF q \in C THEN R[nx[q]] ELSE q
  <2>1. CASE q \notin C
    BY <2>1
  <2>2. CASE q \in C /\ nx[q] \in C
    BY <1>1, <2>2
  <2>3. CASE q \in C /\ nx[q] \notin C
    <3>1. E(q) = {nx[q]}
      BY <1>1, <1>2, <2>3
    <3>2. R[q] = nx[q] /\ R[nx[q]] = nx[q]
      BY <2>3, <3>1
    <3>. QED  BY <2>3, <3>2
  <2>. QED  BY <2>1, <2>2, <2>3
<1>4. R = [q \in D |-> R[q]]
  OBVIOUS
<1>. HIDE DEF R
<1>5. R = [q \in D |-> IF q \in C THEN R[nx[q]] ELSE q]
  BY <1>3, <1>4
<1>6. Follows(R, D, C, nx)
  BY <1>5 DEF Follows
<1>. QED  BY <1>6

(***************************************************************************)
(* Pieces of a function on numbers.                                        *)
(***************************************************************************)
Piece(a, lo, hi) == [j \in 1..(hi - lo + 1) |-> a[lo + j - 1]]

(* The places of a piece are in R.                                         *)
Over(a, lo, hi, R) == \A p \in lo..hi : a[p] \in R

(* A piece is a sequence of its places, in order.                          *)
LEMMA Pieces ==
  ASSUME NEW R, NEW a, NEW lo \in Int, NEW hi \in Int, Over(a, lo, hi, R)
  PROVE  /\ Piece(a, lo, hi) \in Seq(R)
         /\ Len(Piece(a, lo, hi)) = IF hi < lo THEN 0 ELSE hi - lo + 1
         /\ DOMAIN Piece(a, lo, hi) = 1..(hi - lo + 1)
         /\ \A j \in 1..(hi - lo + 1) : Piece(a, lo, hi)[j] = a[lo + j - 1]
<1>1. PICK n : n = IF hi < lo THEN 0 ELSE hi - lo + 1
  OBVIOUS
<1>2. n \in Nat /\ 1..(hi - lo + 1) = 1..n
  BY <1>1
<1>3. \A j \in 1..n : lo + j - 1 \in lo..hi
  BY <1>1
<1>4. Piece(a, lo, hi) \in [1..n -> R]
  BY <1>2, <1>3 DEF Piece, Over
<1>5. Piece(a, lo, hi) \in Seq(R)
  BY <1>2, <1>4, SeqDef
<1>6. Len(Piece(a, lo, hi)) \in Nat /\ DOMAIN Piece(a, lo, hi) = 1..Len(Piece(a, lo, hi))
  BY <1>5, LenProperties
<1>7. PICK len : len = Len(Piece(a, lo, hi))
  OBVIOUS
<1>8. len = n
  <2>1. len \in Nat /\ 1..n = 1..len
    BY <1>4, <1>6, <1>7
  <2>2. (n > 0 => n \in 1..len) /\ (len > 0 => len \in 1..n)
    BY <1>2, <2>1
  <2>. QED  BY <1>2, <2>1, <2>2
<1>. QED  BY <1>1, <1>2, <1>4, <1>5, <1>7, <1>8 DEF Piece

LEMMA EmptyPiece ==
  ASSUME NEW a, NEW lo \in Int, NEW hi \in Int, hi < lo
  PROVE  Piece(a, lo, hi) = <<>>
<1>1. lo..hi = {}
  OBVIOUS
<1>2. Over(a, lo, hi, {})
  BY <1>1 DEF Over
<1>3. Piece(a, lo, hi) \in Seq({}) /\ Len(Piece(a, lo, hi)) = 0
  BY <1>2, Pieces
<1>. QED  BY <1>3, EmptySeq

Reads(s, a, lo, hi) ==
  /\ Len(s) = IF hi < lo THEN 0 ELSE hi - lo + 1
  /\ \A j \in 1..(hi - lo + 1) : s[j] = a[lo + j - 1]

(* A sequence that has the places of a piece is that piece.                *)
LEMMA SamePiece ==
  ASSUME NEW a, NEW lo \in Int, NEW hi \in Int,
         NEW S, NEW s \in Seq(S), Reads(s, a, lo, hi)
  PROVE  s = Piece(a, lo, hi)
<1>1. s \in [1..Len(s) -> S] /\ Len(s) \in Nat
  BY LenProperties
<1>2. 1..Len(s) = 1..(hi - lo + 1)
  BY DEF Reads
<1>. QED  BY <1>1, <1>2 DEF Piece, Reads

LEMMA PieceFromFirst ==
  ASSUME NEW R, NEW a, NEW lo \in Int, NEW hi \in Int, lo <= hi, Over(a, lo, hi, R)
  PROVE  <<a[lo]>> \o Piece(a, lo + 1, hi) = Piece(a, lo, hi)
<1>1. Over(a, lo + 1, hi, R) /\ a[lo] \in R
  BY DEF Over
<1>2. PICK s : s = Piece(a, lo + 1, hi)
  OBVIOUS
<1>3. s \in Seq(R) /\ Len(s) = hi - lo /\ \A j \in 1..(hi - lo) : s[j] = a[lo + j]
  <2>1. s \in Seq(R) /\ Len(s) = (IF hi < lo + 1 THEN 0 ELSE hi - (lo + 1) + 1)
        /\ \A j \in 1..(hi - (lo + 1) + 1) : s[j] = a[(lo + 1) + j - 1]
    BY <1>1, <1>2, Pieces
  <2>2. \A j \in 1..(hi - lo) : (lo + 1) + j - 1 = lo + j
    OBVIOUS
  <2>3. hi - (lo + 1) + 1 = hi - lo
    OBVIOUS
  <2>. QED  BY <2>1, <2>2, <2>3
<1>4. <<a[lo]>> \in Seq(R) /\ Len(<<a[lo]>>) = 1 /\ <<a[lo]>>[1] = a[lo]
  BY <1>1
<1>5. PICK t : t = <<a[lo]>> \o s
  OBVIOUS
<1>6. t \in Seq(R) /\ Len(t) = 1 + (hi - lo)
      /\ \A j \in 1..(1 + (hi - lo)) : t[j] = IF j <= 1 THEN <<a[lo]>>[j] ELSE s[j - 1]
  <2>1. PICK e : e = <<a[lo]>>
    OBVIOUS
  <2>2. e \in Seq(R) /\ Len(e) = 1
    BY <1>4, <2>1
  <2>3. e \o s \in Seq(R) /\ Len(e \o s) = Len(e) + Len(s)
        /\ \A j \in 1..Len(e) + Len(s) : (e \o s)[j] = IF j <= Len(e) THEN e[j] ELSE s[j - Len(e)]
    BY <1>3, <2>2, ConcatProperties
  <2>. QED  BY <1>3, <1>5, <2>1, <2>2, <2>3
<1>7. ASSUME NEW j \in 1..(hi - lo + 1)
      PROVE  t[j] = a[lo + j - 1]
  <2>1. CASE j = 1
    BY <1>4, <1>6, <2>1
  <2>2. CASE j # 1
    <3>1. j - 1 \in 1..(hi - lo) /\ lo + (j - 1) = lo + j - 1
      BY <2>2
    <3>2. t[j] = s[j - 1]
      BY <1>6, <2>2, <3>1
    <3>. QED  BY <1>3, <3>1, <3>2
  <2>. QED  BY <2>1, <2>2
<1>8. Len(t) = IF hi < lo THEN 0 ELSE hi - lo + 1
  BY <1>6
<1>9. t = Piece(a, lo, hi)
  <2>1. Reads(t, a, lo, hi)
    BY <1>7, <1>8 DEF Reads
  <2>. QED  BY <1>6, <2>1, SamePiece
<1>. QED  BY <1>2, <1>5, <1>9

(* Members i to j of a piece are the places from L to H.                   *)
Cuts(lo, hi, i, j, L, H) ==
  /\ i \in Nat \ {0} /\ j \in Int /\ j <= hi - lo + 1
  /\ L = lo + i - 1 /\ H = lo + j - 1

LEMMA PieceOfPiece ==
  ASSUME NEW R, NEW a, NEW lo \in Int, NEW hi \in Int, Over(a, lo, hi, R),
         NEW i, NEW j, NEW L, NEW H, Cuts(lo, hi, i, j, L, H)
  PROVE  SubSeq(Piece(a, lo, hi), i, j) = Piece(a, L, H)
<1>11. i \in Nat \ {0} /\ j \in Int /\ j <= hi - lo + 1
  BY DEF Cuts
<1>1. PICK s : s = Piece(a, lo, hi)
  OBVIOUS
<1>2. \A q \in 1..(hi - lo + 1) : s[q] = a[lo + q - 1] /\ lo + q - 1 \in lo..hi
  <2>1. \A q \in 1..(hi - lo + 1) : s[q] = a[lo + q - 1]
    BY <1>1, Pieces
  <2>. QED  BY <2>1
<1>3. \A q \in i..j : q \in 1..(hi - lo + 1) /\ s[q] \in R
  BY <1>2, <1>11 DEF Over
<1>4. PICK t : t = SubSeq(s, i, j)
  OBVIOUS
<1>5. t \in Seq(R) /\ Len(t) = (IF i <= j THEN j - i + 1 ELSE 0)
      /\ \A q \in 1..(j - i + 1) : t[q] = s[i + q - 1]
  BY <1>3, <1>4, <1>11, SubSeqProperties, SMTT(20)
<1>6. PICK l, h : l = L /\ h = H
  OBVIOUS
<1>7. l \in Int /\ h \in Int /\ h - l + 1 = j - i + 1 /\ (h < l <=> j < i)
      /\ Over(a, l, h, R)
  BY <1>6, <1>11 DEF Over, Cuts
<1>12. l = lo + i - 1
  BY <1>6 DEF Cuts
<1>8. ASSUME NEW q \in 1..(h - l + 1)
      PROVE  t[q] = a[l + q - 1]
  <2>1. i + q - 1 \in i..j /\ lo + (i + q - 1) - 1 = l + q - 1 /\ q \in 1..(j - i + 1)
    BY <1>7, <1>11, <1>12
  <2>. QED  BY <1>2, <1>3, <1>5, <2>1
<1>9. Len(t) = IF h < l THEN 0 ELSE h - l + 1
  BY <1>5, <1>7, <1>11
<1>10. t = Piece(a, l, h)
  <2>1. Reads(t, a, l, h)
    BY <1>8, <1>9 DEF Reads
  <2>. QED  BY <1>5, <1>7, <2>1, SamePiece
<1>. QED  BY <1>1, <1>4, <1>6, <1>10

(* A set of places that has all places before each of its own.             *)
LEMMA Cut ==
  ASSUME NEW N \in Nat, NEW S \in SUBSET (1..N),
         \A p, q \in 1..N : p < q /\ q \in S => p \in S
  PROVE  \E k \in 0..N : S = 1..k
<1>1. CASE S = {}
  BY <1>1
<1>2. CASE S # {}
  <2>1. S \in SUBSET (0..N)
    OBVIOUS
  <2>2. PICK k \in S : \A y \in S : y <= k
    BY <1>2, <2>1, GreatestNumber
  <2>3. k \in 0..N /\ S \subseteq 1..k
    BY <2>2
  <2>4. 1..k \subseteq S
    BY <2>2
  <2>5. S = 1..k
    BY <2>3, <2>4
  <2>. QED  BY <2>3, <2>5
<1>. QED  BY <1>1, <1>2

(***************************************************************************)
(* The list z has the N nodes a[1] .. a[N], with scores v and heights g.   *)
(***************************************************************************)
Span(N, p, q) == IF q > N THEN N - p ELSE q - p

(* The link of level i at place p.                                         *)
LinkIs(z, N, a, g, p, i) ==
  \E q, s : /\ Link(z, a[p], i) = [to |-> a[q], span |-> s] /\ s \in Nat
            /\ NextUp(g, N, p, i, q)
            /\ i <= z.level => s = Span(N, p, q)

(* The node at place p.                                                    *)
NodeIs(z, N, a, v, g, p) ==
  /\ z.node[a[p]] = [value |-> v[p], prev |-> IF p <= 1 THEN Null ELSE a[p - 1],
                     next |-> z.node[a[p]].next]
  /\ z.node[a[p]].next = [i \in 1..g[p] |-> Link(z, a[p], i)]
  /\ \A i \in 1..g[p] : LinkIs(z, N, a, g, p, i)

(* The order of the members: by score, then by name.                       *)
Precedes(a, v, p, q) == v[p] < v[q] \/ (v[p] = v[q] /\ a[p] < a[q])

(* Places: the head, the members in order, the end.                        *)
Placed(N, a, v, g) ==
  /\ Heighted(g, N) /\ g[0] = MaxLevel
  /\ a = [p \in 0..(N + 1) |-> a[p]] /\ a[0] = HeadNode /\ a[N + 1] = Null
  /\ v \in [0..N -> Int] /\ v[0] = 0
  /\ \A p \in 1..N : a[p] \in Members /\ g[p] >= 1
  /\ \A p, q \in 1..N : p < q => a[p] # a[q] /\ Precedes(a, v, p, q)

Fields(z) == z = [node |-> z.node, tail |-> z.tail, level |-> z.level,
                  length |-> z.length, map |-> z.map]

(* The whole of it.  Nothing is said of length and map, which the methods  *)
(* set apart from the links.                                               *)
Linked(z, N, a, v, g) ==
  /\ Placed(N, a, v, g)
  /\ Fields(z)
  /\ z.level \in 1..MaxLevel /\ \A p \in 1..N : g[p] <= z.level
  /\ z.tail = IF N = 0 THEN Null ELSE a[N]
  /\ z.node = [x \in {a[p] : p \in 0..N} |-> z.node[x]]
  /\ \A p \in 0..N : NodeIs(z, N, a, v, g, p)

(* Nothing is at two places.                                               *)
LEMMA PlacesDiffer ==
  ASSUME NEW N, NEW a, NEW v, NEW g, Placed(N, a, v, g)
  PROVE  \A p, q \in 0..(N + 1) : a[p] = a[q] => p = q
<1>1. N \in Nat /\ a[0] = HeadNode /\ a[N + 1] = Null
  BY DEF Placed, Heighted
<1>2. \A p \in 1..N : a[p] \in Members
  BY DEF Placed
<1>3. Null \notin Members /\ HeadNode \notin Members /\ HeadNode # Null
  BY MembersAssumption, HeadAssumption
<1>4. \A p, q \in 1..N : p < q => a[p] # a[q]
  BY DEF Placed
<1>. SUFFICES ASSUME NEW p \in 0..(N + 1), NEW q \in 0..(N + 1), a[p] = a[q], p < q PROVE FALSE
  BY <1>1
<1>5. (p = 0 \/ p \in 1..N) /\ (q = N + 1 \/ q \in 1..N)
  BY <1>1
<1>. QED  BY <1>1, <1>2, <1>3, <1>4, <1>5

(* What Linked says of the kinds of things.                                *)
LEMMA LinkedTypes ==
  ASSUME NEW z, NEW N, NEW a, NEW v, NEW g, Linked(z, N, a, v, g)
  PROVE  /\ N \in Nat /\ g \in [0..N -> Nat] /\ g[0] = MaxLevel /\ v \in [0..N -> Int]
         /\ a[0] = HeadNode /\ a[N + 1] = Null /\ Placed(N, a, v, g) /\ Heighted(g, N)
         /\ z.level \in 1..MaxLevel /\ MaxLevel \in Nat
         /\ \A p \in 1..N : /\ a[p] \in Members /\ a[p] \in Nat /\ a[p] # HeadNode /\ a[p] # Null
                            /\ g[p] \in 1..z.level
         /\ \A p \in 0..N : g[p] >= 1
<1>1. Placed(N, a, v, g) /\ z.level \in 1..MaxLevel /\ MaxLevel \in Nat /\ MaxLevel >= 1
  BY LevelAssumption DEF Linked
<1>2. N \in Nat /\ g \in [0..N -> Nat] /\ g[0] = MaxLevel /\ v \in [0..N -> Int]
      /\ a[0] = HeadNode /\ a[N + 1] = Null /\ Heighted(g, N)
  BY <1>1 DEF Placed, Heighted
<1>3. ASSUME NEW p \in 1..N
      PROVE  a[p] \in Members /\ g[p] \in 1..z.level
  <2>1. a[p] \in Members /\ g[p] >= 1
    BY <1>1 DEF Placed
  <2>2. g[p] <= z.level
    BY DEF Linked
  <2>3. g[p] \in Nat
    BY <1>2
  <2>. QED  BY <1>1, <2>1, <2>2, <2>3
<1>4. \A p \in 1..N : a[p] \in Nat /\ a[p] # HeadNode /\ a[p] # Null
  BY <1>3, MembersAssumption, HeadAssumption
<1>5. \A p \in 0..N : g[p] >= 1
  BY <1>1, <1>2, <1>3
<1>. QED  BY <1>1, <1>2, <1>3, <1>4, <1>5

(* The nodes are those at the places.                                      *)
LEMMA LinkedNodes ==
  ASSUME NEW z, NEW N, NEW a, NEW v, NEW g, Linked(z, N, a, v, g)
  PROVE  /\ DOMAIN z.node = {a[p] : p \in 0..N}
         /\ Nodes(z) = {a[p] : p \in 1..N} /\ Nodes(z) \subseteq Members
         /\ Null \notin DOMAIN z.node /\ HeadNode \in DOMAIN z.node
<1>1. DOMAIN z.node = {a[p] : p \in 0..N}
  BY DEF Linked
<1>2. N \in Nat /\ a[0] = HeadNode
      /\ \A p \in 1..N : a[p] \in Members /\ a[p] # HeadNode /\ a[p] # Null
  BY LinkedTypes
<1>3. \A p \in 0..N : p = 0 \/ p \in 1..N
  BY <1>2
<1>4. 0 \in 0..N /\ \A p \in 1..N : p \in 0..N
  BY <1>2
<1>5. Nodes(z) = {a[p] : p \in 1..N}
  BY <1>1, <1>2, <1>3, <1>4 DEF Nodes
<1>6. HeadNode # Null
  BY HeadAssumption
<1>. QED  BY <1>1, <1>2, <1>3, <1>4, <1>5, <1>6

(* The fields of the node at a place.                                      *)
LEMMA NodeAtPlace ==
  ASSUME NEW z, NEW N, NEW a, NEW v, NEW g, Linked(z, N, a, v, g), NEW p \in 0..N
  PROVE  /\ z.node[a[p]].value = v[p]
         /\ z.node[a[p]].prev = IF p <= 1 THEN Null ELSE a[p - 1]
         /\ DOMAIN z.node[a[p]].next = 1..g[p]
         /\ \A i \in 1..g[p] : LinkIs(z, N, a, g, p, i)
<1>1. NodeIs(z, N, a, v, g, p)
  BY DEF Linked
<1>. QED  BY <1>1 DEF NodeIs

(* The links of the lowest level lead from each place to the next.         *)
LEMMA LowestLink ==
  ASSUME NEW z, NEW N, NEW a, NEW v, NEW g, Linked(z, N, a, v, g), NEW p \in 0..N
  PROVE  Link(z, a[p], 1).to = a[p + 1]
<1>1. N \in Nat /\ g \in [0..N -> Nat] /\ \A r \in 0..N : g[r] >= 1
  BY LinkedTypes
<1>2. 1 \in 1..g[p]
  BY <1>1
<1>3. LinkIs(z, N, a, g, p, 1)
  BY <1>2, NodeAtPlace
<1>4. PICK q, s : Link(z, a[p], 1) = [to |-> a[q], span |-> s] /\ NextUp(g, N, p, 1, q)
  BY <1>3 DEF LinkIs
<1>5. q \in (p + 1)..(N + 1) /\ \A r \in (p + 1)..(q - 1) : g[r] < 1
  BY <1>4 DEF NextUp
<1>6. q = p + 1
  <2>. SUFFICES ASSUME q # p + 1 PROVE FALSE
    OBVIOUS
  <2>1. p + 1 \in (p + 1)..(q - 1) /\ p + 1 \in 0..N
    BY <1>1, <1>5
  <2>. QED  BY <1>1, <1>5, <2>1
<1>. QED  BY <1>4, <1>6

(***************************************************************************)
(* Riding along a level, and down the levels.  b is the place the descent  *)
(* starts from, and k the last place that is in Ahead.                     *)
(***************************************************************************)
Stop(a, b, q) == [at |-> a[q], gone |-> q - b]

(* From place b on, the stops in Ahead are those up to place k.            *)
CutAt(z, N, a, b, k, Ahead) ==
  /\ b \in 0..N /\ k \in b..N
  /\ \A q \in (b + 1)..N : Stop(a, b, q) \in Ahead <=> q <= k
  /\ Ahead \subseteq Stops(Nodes(z))

(* One link of level i, as the descent sees it.                            *)
LEMMA NextStopIs ==
  ASSUME NEW z, NEW N, NEW a, NEW v, NEW g, Linked(z, N, a, v, g),
         NEW b \in 0..N, NEW k, NEW Ahead, CutAt(z, N, a, b, k, Ahead),
         NEW i \in 1..z.level, NEW c \in b..N, g[c] >= i, NEW q, NextUp(g, N, c, i, q)
  PROVE  /\ NextStop(z, i, Stop(a, b, c)) \in Ahead <=> q <= k
         /\ q <= k => NextStop(z, i, Stop(a, b, c)) = Stop(a, b, q)
<1>1. N \in Nat /\ g \in [0..N -> Nat] /\ Heighted(g, N) /\ a[N + 1] = Null /\ i \in Nat
  BY LinkedTypes
<1>2. c \in 0..N /\ i \in 1..g[c] /\ k \in b..N
  BY <1>1 DEF CutAt
<1>3. LinkIs(z, N, a, g, c, i)
  BY <1>2, NodeAtPlace
<1>4. PICK r, s : /\ Link(z, a[c], i) = [to |-> a[r], span |-> s] /\ NextUp(g, N, c, i, r)
                  /\ i <= z.level => s = Span(N, c, r)
  BY <1>3 DEF LinkIs
<1>5. r = q
  BY <1>1, <1>2, <1>4, OneUp
<1>6. s = Span(N, c, q)
  <2>1. i <= z.level
    BY LinkedTypes
  <2>. QED  BY <1>4, <1>5, <2>1
<1>7. q \in (c + 1)..(N + 1)
  BY DEF NextUp
<1>8. NextStop(z, i, Stop(a, b, c)) = [at |-> a[q], gone |-> (c - b) + Span(N, c, q)]
  BY <1>4, <1>5, <1>6 DEF NextStop, Stop
<1>9. CASE q = N + 1
  <2>1. a[q] \notin Nodes(z)
    BY <1>1, <1>9, LinkedNodes DEF Nodes
  <2>2. NextStop(z, i, Stop(a, b, c)) \notin Ahead
    BY <1>8, <2>1 DEF CutAt, Stops
  <2>. QED  BY <1>1, <1>2, <1>9, <2>2
<1>10. CASE q <= N
  <2>1. (c - b) + Span(N, c, q) = q - b
    BY <1>1, <1>2, <1>7, <1>10 DEF Span
  <2>2. NextStop(z, i, Stop(a, b, c)) = Stop(a, b, q)
    BY <1>8, <2>1 DEF Stop
  <2>3. q \in (b + 1)..N
    BY <1>1, <1>2, <1>7, <1>10
  <2>. QED  BY <2>2, <2>3 DEF CutAt
<1>. QED  BY <1>1, <1>7, <1>9, <1>10

(* Riding along level i from place c ends at the last place up to k that is*)
(* as high as i: by well-founded induction on what is left of the way, for *)
(* the recursive function as TLA+ defines it.                              *)
LEMMA RideIs ==
  ASSUME NEW z, NEW N, NEW a, NEW v, NEW g, Linked(z, N, a, v, g),
         NEW b \in 0..N, NEW k, NEW Ahead, CutAt(z, N, a, b, k, Ahead),
         NEW i \in 1..z.level, NEW c \in b..k, g[c] >= i, NEW p, LastUp(g, k, i, p)
  PROVE  Ride(z, i, Stop(a, b, c), Ahead) = Stop(a, b, p)
<1>1. /\ N \in Nat /\ g \in [0..N -> Nat] /\ Heighted(g, N) /\ a[N + 1] = Null /\ i \in Nat
      /\ k \in b..N /\ k \in 0..N
  BY LinkedTypes DEF CutAt
<1>. DEFINE D == Stops({n \in DOMAIN z.node : i \in DOMAIN z.node[n].next})
            C == {q \in D : NextStop(z, i, q) \in Ahead}
            nx == [q \in C |-> NextStop(z, i, q)]
            Fixed(r) == r = [q \in D |-> IF NextStop(z, i, q) \in Ahead THEN r[NextStop(z, i, q)] ELSE q]
            ride == CHOOSE r : Fixed(r)
<1>2. ASSUME NEW r \in 0..N, g[r] >= i, NEW e \in Int
      PROVE  [at |-> a[r], gone |-> e] \in D
  <2>1. a[r] \in DOMAIN z.node /\ DOMAIN z.node[a[r]].next = 1..g[r]
    BY LinkedNodes, NodeAtPlace
  <2>2. i \in 1..g[r]
    BY <1>1, <1>2
  <2>. QED  BY <2>1, <2>2 DEF Stops
<1>3. nx \in [C -> D]
  <2>. SUFFICES ASSUME NEW q \in C PROVE NextStop(z, i, q) \in D
    OBVIOUS
  <2>1. q \in D /\ NextStop(z, i, q) \in Ahead
    OBVIOUS
  <2>2. q.at \in DOMAIN z.node /\ i \in DOMAIN z.node[q.at].next /\ q.gone \in Int
    BY <2>1 DEF Stops
  <2>3. PICK r \in 0..N : q.at = a[r]
    BY <2>2, LinkedNodes
  <2>4. i \in 1..g[r] /\ LinkIs(z, N, a, g, r, i)
    <3>1. DOMAIN z.node[a[r]].next = 1..g[r] /\ \A j \in 1..g[r] : LinkIs(z, N, a, g, r, j)
      BY NodeAtPlace
    <3>. QED  BY <2>2, <2>3, <3>1
  <2>5. PICK t, s : Link(z, a[r], i) = [to |-> a[t], span |-> s] /\ s \in Nat /\ NextUp(g, N, r, i, t)
    BY <2>4 DEF LinkIs
  <2>6. NextStop(z, i, q) = [at |-> a[t], gone |-> q.gone + s]
    BY <2>3, <2>5 DEF NextStop
  <2>7. a[t] \in Nodes(z)
    BY <2>1, <2>6 DEF CutAt, Stops
  <2>8. t \in (r + 1)..(N + 1) /\ (t <= N => g[t] >= i)
    BY <2>5 DEF NextUp
  <2>9. t # N + 1
    BY <1>1, <2>7, LinkedNodes DEF Nodes
  <2>10. t \in 0..N /\ g[t] >= i /\ q.gone + s \in Int
    BY <1>1, <2>2, <2>5, <2>8, <2>9
  <2>. QED  BY <1>2, <2>6, <2>10
<1>4. \E r : Fixed(r)
  <2>1. C \subseteq D
    OBVIOUS
  <2>. HIDE DEF D
  <2>2. PICK r : r = [q \in D |-> IF q \in C THEN r[nx[q]] ELSE q]
    <3>. HIDE DEF C, nx
    <3>1. \E r : Follows(r, D, C, nx)
      BY <1>3, <2>1, TailRecursion
    <3>. QED  BY <3>1 DEF Follows
  <2>3. \A q \in D : (q \in C <=> NextStop(z, i, q) \in Ahead) /\ (q \in C => nx[q] = NextStop(z, i, q))
    OBVIOUS
  <2>4. Fixed(r)
    <3>. HIDE DEF C, nx
    <3>1. r = [q \in D |-> r[q]]
      BY <2>2
    <3>2. \A q \in D : r[q] = IF NextStop(z, i, q) \in Ahead THEN r[NextStop(z, i, q)] ELSE q
      BY <2>2, <2>3
    <3>. QED  BY <3>1, <3>2, Zenon
  <2>. QED  BY <2>4
<1>5. Fixed(ride)
  BY <1>4
<1>6. \A q \in D : ride[q] = IF NextStop(z, i, q) \in Ahead THEN ride[NextStop(z, i, q)] ELSE q
  <2>. HIDE DEF ride, D
  <2>. QED  BY <1>5
<1>7. Ride(z, i, Stop(a, b, c), Ahead) = ride[Stop(a, b, c)]
  BY DEF Ride
<1>. HIDE DEF ride, D, Fixed
<1>8. PICK W : W = {q \in b..k : g[q] >= i /\ ride[Stop(a, b, q)] # Stop(a, b, p)}
  OBVIOUS
<1>9. W = {}
  <2>. SUFFICES ASSUME W # {} PROVE FALSE
    OBVIOUS
  <2>1. W \in SUBSET (0..k) /\ k \in Nat
    BY <1>1, <1>8
  <2>2. PICK q \in W : \A y \in W : y <= q
    BY <2>1, GreatestNumber
  <2>3. q \in b..k /\ q \in 0..N /\ q \in b..N /\ q \in 0..k /\ g[q] >= i /\ ride[Stop(a, b, q)] # Stop(a, b, p)
    BY <1>1, <1>8, <2>2
  <2>4. PICK r : NextUp(g, N, q, i, r)
    BY <1>1, <2>3, NextUpExists
  <2>5. Stop(a, b, q) \in D
    BY <1>1, <1>2, <2>3 DEF Stop
  <2>6. /\ NextStop(z, i, Stop(a, b, q)) \in Ahead <=> r <= k
        /\ r <= k => NextStop(z, i, Stop(a, b, q)) = Stop(a, b, r)
    BY <2>3, <2>4, NextStopIs
  <2>7. r \in (q + 1)..(N + 1) /\ (r <= N => g[r] >= i)
    BY <2>4 DEF NextUp
  <2>8. CASE r <= k
    <3>1. ride[Stop(a, b, q)] = ride[Stop(a, b, r)]
      BY <1>6, <2>5, <2>6, <2>8
    <3>2. r \in b..k /\ g[r] >= i /\ r > q
      BY <1>1, <2>3, <2>7, <2>8
    <3>3. r \notin W
      BY <2>2, <2>3, <3>2
    <3>. QED  BY <1>8, <2>3, <3>1, <3>2, <3>3
  <2>9. CASE ~(r <= k)
    <3>1. ride[Stop(a, b, q)] = Stop(a, b, q)
      BY <1>6, <2>5, <2>6, <2>9
    <3>2. r > k
      BY <1>1, <2>7, <2>9
    <3>3. LastUp(g, k, i, q)
      BY <1>1, <2>3, <2>4, <3>2, LastAndNext
    <3>4. q = p
      BY <1>1, <3>3, OneUp
    <3>. QED  BY <2>3, <3>1, <3>4
  <2>. QED  BY <2>8, <2>9
<1>. QED  BY <1>7, <1>8, <1>9

(* The last stops of the levels.                                           *)
LEMMA DescendIs ==
  ASSUME NEW z, NEW N, NEW a, NEW v, NEW g, Linked(z, N, a, v, g),
         NEW b \in 0..N, NEW k, NEW Ahead, CutAt(z, N, a, b, k, Ahead),
         NEW top \in 1..z.level, g[b] >= top
  PROVE  \A i \in 1..top : \E p \in b..k : LastUp(g, k, i, p) /\ Descend(z, top, a[b], Ahead)[i] = Stop(a, b, p)
<1>1. /\ N \in Nat /\ g \in [0..N -> Nat] /\ Heighted(g, N) /\ z.level \in Nat
      /\ k \in b..N /\ k \in 0..N /\ b \in 0..k /\ b \in b..k /\ top \in Nat
  BY LinkedTypes DEF CutAt
<1>2. \A i \in 1..top : \E p \in b..k : LastUp(g, k, i, p)
  <2>. SUFFICES ASSUME NEW i \in 1..top PROVE \E p \in b..k : LastUp(g, k, i, p)
    OBVIOUS
  <2>1. i \in Nat /\ g[b] >= i
    BY <1>1
  <2>. QED  BY <1>1, <2>1, LastUpExists
<1>. DEFINE Fixed(r) == r = [i \in 1..(top + 1) |-> IF i > top THEN [at |-> a[b], gone |-> 0] ELSE Ride(z, i, r[i + 1], Ahead)]
            last == CHOOSE r : Fixed(r)
            P(i) == CHOOSE p : p \in b..k /\ LastUp(g, k, i, p)
            L == [i \in 1..(top + 1) |-> IF i > top THEN [at |-> a[b], gone |-> 0] ELSE Stop(a, b, P(i))]
<1>3. \A i \in 1..top : P(i) \in b..k /\ LastUp(g, k, i, P(i))
  BY <1>2
<1>. HIDE DEF P
<1>4. \A i \in 1..top : L[i] = Stop(a, b, P(i))
  BY <1>1
<1>5. L[top + 1] = Stop(a, b, b)
  BY <1>1 DEF Stop
(* The stop above level i is one from which level i can be ridden.         *)
<1>6. ASSUME NEW i \in 1..top
      PROVE  Ride(z, i, L[i + 1], Ahead) = L[i]
  <2>1. i \in 1..z.level /\ i \in Nat
    BY <1>1
  <2>2. CASE i = top
    <3>1. L[i + 1] = Stop(a, b, b)
      BY <1>5, <2>2
    <3>2. g[b] >= i
      BY <2>2
    <3>3. PICK p : p = P(i)
      OBVIOUS
    <3>4. LastUp(g, k, i, p)
      BY <1>3, <3>3
    <3>5. Ride(z, i, Stop(a, b, b), Ahead) = Stop(a, b, p)
      BY <1>1, <2>1, <3>2, <3>4, RideIs
    <3>. QED  BY <1>4, <3>1, <3>3, <3>5
  <2>3. CASE i # top
    <3>1. i + 1 \in 1..top
      BY <1>1, <2>3
    <3>2. L[i + 1] = Stop(a, b, P(i + 1)) /\ P(i + 1) \in b..k /\ LastUp(g, k, i + 1, P(i + 1))
      BY <1>3, <1>4, <3>1
    <3>3. g[P(i + 1)] >= i
      <4>1. g[P(i + 1)] >= i + 1
        BY <3>2 DEF LastUp
      <4>2. P(i + 1) \in 0..N
        BY <1>1, <3>2
      <4>3. g[P(i + 1)] \in Nat
        BY <1>1, <4>2
      <4>. QED  BY <2>1, <4>1, <4>3
    <3>4. PICK c, p : c = P(i + 1) /\ p = P(i)
      OBVIOUS
    <3>5. c \in b..k /\ g[c] >= i /\ LastUp(g, k, i, p)
      BY <1>3, <3>2, <3>3, <3>4
    <3>6. Ride(z, i, Stop(a, b, c), Ahead) = Stop(a, b, p)
      BY <2>1, <3>5, RideIs
    <3>. QED  BY <1>4, <3>2, <3>4, <3>6
  <2>. QED  BY <2>2, <2>3
<1>7. Fixed(L)
  <2>1. ASSUME NEW i \in 1..(top + 1)
        PROVE  L[i] = IF i > top THEN [at |-> a[b], gone |-> 0] ELSE Ride(z, i, L[i + 1], Ahead)
    <3>1. CASE i > top
      BY <3>1
    <3>2. CASE ~(i > top)
      <4>1. i \in 1..top
        BY <1>1, <3>2
      <4>. HIDE DEF L
      <4>. QED  BY <1>6, <3>2, <4>1
    <3>. QED  BY <3>1, <3>2
  <2>2. L = [i \in 1..(top + 1) |-> L[i]]
    OBVIOUS
  <2>. HIDE DEF L
  <2>. QED  BY <2>1, <2>2
<1>8. Fixed(last)
  <2>. HIDE DEF Fixed, L
  <2>. QED  BY <1>7
<1>9. \A i \in 1..(top + 1) : last[i] = IF i > top THEN [at |-> a[b], gone |-> 0] ELSE Ride(z, i, last[i + 1], Ahead)
  <2>. HIDE DEF last
  <2>. QED  BY <1>8
<1>10. Descend(z, top, a[b], Ahead) = last
  BY DEF Descend
<1>. HIDE DEF Fixed, last, L
<1>11. PICK G : G = {d \in 0..top : last[top + 1 - d] = L[top + 1 - d]}
  OBVIOUS
<1>12. 0 \in G
  <2>1. top + 1 \in 1..(top + 1) /\ top + 1 > top /\ top + 1 - 0 = top + 1
    BY <1>1
  <2>2. last[top + 1] = L[top + 1]
    BY <1>1, <1>5, <1>9, <2>1 DEF Stop
  <2>. QED  BY <1>1, <1>11, <2>1, <2>2
<1>13. ASSUME NEW d \in 1..top, d - 1 \in G
       PROVE  d \in G
  <2>1. PICK i : i = top + 1 - d
    OBVIOUS
  <2>2. i \in 1..top /\ i \in 1..(top + 1) /\ ~(i > top) /\ top + 1 - (d - 1) = i + 1 /\ d \in 0..top
    BY <1>1, <2>1
  <2>3. last[i + 1] = L[i + 1]
    BY <1>11, <1>13, <2>2
  <2>. QED  BY <1>6, <1>9, <1>11, <2>1, <2>2, <2>3
<1>14. ASSUME NEW i \in 1..top
       PROVE  last[i] = L[i]
  <2>1. \A d \in 0..top : d \in G
    BY <1>1, <1>12, <1>13, Reach
  <2>2. top + 1 - i \in 0..top /\ top + 1 - (top + 1 - i) = i
    BY <1>1
  <2>. QED  BY <1>11, <2>1, <2>2
<1>. QED  BY <1>3, <1>4, <1>10, <1>14

(***************************************************************************)
(* The path from the head.                                                 *)
(***************************************************************************)

(* The path: the last place up to k on every level, k itself on the lowest.*)
LEMMA PathIs ==
  ASSUME NEW z, NEW N, NEW a, NEW v, NEW g, Linked(z, N, a, v, g),
         NEW k, NEW Ahead, CutAt(z, N, a, 0, k, Ahead)
  PROVE  /\ \A i \in 1..z.level :
              \E p \in 0..k : LastUp(g, k, i, p) /\ Path(z, Ahead)[i] = Stop(a, 0, p)
         /\ Path(z, Ahead)[1].at = a[k] /\ Path(z, Ahead)[1].gone = k
         /\ Link(z, Path(z, Ahead)[1].at, 1).to = a[k + 1]
<1>1. /\ N \in Nat /\ g \in [0..N -> Nat] /\ Heighted(g, N) /\ g[0] = MaxLevel /\ a[0] = HeadNode
      /\ z.level \in 1..MaxLevel /\ MaxLevel \in Nat /\ \A p \in 0..N : g[p] >= 1
  BY LinkedTypes
<1>2. k \in 0..N /\ 0 \in 0..N
  BY <1>1 DEF CutAt
<1>3. \A i \in 1..z.level :
        \E p \in 0..k : LastUp(g, k, i, p) /\ Path(z, Ahead)[i] = Stop(a, 0, p)
  <2>1. z.level \in 1..z.level /\ g[0] >= z.level
    BY <1>1
  <2>2. PICK top : top = z.level
    OBVIOUS
  <2>3. \A i \in 1..top : \E p \in 0..k : LastUp(g, k, i, p) /\ Descend(z, top, a[0], Ahead)[i] = Stop(a, 0, p)
    BY <1>2, <2>1, <2>2, DescendIs
  <2>. QED  BY <1>1, <2>2, <2>3 DEF Path
<1>4. 1 \in 1..z.level
  BY <1>1
<1>5. PICK p \in 0..k : LastUp(g, k, 1, p) /\ Path(z, Ahead)[1] = Stop(a, 0, p)
  BY <1>3, <1>4
<1>6. p = k
  <2>1. LastUp(g, k, 1, k)
    BY <1>1, <1>2 DEF LastUp
  <2>. QED  BY <1>1, <1>2, <1>5, <2>1, OneUp
<1>7. Path(z, Ahead)[1].at = a[k] /\ Path(z, Ahead)[1].gone = k
  BY <1>2, <1>5, <1>6 DEF Stop
<1>. QED  BY <1>2, <1>3, <1>7, LowestLink

(***************************************************************************)
(* Where sets of nodes end.                                                *)
(***************************************************************************)
UpTo(z, N, a, k, S) ==
  k \in 0..N /\ S \subseteq Nodes(z) /\ \A p \in 1..N : a[p] \in S <=> p <= k

(* The stops at the nodes of a set, and those at most e steps away.        *)
LEMMA CutOfNodes ==
  ASSUME NEW z, NEW N, NEW a, NEW v, NEW g, Linked(z, N, a, v, g),
         NEW k, NEW S, UpTo(z, N, a, k, S), NEW b \in 0..N
  PROVE  CutAt(z, N, a, b, IF b <= k THEN k ELSE b, Stops(S))
<1>1. N \in Nat /\ k \in 0..N
  BY LinkedTypes DEF UpTo
<1>2. ASSUME NEW q \in (b + 1)..N
      PROVE  Stop(a, b, q) \in Stops(S) <=> q <= k
  <2>1. q \in 1..N /\ q - b \in Int
    BY <1>1
  <2>. QED  BY <2>1 DEF UpTo, Stop, Stops
<1>3. Stops(S) \subseteq Stops(Nodes(z))
  BY DEF UpTo, Stops
<1>4. PICK e : e = IF b <= k THEN k ELSE b
  OBVIOUS
<1>5. e \in b..N /\ \A q \in (b + 1)..N : q <= k <=> q <= e
  BY <1>1, <1>4
<1>. QED  BY <1>2, <1>3, <1>4, <1>5 DEF CutAt

LEMMA CutOfIndex ==
  ASSUME NEW z, NEW N, NEW a, NEW v, NEW g, Linked(z, N, a, v, g), NEW e \in 0..N
  PROVE  CutAt(z, N, a, 0, e, [at : Nodes(z), gone : 0..e])
<1>1. N \in Nat /\ Nodes(z) = {a[p] : p \in 1..N}
  BY LinkedTypes, LinkedNodes
<1>2. ASSUME NEW q \in (0 + 1)..N
      PROVE  Stop(a, 0, q) \in [at : Nodes(z), gone : 0..e] <=> q <= e
  <2>1. q \in 1..N /\ q - 0 = q /\ a[q] \in Nodes(z)
    BY <1>1
  <2>. QED  BY <1>1, <2>1 DEF Stop
<1>3. [at : Nodes(z), gone : 0..e] \subseteq Stops(Nodes(z))
  BY <1>1 DEF Stops
<1>. QED  BY <1>1, <1>2, <1>3 DEF CutAt

(* A set of nodes that has every node before each of its own.              *)
LEMMA DownSet ==
  ASSUME NEW z, NEW N, NEW a, NEW v, NEW g, Linked(z, N, a, v, g), NEW S \in SUBSET Nodes(z),
         \A p, q \in 1..N : p < q /\ a[q] \in S => a[p] \in S
  PROVE  \E k : UpTo(z, N, a, k, S)
<1>1. N \in Nat
  BY LinkedTypes
<1>2. PICK P : P = {p \in 1..N : a[p] \in S}
  OBVIOUS
<1>3. P \in SUBSET (1..N) /\ \A p, q \in 1..N : p < q /\ q \in P => p \in P
  BY <1>2
<1>4. PICK k \in 0..N : P = 1..k
  BY <1>1, <1>3, Cut
<1>5. \A p \in 1..N : a[p] \in S <=> p <= k
  BY <1>2, <1>4
<1>. QED  BY <1>5 DEF UpTo

(* The nodes below a score, those not above it, and those before a member  *)
(* and its score are the places up to some place.                          *)
LEMMA LowerCut ==
  ASSUME NEW z, NEW N, NEW a, NEW v, NEW g, Linked(z, N, a, v, g), NEW s \in Int
  PROVE  /\ \E k : UpTo(z, N, a, k, Lower(z, s)) /\ \A p \in 1..N : v[p] < s <=> p <= k
         /\ \E k : /\ UpTo(z, N, a, k, {n \in Nodes(z) : z.node[n].value <= s})
                   /\ \A p \in 1..N : v[p] <= s <=> p <= k
<1>1. N \in Nat /\ v \in [0..N -> Int] /\ Nodes(z) = {a[p] : p \in 1..N} /\ Placed(N, a, v, g)
  BY LinkedTypes, LinkedNodes
<1>2. \A p \in 1..N : a[p] \in Nodes(z) /\ z.node[a[p]].value = v[p] /\ v[p] \in Int
  <2>. SUFFICES ASSUME NEW p \in 1..N PROVE a[p] \in Nodes(z) /\ z.node[a[p]].value = v[p] /\ v[p] \in Int
    OBVIOUS
  <2>1. p \in 0..N
    BY <1>1
  <2>. QED  BY <1>1, <2>1, NodeAtPlace
<1>3. \A p, q \in 1..N : p < q => v[p] <= v[q]
  <2>1. \A p, q \in 1..N : p < q => Precedes(a, v, p, q)
    BY <1>1 DEF Placed
  <2>. QED  BY <1>2, <2>1 DEF Precedes
<1>4. \E k : UpTo(z, N, a, k, Lower(z, s)) /\ \A p \in 1..N : v[p] < s <=> p <= k
  <2>1. PICK S : S = Lower(z, s)
    OBVIOUS
  <2>2. S \in SUBSET Nodes(z) /\ \A p \in 1..N : a[p] \in S <=> v[p] < s
    BY <1>2, <2>1 DEF Lower
  <2>3. \A p, q \in 1..N : p < q /\ a[q] \in S => a[p] \in S
    BY <1>2, <1>3, <2>2
  <2>4. PICK k : UpTo(z, N, a, k, S)
    BY <2>2, <2>3, DownSet
  <2>5. \A p \in 1..N : v[p] < s <=> p <= k
    BY <2>2, <2>4 DEF UpTo
  <2>. QED  BY <2>1, <2>4, <2>5
<1>5. \E k : /\ UpTo(z, N, a, k, {n \in Nodes(z) : z.node[n].value <= s})
             /\ \A p \in 1..N : v[p] <= s <=> p <= k
  <2>1. PICK S : S = {n \in Nodes(z) : z.node[n].value <= s}
    OBVIOUS
  <2>2. S \in SUBSET Nodes(z) /\ \A p \in 1..N : a[p] \in S <=> v[p] <= s
    BY <1>2, <2>1
  <2>3. \A p, q \in 1..N : p < q /\ a[q] \in S => a[p] \in S
    BY <1>2, <1>3, <2>2
  <2>4. PICK k : UpTo(z, N, a, k, S)
    BY <2>2, <2>3, DownSet
  <2>5. \A p \in 1..N : v[p] <= s <=> p <= k
    BY <2>2, <2>4 DEF UpTo
  <2>. QED  BY <2>1, <2>4, <2>5
<1>. QED  BY <1>4, <1>5

LEMMA BeforeCut ==
  ASSUME NEW z, NEW N, NEW a, NEW v, NEW g, Linked(z, N, a, v, g), NEW s \in Int, NEW m \in Nat
  PROVE  \E k : /\ UpTo(z, N, a, k, Before(z, s, m))
                /\ \A p \in 1..N : v[p] < s \/ (v[p] = s /\ a[p] < m) <=> p <= k
<1>1. N \in Nat /\ v \in [0..N -> Int] /\ Nodes(z) = {a[p] : p \in 1..N} /\ Placed(N, a, v, g)
      /\ \A p \in 1..N : a[p] \in Nat
  BY LinkedTypes, LinkedNodes
<1>2. \A p \in 1..N : a[p] \in Nodes(z) /\ z.node[a[p]].value = v[p] /\ v[p] \in Int
  <2>. SUFFICES ASSUME NEW p \in 1..N PROVE a[p] \in Nodes(z) /\ z.node[a[p]].value = v[p] /\ v[p] \in Int
    OBVIOUS
  <2>1. p \in 0..N
    BY <1>1
  <2>. QED  BY <1>1, <2>1, NodeAtPlace
<1>3. \A p, q \in 1..N : p < q => Precedes(a, v, p, q)
  BY <1>1 DEF Placed
<1>4. PICK S : S = Before(z, s, m)
  OBVIOUS
<1>5. S \in SUBSET Nodes(z) /\ \A p \in 1..N : a[p] \in S <=> v[p] < s \/ (v[p] = s /\ a[p] < m)
  BY <1>2, <1>4 DEF Before, Lower
<1>6. \A p, q \in 1..N : p < q /\ a[q] \in S => a[p] \in S
  <2>. SUFFICES ASSUME NEW p \in 1..N, NEW q \in 1..N, p < q, a[q] \in S PROVE a[p] \in S
    OBVIOUS
  <2>1. v[q] < s \/ (v[q] = s /\ a[q] < m)
    BY <1>5
  <2>2. v[p] < v[q] \/ (v[p] = v[q] /\ a[p] < a[q])
    BY <1>3 DEF Precedes
  <2>3. v[p] \in Int /\ v[q] \in Int /\ a[p] \in Nat /\ a[q] \in Nat
    BY <1>1, <1>2
  <2>4. v[p] < s \/ (v[p] = s /\ a[p] < m)
    BY <2>1, <2>2, <2>3
  <2>. QED  BY <1>5, <2>4
<1>7. PICK k : UpTo(z, N, a, k, S)
  BY <1>5, <1>6, DownSet
<1>8. \A p \in 1..N : v[p] < s \/ (v[p] = s /\ a[p] < m) <=> p <= k
  BY <1>5, <1>7 DEF UpTo
<1>. QED  BY <1>4, <1>7, <1>8

(***************************************************************************)
(* Walking along the lowest level.                                         *)
(***************************************************************************)
(* What the walk has from place q on.                                      *)
WalkFrom(w, a, q, top, T) ==
  w[q] = IF q \in 1..top THEN (IF a[q] \in T THEN <<a[q]>> ELSE <<>>) \o w[q + 1] ELSE <<>>

(* The recursive function of Walk is one that steps from place to place.   *)
LEMMA WalkExists ==
  ASSUME NEW N \in Nat, NEW a, NEW top \in 0..N, NEW T
  PROVE  \E w : \A q \in 0..(N + 1) : WalkFrom(w, a, q, top, T)
<1>1. PICK G : G = {d \in 0..(N + 1) : \E w : \A q \in (N + 1 - d)..(N + 1) : WalkFrom(w, a, q, top, T)}
  OBVIOUS
<1>2. 0 \in G
  <2>1. PICK w : w = [q \in 0..(N + 2) |-> <<>>]
    OBVIOUS
  <2>2. \A q \in (N + 1 - 0)..(N + 1) : q \notin 1..top /\ q \in 0..(N + 2)
    OBVIOUS
  <2>3. \A q \in (N + 1 - 0)..(N + 1) : WalkFrom(w, a, q, top, T)
    BY <2>1, <2>2 DEF WalkFrom
  <2>4. 0 \in 0..(N + 1)
    OBVIOUS
  <2>. QED  BY <1>1, <2>3, <2>4
<1>3. ASSUME NEW d \in 1..(N + 1), d - 1 \in G
      PROVE  d \in G
  <2>1. PICK w : \A q \in (N + 1 - (d - 1))..(N + 1) : WalkFrom(w, a, q, top, T)
    BY <1>1, <1>3
  <2>2. PICK p : p = N + 1 - d
    OBVIOUS
  <2>3. PICK e : e = IF p \in 1..top THEN (IF a[p] \in T THEN <<a[p]>> ELSE <<>>) \o w[p + 1] ELSE <<>>
    OBVIOUS
  <2>4. PICK u : u = [q \in 0..(N + 2) |-> IF q = p THEN e ELSE w[q]]
    OBVIOUS
  <2>5. p \in Nat /\ p \in 0..(N + 2) /\ p + 1 # p /\ p + 1 \in 0..(N + 2) /\ N + 1 - (d - 1) = p + 1
    BY <2>2
  <2>6. ASSUME NEW q \in p..(N + 1)
        PROVE  WalkFrom(u, a, q, top, T)
    <3>1. CASE q = p
      <4>1. u[p] = e /\ u[p + 1] = w[p + 1]
        BY <2>4, <2>5
      <4>. QED  BY <2>3, <3>1, <4>1 DEF WalkFrom
    <3>2. CASE q # p
      <4>1. q \in (p + 1)..(N + 1) /\ q \in 0..(N + 2) /\ q + 1 \in 0..(N + 2) /\ q + 1 # p
        BY <2>5, <3>2
      <4>2. u[q] = w[q] /\ u[q + 1] = w[q + 1]
        BY <2>4, <3>2, <4>1
      <4>3. WalkFrom(w, a, q, top, T)
        BY <2>1, <2>5, <4>1
      <4>. QED  BY <4>2, <4>3 DEF WalkFrom
    <3>. QED  BY <3>1, <3>2
  <2>7. d \in 0..(N + 1)
    OBVIOUS
  <2>. QED  BY <1>1, <2>2, <2>6, <2>7
<1>4. \A d \in 0..(N + 1) : d \in G
  <2>1. N + 1 \in Nat
    OBVIOUS
  <2>. QED  BY <1>2, <1>3, <2>1, Reach
<1>5. N + 1 \in 0..(N + 1) /\ N + 1 - (N + 1) = 0
  OBVIOUS
<1>. QED  BY <1>1, <1>4, <1>5

LEMMA WalkSteps ==
  ASSUME NEW z, NEW N, NEW a, NEW v, NEW g, Linked(z, N, a, v, g),
         NEW top, NEW S, UpTo(z, N, a, top, S), NEW T
  PROVE  \E w : \A q \in 0..(N + 1) : w[q] = Walk(z, a[q], S, T) /\ WalkFrom(w, a, q, top, T)
<1>1. N \in Nat /\ top \in 0..N /\ S \subseteq Nodes(z) /\ \A q \in 1..N : a[q] \in S <=> q <= top
  BY LinkedTypes DEF UpTo
<1>2. /\ a[0] = HeadNode /\ a[N + 1] = Null
      /\ \A q \in 1..N : a[q] \in Members
  BY LinkedTypes
<1>3. PICK D : D = DOMAIN z.node \cup {Null}
  OBVIOUS
<1>4. D = {a[q] : q \in 0..(N + 1)}
  <2>1. DOMAIN z.node = {a[q] : q \in 0..N}
    BY LinkedNodes
  <2>2. \A q \in 0..(N + 1) : q = N + 1 \/ q \in 0..N
    BY <1>1
  <2>3. N + 1 \in 0..(N + 1) /\ \A q \in 0..N : q \in 0..(N + 1)
    BY <1>1
  <2>. QED  BY <1>2, <1>3, <2>1, <2>2, <2>3
<1>5. \A q, r \in 0..(N + 1) : a[q] = a[r] => q = r
  BY PlacesDiffer, LinkedTypes
<1>6. \A q \in 0..(N + 1) : a[q] \in S <=> q \in 1..top
  <2>. SUFFICES ASSUME NEW q \in 0..(N + 1) PROVE a[q] \in S <=> q \in 1..top
    OBVIOUS
  <2>1. q = 0 \/ q = N + 1 \/ q \in 1..N
    BY <1>1
  <2>2. HeadNode \notin Nodes(z) /\ Null \notin Nodes(z)
    BY LinkedNodes DEF Nodes
  <2>. QED  BY <1>1, <1>2, <2>1, <2>2
<1>7. PICK w : \A q \in 0..(N + 1) : WalkFrom(w, a, q, top, T)
  BY <1>1, WalkExists
<1>. DEFINE One(x) == IF x \in T THEN <<x>> ELSE <<>>
            Fixed(f) == f = [x \in DOMAIN z.node \cup {Null} |->
                               IF x \notin S THEN <<>>
                               ELSE (IF x \in T THEN <<x>> ELSE <<>>) \o f[Link(z, x, 1).to]]
            walk == CHOOSE f : Fixed(f)
            W == [x \in D |-> w[CHOOSE q \in 0..(N + 1) : a[q] = x]]
<1>8. \A q \in 0..(N + 1) : q \notin 1..top => w[q] = <<>>
  BY <1>7 DEF WalkFrom
<1>9. \A q \in 0..(N + 1) : q \in 1..top => w[q] = One(a[q]) \o w[q + 1]
  BY <1>7 DEF WalkFrom
<1>10. \A q \in 0..(N + 1) : W[a[q]] = w[q]
  <2>. SUFFICES ASSUME NEW q \in 0..(N + 1) PROVE W[a[q]] = w[q]
    OBVIOUS
  <2>1. (CHOOSE r \in 0..(N + 1) : a[r] = a[q]) = q
    BY <1>5
  <2>2. a[q] \in D
    BY <1>4
  <2>. QED  BY <2>1, <2>2
<1>11. ASSUME NEW x \in S
       PROVE  \E q \in 1..top : /\ x = a[q] /\ Link(z, x, 1).to = a[q + 1]
                                /\ q \in 0..(N + 1) /\ q + 1 \in 0..(N + 1) /\ x \in D
  <2>1. PICK q \in 1..N : x = a[q]
    BY <1>1, LinkedNodes
  <2>2. q \in 1..top /\ q \in 0..N /\ q \in 0..(N + 1) /\ q + 1 \in 0..(N + 1)
    BY <1>1, <2>1
  <2>3. Link(z, x, 1).to = a[q + 1]
    BY <2>1, <2>2, LowestLink
  <2>. QED  BY <1>4, <2>1, <2>2, <2>3
<1>12. Fixed(W)
  <2>1. ASSUME NEW x \in D
        PROVE  W[x] = IF x \notin S THEN <<>> ELSE One(x) \o W[Link(z, x, 1).to]
    <3>1. CASE x \in S
      <4>1. PICK q \in 1..top : /\ x = a[q] /\ Link(z, x, 1).to = a[q + 1]
                                /\ q \in 0..(N + 1) /\ q + 1 \in 0..(N + 1)
        BY <1>11, <3>1
      <4>2. W[x] = w[q] /\ W[Link(z, x, 1).to] = w[q + 1]
        <5>. HIDE DEF W
        <5>. QED  BY <1>10, <4>1
      <4>. HIDE DEF W
      <4>. QED  BY <1>9, <3>1, <4>1, <4>2
    <3>2. CASE x \notin S
      <4>1. PICK q \in 0..(N + 1) : x = a[q]
        BY <1>4
      <4>2. W[x] = <<>>
        <5>. HIDE DEF W
        <5>. QED  BY <1>6, <1>8, <1>10, <3>2, <4>1
      <4>. HIDE DEF W
      <4>. QED  BY <3>2, <4>2
    <3>. QED  BY <3>1, <3>2
  <2>2. W = [x \in D |-> W[x]]
    OBVIOUS
  <2>. HIDE DEF W
  <2>. QED  BY <1>3, <2>1, <2>2
<1>13. Fixed(walk)
  <2>. HIDE DEF Fixed, W
  <2>. QED  BY <1>12
<1>14. \A x \in D : walk[x] = IF x \notin S THEN <<>> ELSE One(x) \o walk[Link(z, x, 1).to]
  <2>. HIDE DEF walk
  <2>. QED  BY <1>3, <1>13
<1>15. \A q \in 0..(N + 1) : Walk(z, a[q], S, T) = walk[a[q]]
  BY DEF Walk
<1>. HIDE DEF walk, Fixed, W
<1>16. PICK u : u = [q \in 0..(N + 1) |-> walk[a[q]]]
  OBVIOUS
<1>17. ASSUME NEW q \in 0..(N + 1)
       PROVE  u[q] = Walk(z, a[q], S, T) /\ WalkFrom(u, a, q, top, T)
  <2>1. u[q] = walk[a[q]] /\ a[q] \in D
    BY <1>4, <1>16
  <2>2. CASE q \notin 1..top
    <3>1. a[q] \notin S
      BY <1>6, <2>2
    <3>. QED  BY <1>14, <1>15, <2>1, <2>2, <3>1 DEF WalkFrom
  <2>3. CASE q \in 1..top
    <3>1. a[q] \in S
      BY <1>6, <2>3
    <3>2. q \in 0..N /\ q + 1 \in 0..(N + 1)
      BY <1>1, <2>3
    <3>3. Link(z, a[q], 1).to = a[q + 1]
      BY <3>2, LowestLink
    <3>4. u[q + 1] = walk[a[q + 1]]
      BY <1>16, <3>2
    <3>. QED  BY <1>14, <1>15, <2>1, <2>3, <3>1, <3>3, <3>4 DEF WalkFrom
  <2>. QED  BY <2>2, <2>3
<1>. QED  BY <1>17

(* From place b on T has the places from lo to hi.                         *)
Stretched(a, b, top, T, lo, hi) ==
  /\ lo \in Nat \ {0} /\ hi \in 0..top
  /\ \A p \in b..top : a[p] \in T <=> lo <= p /\ p <= hi

(* A walk gathers a piece.                                                 *)
LEMMA WalkIs ==
  ASSUME NEW z, NEW N, NEW a, NEW v, NEW g, Linked(z, N, a, v, g),
         NEW top, NEW S, UpTo(z, N, a, top, S), NEW p \in 1..(N + 1),
         NEW T, NEW lo, NEW hi, Stretched(a, p, top, T, lo, hi)
  PROVE  Walk(z, a[p], S, T) = Piece(a, IF p < lo THEN lo ELSE p, hi)
<1>1. N \in Nat /\ top \in 0..N /\ lo \in Nat \ {0} /\ hi \in 0..top /\ \A q \in 1..N : a[q] \in Members
  BY LinkedTypes DEF UpTo, Stretched
<1>2. \A q \in p..top : a[q] \in T <=> lo <= q /\ q <= hi
  BY DEF Stretched
<1>. DEFINE Val(q) == Piece(a, IF q < lo THEN lo ELSE q, hi)
            One(x) == IF x \in T THEN <<x>> ELSE <<>>
<1>3. ASSUME NEW q \in p..(N + 1), q \notin 1..top
      PROVE  Val(q) = <<>>
  <2>1. PICK l : l = IF q < lo THEN lo ELSE q
    OBVIOUS
  <2>2. l \in Int /\ hi \in Int /\ hi < l
    BY <1>1, <1>3, <2>1
  <2>. QED  BY <2>1, <2>2, EmptyPiece
<1>4. ASSUME NEW q \in p..top
      PROVE  Val(q) = One(a[q]) \o Val(q + 1)
  <2>1. q \in Int /\ hi \in Int /\ lo \in Int /\ q + 1 \in Int
    BY <1>1
  <2>2. CASE lo <= q /\ q <= hi
    <3>1. One(a[q]) = <<a[q]>>
      BY <1>2, <2>2
    <3>2. Val(q) = Piece(a, q, hi) /\ Val(q + 1) = Piece(a, q + 1, hi)
      BY <2>1, <2>2
    <3>3. Over(a, q, hi, Members)
      BY <1>1, <2>1, <2>2 DEF Over
    <3>4. <<a[q]>> \o Piece(a, q + 1, hi) = Piece(a, q, hi)
      BY <2>1, <2>2, <3>3, PieceFromFirst
    <3>. QED  BY <3>1, <3>2, <3>4
  <2>3. CASE ~(lo <= q /\ q <= hi)
    <3>1. One(a[q]) = <<>>
      BY <1>2, <2>3
    <3>2. Val(q) = Val(q + 1)
      <4>1. CASE q < lo
        <5>1. Val(q) = Piece(a, lo, hi)
          BY <2>1, <4>1
        <5>2. (IF q + 1 < lo THEN lo ELSE q + 1) = lo
          BY <2>1, <4>1
        <5>. QED  BY <2>1, <5>1, <5>2
      <4>2. CASE ~(q < lo)
        <5>1. Val(q) = Piece(a, q, hi) /\ Val(q + 1) = Piece(a, q + 1, hi)
          BY <2>1, <4>2
        <5>2. hi < q /\ hi < q + 1
          BY <2>1, <2>3, <4>2
        <5>. QED  BY <2>1, <5>1, <5>2, EmptyPiece
      <4>. QED  BY <4>1, <4>2
    <3>3. Val(q + 1) \in Seq(Members)
      <4>1. PICK l : l = IF q + 1 < lo THEN lo ELSE q + 1
        OBVIOUS
      <4>2. l \in Int /\ Over(a, l, hi, Members)
        <5>1. l \in Nat \ {0}
          BY <1>1, <2>1, <4>1
        <5>. QED  BY <1>1, <5>1 DEF Over
      <4>3. Piece(a, l, hi) \in Seq(Members)
        BY <2>1, <4>2, Pieces
      <4>. QED  BY <2>1, <4>1, <4>3
    <3>4. <<>> \o Val(q + 1) = Val(q + 1)
      <4>. HIDE DEF Val
      <4>. QED  BY <3>3, ConcatEmptySeq
    <3>. QED  BY <3>1, <3>2, <3>4
  <2>. QED  BY <2>2, <2>3
<1>. HIDE DEF Val
<1>5. PICK w : \A q \in 0..(N + 1) : w[q] = Walk(z, a[q], S, T) /\ WalkFrom(w, a, q, top, T)
  BY WalkSteps
<1>6. \A q \in 0..(N + 1) : q \in 1..top => w[q] = One(a[q]) \o w[q + 1]
  BY <1>5 DEF WalkFrom
<1>7. \A q \in 0..(N + 1) : q \notin 1..top => w[q] = <<>>
  BY <1>5 DEF WalkFrom
<1>. HIDE DEF One
<1>8. PICK n : n = N + 1 - p
  OBVIOUS
<1>9. PICK G : G = {d \in 0..n : w[N + 1 - d] = Val(N + 1 - d)}
  OBVIOUS
<1>10. n \in Nat /\ n \in 0..n /\ N + 1 - n = p
  BY <1>1, <1>8
<1>11. 0 \in G
  <2>1. N + 1 - 0 = N + 1 /\ N + 1 \in 0..(N + 1) /\ N + 1 \notin 1..top /\ N + 1 \in p..(N + 1) /\ 0 \in 0..n
    BY <1>1, <1>10
  <2>. QED  BY <1>3, <1>7, <1>9, <2>1
<1>12. ASSUME NEW d \in 1..n, d - 1 \in G
       PROVE  d \in G
  <2>1. PICK q : q = N + 1 - d
    OBVIOUS
  <2>2. q \in 0..(N + 1) /\ q \in p..(N + 1) /\ N + 1 - (d - 1) = q + 1 /\ d \in 0..n
    BY <1>1, <1>8, <2>1
  <2>3. CASE q \notin 1..top
    BY <1>3, <1>7, <1>9, <2>1, <2>2, <2>3
  <2>4. CASE q \in 1..top
    <3>1. q \in p..top
      BY <1>1, <2>2, <2>4
    <3>2. w[q + 1] = Val(q + 1)
      BY <1>9, <1>12, <2>2
    <3>3. w[q] = One(a[q]) \o Val(q + 1)
      BY <1>6, <2>2, <2>4, <3>2
    <3>. QED  BY <1>4, <1>9, <2>1, <2>2, <3>1, <3>3
  <2>. QED  BY <2>3, <2>4
<1>13. n \in G
  BY <1>10, <1>11, <1>12, Reach
<1>14. p \in 0..(N + 1) /\ w[p] = Val(p)
  BY <1>1, <1>9, <1>10, <1>13
<1>. QED  BY <1>5, <1>14 DEF Val

(***************************************************************************)
(* A place that is put in, and one that is taken out.                      *)
(***************************************************************************)

(* F is f with x behind place k; F is f without place k.                   *)
IsInserted(F, f, n, k, x) ==
  /\ F = [p \in 0..(n + 1) |-> F[p]]
  /\ \A p \in 0..k : F[p] = f[p]
  /\ F[k + 1] = x
  /\ \A p \in (k + 1)..n : F[p + 1] = f[p]

IsDeleted(F, f, n, k) ==
  /\ F = [p \in 0..n |-> F[p]]
  /\ \A p \in 0..(k - 1) : F[p] = f[p]
  /\ \A p \in k..n : F[p] = f[p + 1]

(* Where the old places are in the new list.                               *)
LEMMA InsertedAt ==
  ASSUME NEW n \in Nat, NEW k \in 0..n, NEW f, NEW x
  PROVE  IsInserted(Inserted(f, n + 1, k, x), f, n, k, x)
<1>1. PICK F : F = Inserted(f, n + 1, k, x)
  OBVIOUS
<1>2. \A p \in 0..(n + 1) : F[p] = IF p <= k THEN f[p] ELSE IF p = k + 1 THEN x ELSE f[p - 1]
  BY <1>1 DEF Inserted
<1>3. ASSUME NEW p \in (k + 1)..n
      PROVE  F[p + 1] = f[p]
  <2>1. p + 1 \in 0..(n + 1) /\ ~(p + 1 <= k) /\ p + 1 # k + 1 /\ (p + 1) - 1 = p
    OBVIOUS
  <2>. QED  BY <1>2, <2>1
<1>4. F = [p \in 0..(n + 1) |-> F[p]]
  BY <1>1 DEF Inserted
<1>5. ASSUME NEW p \in 0..k
      PROVE  F[p] = f[p]
  <2>1. p \in 0..(n + 1) /\ p <= k
    OBVIOUS
  <2>. QED  BY <1>2, <2>1
<1>6. F[k + 1] = x
  <2>1. k + 1 \in 0..(n + 1) /\ ~(k + 1 <= k)
    OBVIOUS
  <2>. QED  BY <1>2, <2>1
<1>. QED  BY <1>1, <1>3, <1>4, <1>5, <1>6 DEF IsInserted

LEMMA DeletedAt ==
  ASSUME NEW n \in Nat, NEW k \in 0..(n + 1), NEW f
  PROVE  IsDeleted(Deleted(f, n, k), f, n, k)
<1>1. PICK F : F = Deleted(f, n, k)
  OBVIOUS
<1>2. F = [p \in 0..n |-> F[p]] /\ \A p \in 0..n : F[p] = IF p < k THEN f[p] ELSE f[p + 1]
  BY <1>1 DEF Deleted
<1>3. (\A p \in 0..(k - 1) : p \in 0..n /\ p < k) /\ (\A p \in k..n : p \in 0..n /\ ~(p < k))
  OBVIOUS
<1>. QED  BY <1>1, <1>2, <1>3 DEF IsDeleted

(* A new member between those before it and those after it.                *)
LEMMA InsertedPlaces ==
  ASSUME NEW N, NEW a, NEW v, NEW g, Placed(N, a, v, g),
         NEW m \in Members, NEW s \in Int, NEW h \in 1..MaxLevel, NEW k \in 0..N,
         \A p \in 1..N : a[p] # m,
         \A p \in 1..N : v[p] < s \/ (v[p] = s /\ a[p] < m) <=> p <= k
  PROVE  Placed(N + 1, Inserted(a, N + 2, k, m), Inserted(v, N + 1, k, s), Inserted(g, N + 1, k, h))
<1>1. N \in Nat /\ N + 1 \in Nat /\ v \in [0..N -> Int] /\ g \in [0..N -> Nat] /\ MaxLevel \in Nat
      /\ v[0] = 0 /\ g[0] = MaxLevel /\ a[0] = HeadNode /\ a[N + 1] = Null
  BY LevelAssumption DEF Placed, Heighted
<1>2. \A p \in 1..N : a[p] \in Members /\ a[p] \in Nat /\ g[p] >= 1 /\ v[p] \in Int
  <2>1. \A p \in 1..N : a[p] \in Members /\ g[p] >= 1
    BY DEF Placed
  <2>2. \A p \in 1..N : v[p] \in Int
    BY <1>1
  <2>3. \A x \in Members : x \in Nat
    BY MembersAssumption
  <2>. QED  BY <2>1, <2>2, <2>3
<1>3. m \in Nat
  BY MembersAssumption
<1>4. PICK A, V, G : /\ A = Inserted(a, (N + 1) + 1, k, m) /\ V = Inserted(v, N + 1, k, s)
                     /\ G = Inserted(g, N + 1, k, h)
  OBVIOUS
<1>5. IsInserted(A, a, N + 1, k, m)
  <2>1. k \in 0..(N + 1)
    BY <1>1
  <2>. QED  BY <1>1, <1>4, <2>1, InsertedAt
<1>6. IsInserted(V, v, N, k, s)
  BY <1>1, <1>4, InsertedAt
<1>7. IsInserted(G, g, N, k, h)
  BY <1>1, <1>4, InsertedAt
<1>8. ASSUME NEW p \in 1..(N + 1)
      PROVE  \/ p \in 1..k /\ p \in 1..N /\ A[p] = a[p] /\ V[p] = v[p] /\ G[p] = g[p]
             \/ p = k + 1 /\ A[p] = m /\ V[p] = s /\ G[p] = h
             \/ /\ p > k + 1 /\ p - 1 \in 1..N /\ p - 1 > k
                /\ A[p] = a[p - 1] /\ V[p] = v[p - 1] /\ G[p] = g[p - 1]
  <2>1. CASE p <= k
    <3>1. p \in 0..k /\ p \in 1..k /\ p \in 1..N
      BY <1>1, <2>1
    <3>. QED  BY <1>5, <1>6, <1>7, <3>1 DEF IsInserted
  <2>2. CASE p = k + 1
    BY <1>5, <1>6, <1>7, <2>2 DEF IsInserted
  <2>3. CASE p > k + 1
    <3>1. PICK r : r = p - 1
      OBVIOUS
    <3>2. r \in (k + 1)..N /\ r \in (k + 1)..(N + 1) /\ r + 1 = p /\ r \in 1..N /\ r > k
      BY <1>1, <2>3, <3>1
    <3>3. A[p] = a[r] /\ V[p] = v[r] /\ G[p] = g[r]
      BY <1>5, <1>6, <1>7, <3>2 DEF IsInserted
    <3>. QED  BY <2>3, <3>1, <3>2, <3>3
  <2>. QED  BY <1>1, <2>1, <2>2, <2>3
<1>9. A[0] = HeadNode /\ V[0] = 0 /\ G[0] = MaxLevel /\ A[(N + 1) + 1] = Null
  <2>1. N + 1 \in (k + 1)..(N + 1) /\ 0 \in 0..k
    BY <1>1
  <2>. QED  BY <1>1, <1>5, <1>6, <1>7, <2>1 DEF IsInserted
<1>10. \A p \in 1..(N + 1) : A[p] \in Members /\ A[p] \in Nat /\ V[p] \in Int /\ G[p] \in Nat /\ G[p] >= 1
  <2>. SUFFICES ASSUME NEW p \in 1..(N + 1)
       PROVE  A[p] \in Members /\ A[p] \in Nat /\ V[p] \in Int /\ G[p] \in Nat /\ G[p] >= 1
    OBVIOUS
  <2>1. \A r \in 1..N : g[r] \in Nat
    BY <1>1
  <2>2. h \in Nat /\ h >= 1
    BY <1>1
  <2>3. CASE p = k + 1
    BY <1>3, <1>8, <2>2, <2>3
  <2>4. CASE p # k + 1
    <3>1. PICK r \in 1..N : A[p] = a[r] /\ V[p] = v[r] /\ G[p] = g[r]
      BY <1>8, <2>4
    <3>. QED  BY <1>2, <2>1, <3>1
  <2>. QED  BY <2>3, <2>4
<1>11. G \in [0..(N + 1) -> Nat] /\ V \in [0..(N + 1) -> Int]
  <2>1. \A p \in 0..(N + 1) : p = 0 \/ p \in 1..(N + 1)
    OBVIOUS
  <2>2. \A p \in 0..(N + 1) : G[p] \in Nat /\ V[p] \in Int
    BY <1>1, <1>9, <1>10, <2>1
  <2>. QED  BY <1>6, <1>7, <2>2 DEF IsInserted
<1>12. ASSUME NEW p \in 1..(N + 1), NEW q \in 1..(N + 1), p < q
       PROVE  A[p] # A[q] /\ Precedes(A, V, p, q)
  <2>1. \A x, y \in 1..N : x < y => a[x] # a[y] /\ (v[x] < v[y] \/ (v[x] = v[y] /\ a[x] < a[y]))
    BY DEF Placed, Precedes
  <2>2. \/ p \in 1..k /\ p \in 1..N /\ A[p] = a[p] /\ V[p] = v[p]
        \/ p = k + 1 /\ A[p] = m /\ V[p] = s
        \/ p > k + 1 /\ p - 1 \in 1..N /\ p - 1 > k /\ A[p] = a[p - 1] /\ V[p] = v[p - 1]
    BY <1>8
  <2>3. \/ q \in 1..k /\ q \in 1..N /\ A[q] = a[q] /\ V[q] = v[q]
        \/ q = k + 1 /\ A[q] = m /\ V[q] = s
        \/ q > k + 1 /\ q - 1 \in 1..N /\ q - 1 > k /\ A[q] = a[q - 1] /\ V[q] = v[q - 1]
    BY <1>8
  <2>4. CASE p \in 1..k /\ q \in 1..k
    BY <1>12, <2>1, <2>2, <2>3, <2>4 DEF Precedes
  <2>5. CASE p \in 1..k /\ q = k + 1
    BY <1>2, <1>3, <2>2, <2>3, <2>5 DEF Precedes
  <2>6. CASE p \in 1..k /\ q > k + 1
    <3>1. p < q - 1
      BY <2>6
    <3>. QED  BY <2>1, <2>2, <2>3, <2>6, <3>1 DEF Precedes
  <2>7. CASE p = k + 1 /\ q > k + 1
    <3>1. A[p] = m /\ V[p] = s /\ A[q] = a[q - 1] /\ V[q] = v[q - 1] /\ q - 1 \in 1..N /\ ~(q - 1 <= k)
      BY <2>2, <2>3, <2>7
    <3>2. ~(v[q - 1] < s \/ (v[q - 1] = s /\ a[q - 1] < m)) /\ a[q - 1] # m
      BY <3>1
    <3>3. v[q - 1] \in Int /\ a[q - 1] \in Nat
      BY <1>2, <3>1
    <3>. QED  BY <1>3, <3>1, <3>2, <3>3 DEF Precedes
  <2>8. CASE p > k + 1 /\ q > k + 1
    <3>1. p - 1 < q - 1
      BY <1>12
    <3>. QED  BY <2>1, <2>2, <2>3, <2>8, <3>1 DEF Precedes
  <2>. QED  BY <1>1, <1>12, <2>4, <2>5, <2>6, <2>7, <2>8
<1>13. Heighted(G, N + 1)
  BY <1>1, <1>11 DEF Heighted
<1>14. A = [p \in 0..((N + 1) + 1) |-> A[p]]
  BY <1>5 DEF IsInserted
<1>15. Placed(N + 1, A, V, G)
  BY <1>14, <1>9, <1>10, <1>11, <1>12, <1>13 DEF Placed
<1>16. (N + 1) + 1 = N + 2
  BY <1>1
<1>. QED  BY <1>4, <1>15, <1>16

(* What is left in order stays in order.                                   *)
LEMMA DeletedPlaces ==
  ASSUME NEW N, NEW a, NEW v, NEW g, Placed(N, a, v, g), NEW k \in 1..N
  PROVE  Placed(N - 1, Deleted(a, N, k), Deleted(v, N - 1, k), Deleted(g, N - 1, k))
<1>1. N \in Nat /\ N - 1 \in Nat /\ v \in [0..N -> Int] /\ g \in [0..N -> Nat] /\ (N - 1) + 1 = N
      /\ v[0] = 0 /\ g[0] = MaxLevel /\ a[0] = HeadNode /\ a[N + 1] = Null
  BY DEF Placed, Heighted
<1>2. \A p \in 1..N : a[p] \in Members /\ g[p] >= 1
  BY DEF Placed
<1>3. PICK A, V, G : A = Deleted(a, N, k) /\ V = Deleted(v, N - 1, k) /\ G = Deleted(g, N - 1, k)
  OBVIOUS
<1>4. IsDeleted(A, a, N, k)
  <2>1. k \in 0..(N + 1)
    BY <1>1
  <2>. QED  BY <1>1, <1>3, <2>1, DeletedAt
<1>5. IsDeleted(V, v, N - 1, k)
  <2>1. k \in 0..((N - 1) + 1)
    BY <1>1
  <2>. QED  BY <1>1, <1>3, <2>1, DeletedAt
<1>6. IsDeleted(G, g, N - 1, k)
  <2>1. k \in 0..((N - 1) + 1)
    BY <1>1
  <2>. QED  BY <1>1, <1>3, <2>1, DeletedAt
<1>7. ASSUME NEW p \in 1..(N - 1)
      PROVE  \E r \in 1..N : /\ A[p] = a[r] /\ V[p] = v[r] /\ G[p] = g[r]
                             /\ r = IF p < k THEN p ELSE p + 1
  <2>1. CASE p < k
    <3>1. p \in 0..(k - 1) /\ p \in 1..N
      BY <1>1, <2>1
    <3>. QED  BY <1>4, <1>5, <1>6, <2>1, <3>1 DEF IsDeleted
  <2>2. CASE ~(p < k)
    <3>1. p \in k..(N - 1) /\ p \in k..N /\ p + 1 \in 1..N
      BY <1>1, <2>2
    <3>. QED  BY <1>4, <1>5, <1>6, <2>2, <3>1 DEF IsDeleted
  <2>. QED  BY <2>1, <2>2
<1>8. A[0] = HeadNode /\ V[0] = 0 /\ G[0] = MaxLevel /\ A[(N - 1) + 1] = Null
  <2>1. 0 \in 0..(k - 1) /\ N \in k..N
    BY <1>1
  <2>2. N \in k..N /\ (N - 1) + 1 = N
    BY <1>1
  <2>3. A[0] = a[0] /\ V[0] = v[0] /\ G[0] = g[0]
    BY <1>4, <1>5, <1>6, <2>1 DEF IsDeleted
  <2>4. A[N] = a[N + 1]
    BY <1>4, <2>2 DEF IsDeleted
  <2>. QED  BY <1>1, <2>2, <2>3, <2>4
<1>9. \A p \in 1..(N - 1) : A[p] \in Members /\ G[p] >= 1 /\ G[p] \in Nat /\ V[p] \in Int
  <2>1. \A r \in 1..N : g[r] \in Nat /\ v[r] \in Int
    BY <1>1
  <2>. QED  BY <1>2, <1>7, <2>1
<1>10. G \in [0..(N - 1) -> Nat] /\ V \in [0..(N - 1) -> Int]
  <2>1. \A p \in 0..(N - 1) : p = 0 \/ p \in 1..(N - 1)
    BY <1>1
  <2>2. MaxLevel \in Nat
    BY LevelAssumption
  <2>3. \A p \in 0..(N - 1) : G[p] \in Nat /\ V[p] \in Int
    BY <1>8, <1>9, <2>1, <2>2
  <2>. QED  BY <1>5, <1>6, <2>3 DEF IsDeleted
<1>11. ASSUME NEW p \in 1..(N - 1), NEW q \in 1..(N - 1), p < q
       PROVE  A[p] # A[q] /\ Precedes(A, V, p, q)
  <2>1. \A x, y \in 1..N : x < y => a[x] # a[y] /\ (v[x] < v[y] \/ (v[x] = v[y] /\ a[x] < a[y]))
    BY DEF Placed, Precedes
  <2>2. PICK x \in 1..N : A[p] = a[x] /\ V[p] = v[x] /\ x = IF p < k THEN p ELSE p + 1
    BY <1>7
  <2>3. PICK y \in 1..N : A[q] = a[y] /\ V[q] = v[y] /\ y = IF q < k THEN q ELSE q + 1
    BY <1>7
  <2>4. x < y
    <3>1. p \in Int /\ q \in Int /\ k \in Int /\ p < q
      BY <1>1, <1>11
    <3>2. (p < k /\ q < k) \/ (p < k /\ ~(q < k)) \/ (~(p < k) /\ ~(q < k))
      BY <3>1
    <3>3. (p < k => x = p) /\ (~(p < k) => x = p + 1) /\ (q < k => y = q) /\ (~(q < k) => y = q + 1)
      BY <2>2, <2>3
    <3>. QED  BY <3>1, <3>2, <3>3
  <2>. QED  BY <2>1, <2>2, <2>3, <2>4 DEF Precedes
<1>12. Heighted(G, N - 1)
  BY <1>1, <1>10 DEF Heighted
<1>13. A = [p \in 0..((N - 1) + 1) |-> A[p]]
  BY <1>1, <1>4 DEF IsDeleted
<1>14. Placed(N - 1, A, V, G)
  BY <1>8, <1>9, <1>10, <1>11, <1>12, <1>13 DEF Placed
<1>. QED  BY <1>3, <1>14

(***************************************************************************)
(* What _insert does to the links.                                         *)
(***************************************************************************)

(* What path, rank and update are on level i when a member goes in behind  *)
(* place k: the last node up to k, the way from it to k, and its old link. *)
TurnsAt(N, a, g, k, i, at, past, old) ==
  \E p, q : /\ LastUp(g, k, i, p) /\ at = a[p] /\ past = k - p
            /\ NextUp(g, N, p, i, q) /\ q > k
            /\ old = [to |-> a[q], span |-> Span(N, p, q)]

(* The place of p after the insertion, the level, and the links of a node. *)
Behind(k, p) == IF p <= k THEN p ELSE p + 1
Higher(h, level) == IF h > level THEN h ELSE level
(* What _insert makes of the link of level i at x.                         *)
Relinked(z, m, h, top, x, i, at, past, old) ==
  CASE i > top \/ x # at -> Link(z, x, i)
    [] x = at /\ i <= h -> [to |-> m, span |-> past + 1]
    [] x = at /\ h < i /\ i <= top -> [old EXCEPT !.span = @ + 1]

(* The links of place p after the insertion.                               *)
LEMMA LinkInserted ==
  ASSUME NEW z, NEW N, NEW a, NEW v, NEW g, Linked(z, N, a, v, g),
         NEW m \in Members, NEW h \in 1..MaxLevel, NEW k \in 0..N,
         NEW A, IsInserted(A, a, N + 1, k, m), NEW G, G = Inserted(g, N + 1, k, h),
         NEW top, top = Higher(h, z.level),
         NEW y, y.level = top,
         NEW p \in 0..N, NEW i \in 1..g[p],
         NEW r, r = Behind(k, p),
         NEW at, NEW past, NEW old, i <= top => TurnsAt(N, a, g, k, i, at, past, old),
         Link(y, A[r], i) = Relinked(z, m, h, top, a[p], i, at, past, old)
  PROVE  LinkIs(y, N + 1, A, G, r, i)
<1>0. /\ top = IF h > z.level THEN h ELSE z.level
      /\ r = IF p <= k THEN p ELSE p + 1
      /\ Link(y, A[r], i) =
           CASE i > top \/ a[p] # at -> Link(z, a[p], i)
             [] a[p] = at /\ i <= h -> [to |-> m, span |-> past + 1]
             [] a[p] = at /\ h < i /\ i <= top -> [old EXCEPT !.span = @ + 1]
  BY DEF Higher, Behind, Relinked
<1>1. /\ N \in Nat /\ g \in [0..N -> Nat] /\ Heighted(g, N) /\ g[0] = MaxLevel /\ MaxLevel \in Nat
      /\ z.level \in 1..MaxLevel /\ \A x \in 1..N : g[x] \in 1..z.level
  BY LinkedTypes
<1>2. LinkIs(z, N, a, g, p, i)
  BY NodeAtPlace
<1>3. PICK q, s : /\ Link(z, a[p], i) = [to |-> a[q], span |-> s] /\ s \in Nat
                  /\ NextUp(g, N, p, i, q) /\ (i <= z.level => s = Span(N, p, q))
  BY <1>2 DEF LinkIs
<1>4. q \in (p + 1)..(N + 1) /\ (q <= N => g[q] >= i)
  BY <1>3 DEF NextUp
<1>5. i \in Nat /\ h \in Nat /\ k \in 0..N /\ top \in Nat /\ z.level <= top /\ z.level \in Nat
      /\ (h < i /\ i <= top => i <= z.level) /\ h <= top /\ g[p] \in Nat /\ i <= g[p]
  BY <1>0, <1>1
<1>6. /\ Heighted(G, N + 1)
      /\ q <= k => NextUp(G, N + 1, p, i, q)
      /\ p <= k /\ q > k /\ h >= i => NextUp(G, N + 1, p, i, k + 1)
      /\ p <= k /\ q > k /\ h < i => NextUp(G, N + 1, p, i, q + 1)
      /\ p > k => NextUp(G, N + 1, p + 1, i, q + 1)
  BY <1>1, <1>3, <1>5, NextUpInserted
<1>7. (q <= k => A[q] = a[q]) /\ (q > k => A[q + 1] = a[q]) /\ A[k + 1] = m
  <2>1. (q <= k => q \in 0..k) /\ (q > k => q \in (k + 1)..(N + 1))
    BY <1>1, <1>4
  <2>. QED  BY <2>1 DEF IsInserted
<1>8. CASE p > k
  <2>1. i <= z.level /\ i <= top
    <3>1. p \in 1..N
      BY <1>1, <1>8
    <3>. QED  BY <1>1, <1>5, <3>1
  <2>2. a[p] # at
    <3>1. PICK x : LastUp(g, k, i, x) /\ at = a[x]
      BY <2>1 DEF TurnsAt
    <3>2. x \in 0..k /\ x \in 0..(N + 1) /\ p \in 0..(N + 1) /\ x # p
      BY <1>1, <1>8, <3>1 DEF LastUp
    <3>. QED  BY <3>1, <3>2, PlacesDiffer, LinkedTypes
  <2>3. Link(y, A[r], i) = [to |-> A[q + 1], span |-> s]
    BY <1>0, <1>3, <1>4, <1>7, <1>8, <2>2
  <2>4. s = Span(N + 1, p + 1, q + 1)
    BY <1>1, <1>3, <1>4, <2>1 DEF Span
  <2>5. r = p + 1 /\ NextUp(G, N + 1, r, i, q + 1)
    BY <1>0, <1>1, <1>6, <1>8
  <2>. QED  BY <1>3, <2>3, <2>4, <2>5 DEF LinkIs
<1>9. CASE p <= k /\ i > top
  <2>1. q = N + 1
    <3>1. ~(q <= N)
      <4>. SUFFICES ASSUME q <= N PROVE FALSE
        OBVIOUS
      <4>1. q \in 1..N /\ g[q] >= i
        BY <1>1, <1>4
      <4>2. g[q] \in Nat /\ g[q] <= z.level
        BY <1>1, <4>1
      <4>. QED  BY <1>5, <1>9, <4>1, <4>2
    <3>. QED  BY <1>1, <1>4, <3>1
  <2>2. Link(y, A[r], i) = [to |-> A[q + 1], span |-> s]
    BY <1>0, <1>1, <1>3, <1>5, <1>7, <1>9, <2>1
  <2>3. r = p /\ NextUp(G, N + 1, r, i, q + 1) /\ ~(i <= y.level)
    BY <1>0, <1>1, <1>5, <1>6, <1>9, <2>1
  <2>. QED  BY <1>3, <2>2, <2>3 DEF LinkIs
<1>10. CASE p <= k /\ i <= top
  <2>1. PICK x, t : /\ LastUp(g, k, i, x) /\ at = a[x] /\ past = k - x
                    /\ NextUp(g, N, x, i, t) /\ t > k
                    /\ old = [to |-> a[t], span |-> Span(N, x, t)]
    BY <1>10 DEF TurnsAt
  <2>2. x \in 0..k /\ r = p
    BY <1>0, <1>1, <1>10, <2>1 DEF LastUp
  <2>3. q > k <=> LastUp(g, k, i, p)
    <3>1. p \in 0..k /\ g[p] >= i
      BY <1>1, <1>5, <1>10
    <3>. QED  BY <1>1, <1>3, <1>5, <3>1, LastAndNext
  <2>4. a[p] = at <=> p = x
    <3>1. x \in 0..(N + 1) /\ p \in 0..(N + 1)
      BY <1>1, <2>2
    <3>. QED  BY <2>1, <3>1, PlacesDiffer, LinkedTypes
  <2>5. CASE p # x
    <3>1. ~(q > k)
      BY <1>1, <1>5, <2>1, <2>3, <2>5, OneUp
    <3>2. q <= k /\ q \in 1..N
      BY <1>1, <1>4, <3>1
    <3>3. Link(y, A[r], i) = [to |-> A[q], span |-> s]
      BY <1>0, <1>3, <1>7, <2>4, <2>5, <3>2
    <3>4. i <= z.level
      BY <1>1, <1>4, <1>5, <3>2, SMTT(20)
    <3>5. s = Span(N + 1, p, q)
      BY <1>1, <1>3, <1>4, <3>2, <3>4 DEF Span
    <3>. QED  BY <1>3, <1>6, <2>2, <3>2, <3>3, <3>5 DEF LinkIs
  <2>6. CASE p = x
    <3>1. q > k /\ t = q
      BY <1>1, <1>3, <1>5, <2>1, <2>3, <2>6, OneUp
    <3>2. CASE i <= h
      <4>1. Link(y, A[r], i) = [to |-> A[k + 1], span |-> (k - p) + 1]
        BY <1>0, <1>5, <1>7, <1>10, <2>1, <2>4, <2>6, <3>2
      <4>2. (k - p) + 1 \in Nat /\ (k - p) + 1 = Span(N + 1, p, k + 1)
        BY <1>1, <1>10 DEF Span
      <4>3. NextUp(G, N + 1, r, i, k + 1)
        BY <1>5, <1>6, <1>10, <2>2, <3>1, <3>2
      <4>. QED  BY <2>2, <4>1, <4>2, <4>3 DEF LinkIs
    <3>3. CASE ~(i <= h)
      <4>1. Link(y, A[r], i) = [to |-> A[q + 1], span |-> Span(N, p, q) + 1]
        <5>1. a[p] = at /\ h < i /\ i <= top /\ ~(i > top)
          BY <1>5, <1>10, <2>4, <2>6, <3>3
        <5>2. Link(y, A[r], i) = [old EXCEPT !.span = @ + 1]
          BY <1>0, <3>3, <5>1
        <5>3. old = [to |-> A[q + 1], span |-> Span(N, p, q)]
          BY <1>7, <2>1, <2>6, <3>1
        <5>. QED  BY <5>2, <5>3
      <4>2. Span(N, p, q) + 1 \in Nat /\ Span(N, p, q) + 1 = Span(N + 1, p, q + 1)
        BY <1>1, <1>4 DEF Span
      <4>3. NextUp(G, N + 1, r, i, q + 1)
        BY <1>5, <1>6, <1>10, <2>2, <3>1, <3>3
      <4>. QED  BY <2>2, <4>1, <4>2, <4>3 DEF LinkIs
    <3>. QED  BY <3>2, <3>3
  <2>. QED  BY <2>5, <2>6
<1>. QED  BY <1>1, <1>5, <1>8, <1>9, <1>10

(* The links of the new node.                                              *)
LEMMA LinkOfInserted ==
  ASSUME NEW z, NEW N, NEW a, NEW v, NEW g, Linked(z, N, a, v, g),
         NEW m \in Members, NEW h \in 1..MaxLevel, NEW k \in 0..N,
         NEW A, IsInserted(A, a, N + 1, k, m), NEW G, G = Inserted(g, N + 1, k, h),
         NEW y, NEW i \in 1..h,
         NEW at, NEW past, NEW old, TurnsAt(N, a, g, k, i, at, past, old),
         Link(y, m, i) = [old EXCEPT !.span = @ - past]
  PROVE  LinkIs(y, N + 1, A, G, k + 1, i)
<1>1. N \in Nat /\ g \in [0..N -> Nat] /\ Heighted(g, N) /\ MaxLevel \in Nat /\ i \in Nat /\ h \in Nat
  BY LinkedTypes
<1>2. PICK x, t : /\ LastUp(g, k, i, x) /\ at = a[x] /\ past = k - x
                  /\ NextUp(g, N, x, i, t) /\ t > k
                  /\ old = [to |-> a[t], span |-> Span(N, x, t)]
  BY DEF TurnsAt
<1>3. x \in 0..k /\ x \in 0..N /\ t \in (k + 1)..(N + 1)
  BY <1>1, <1>2 DEF LastUp, NextUp
<1>4. NextUp(G, N + 1, k + 1, i, t + 1)
  BY <1>1, <1>2, <1>3, NextUpInserted
<1>5. A[t + 1] = a[t] /\ A[k + 1] = m
  BY <1>3 DEF IsInserted
<1>6. Link(y, A[k + 1], i) = [to |-> A[t + 1], span |-> Span(N, x, t) - (k - x)]
  BY <1>2, <1>5
<1>7. Span(N, x, t) - (k - x) \in Nat /\ Span(N, x, t) - (k - x) = Span(N + 1, k + 1, t + 1)
  BY <1>1, <1>3, SMTT(60) DEF Span
<1>. QED  BY <1>4, <1>6, <1>7 DEF LinkIs

(***************************************************************************)
(* _insert: a list that has one more node.                                 *)
(***************************************************************************)

(* The scores, as the nodes have them.                                     *)
Scored(z) == [n \in Nodes(z) |-> z.node[n].value]

(* A list of n nodes, whose length is set to that.                         *)
Listed(z, n) == z.length = n /\ \E a, v, g : Linked(z, n, a, v, g)

(* y has n nodes: those of z, and m with the score s.                      *)
Gained(y, z, n, m, s) == Listed(y, n) /\ y.map = z.map /\ Scored(y) = Mapped(Scored(z), m, s)

(* _insert links m in where its score puts it: place by place, the fields  *)
(* of every node and every link of the new list are what Linked asks for.  *)
LEMMA InsertIs ==
  ASSUME NEW z, NEW N, NEW a, NEW v, NEW g, Linked(z, N, a, v, g), z.length = N,
         NEW m \in Members, m \notin Nodes(z), NEW s \in Int, NEW h \in 1..MaxLevel,
         NEW y, y = Insert(z, m, s, h)
  PROVE  Gained(y, z, N + 1, m, s)
<1>1. /\ N \in Nat /\ g \in [0..N -> Nat] /\ Heighted(g, N) /\ g[0] = MaxLevel /\ MaxLevel \in Nat
      /\ z.level \in 1..MaxLevel /\ a[0] = HeadNode /\ a[N + 1] = Null /\ Placed(N, a, v, g)
      /\ \A x \in 1..N : g[x] \in 1..z.level
  BY LinkedTypes
<1>2. /\ DOMAIN z.node = {a[p] : p \in 0..N} /\ Nodes(z) = {a[p] : p \in 1..N}
      /\ HeadNode \in DOMAIN z.node
  BY LinkedNodes
<1>3. m \in Nat /\ m # HeadNode /\ m # Null /\ m \notin DOMAIN z.node
  BY MembersAssumption, HeadAssumption DEF Nodes
<1>4. PICK k : /\ UpTo(z, N, a, k, Before(z, s, m))
               /\ \A p \in 1..N : v[p] < s \/ (v[p] = s /\ a[p] < m) <=> p <= k
  BY <1>3, BeforeCut
<1>5. k \in 0..N /\ k \in Nat
  BY <1>1, <1>4 DEF UpTo
<1>. DEFINE path == Path(z, Stops(Before(z, s, m)))
            top == IF h > z.level THEN h ELSE z.level
            at(i) == IF i > z.level THEN HeadNode ELSE path[i].at
            past(i) == path[1].gone - (IF i > z.level THEN 0 ELSE path[i].gone)
            old(i) ==
              IF i > z.level THEN [Link(z, HeadNode, i) EXCEPT !.span = z.length] ELSE Link(z, at(i), i)
            relinked(x, i) ==
              CASE i > top \/ x # at(i) -> Link(z, x, i)
                [] x = at(i) /\ i <= h -> [to |-> m, span |-> past(i) + 1]
                [] x = at(i) /\ h < i /\ i <= top -> [old(i) EXCEPT !.span = @ + 1]
            new == [value |-> s, prev |-> IF at(1) = HeadNode THEN Null ELSE at(1),
                    next |-> [i \in 1..h |-> [old(i) EXCEPT !.span = @ - past(i)]]]
            nodes == [x \in DOMAIN z.node \cup {m} |->
                        IF x = m THEN new
                        ELSE [z.node[x] EXCEPT !.next = [i \in DOMAIN @ |-> relinked(x, i)],
                                               !.prev = IF x = old(1).to THEN m ELSE @]]
<1>6. y = [z EXCEPT !.node = nodes, !.tail = IF old(1).to = Null THEN m ELSE @,
                    !.level = top, !.length = @ + 1]
  BY Zenon DEF Insert
<1>. HIDE DEF nodes
<1>7. y = [node |-> nodes, tail |-> IF old(1).to = Null THEN m ELSE z.tail, level |-> top,
           length |-> z.length + 1, map |-> z.map]
  <2>1. PICK tl : tl = IF old(1).to = Null THEN m ELSE z.tail
    OBVIOUS
  <2>2. y = [z EXCEPT !.node = nodes, !.tail = tl, !.level = top, !.length = z.length + 1]
    <3>. HIDE DEF old, top
    <3>. QED  BY <1>6, <2>1
  <2>3. z = [node |-> z.node, tail |-> z.tail, level |-> z.level, length |-> z.length, map |-> z.map]
    BY DEF Linked, Fields
  <2>. HIDE DEF old, top
  <2>4. y = [node |-> nodes, tail |-> tl, level |-> top, length |-> z.length + 1, map |-> z.map]
    BY <2>2, <2>3
  <2>. QED  BY <2>1, <2>4
<1>8. /\ \A i \in 1..z.level : \E p \in 0..k : LastUp(g, k, i, p) /\ path[i] = Stop(a, 0, p)
      /\ path[1].at = a[k] /\ path[1].gone = k /\ Link(z, path[1].at, 1).to = a[k + 1]
  <2>1. CutAt(z, N, a, 0, IF 0 <= k THEN k ELSE 0, Stops(Before(z, s, m)))
    <3>1. 0 \in 0..N
      BY <1>1
    <3>. QED  BY <1>4, <3>1, CutOfNodes
  <2>2. CutAt(z, N, a, 0, k, Stops(Before(z, s, m)))
    BY <1>5, <2>1
  <2>3. PICK Ahead : Ahead = Stops(Before(z, s, m))
    OBVIOUS
  <2>4. /\ \A i \in 1..z.level : \E p \in 0..k : LastUp(g, k, i, p) /\ Path(z, Ahead)[i] = Stop(a, 0, p)
        /\ Path(z, Ahead)[1].at = a[k] /\ Path(z, Ahead)[1].gone = k
        /\ Link(z, Path(z, Ahead)[1].at, 1).to = a[k + 1]
    BY <2>2, <2>3, PathIs
  <2>. QED  BY <2>3, <2>4
<1>. HIDE DEF path
<1>9. top \in 1..MaxLevel /\ z.level <= top /\ h <= top /\ 1 <= z.level /\ z.level \in Nat
  BY <1>1
<1>10. ASSUME NEW i \in 1..MaxLevel, i <= top
       PROVE  TurnsAt(N, a, g, k, i, at(i), past(i), old(i))
  <2>1. i \in Nat
    BY <1>1
  <2>2. CASE i <= z.level
    <3>1. i \in 1..z.level /\ ~(i > z.level)
      BY <1>1, <2>2
    <3>2. PICK p \in 0..k : LastUp(g, k, i, p) /\ path[i] = Stop(a, 0, p)
      BY <1>8, <3>1
    <3>3. path[i].at = a[p] /\ path[i].gone = p
      BY <1>5, <3>2 DEF Stop
    <3>4. at(i) = a[p] /\ past(i) = k - p /\ old(i) = Link(z, a[p], i)
      BY <1>8, <3>1, <3>3
    <3>5. p \in 0..N /\ g[p] >= i /\ i \in 1..g[p]
      BY <1>1, <1>5, <3>1, <3>2 DEF LastUp
    <3>6. PICK q, t : /\ Link(z, a[p], i) = [to |-> a[q], span |-> t] /\ NextUp(g, N, p, i, q)
                      /\ (i <= z.level => t = Span(N, p, q))
      <4>1. LinkIs(z, N, a, g, p, i)
        BY <3>5, NodeAtPlace
      <4>. QED  BY <4>1 DEF LinkIs
    <3>7. q > k
      BY <1>1, <1>5, <2>1, <3>2, <3>5, <3>6, LastAndNext
    <3>. QED  BY <2>2, <3>2, <3>4, <3>6, <3>7 DEF TurnsAt
  <2>3. CASE ~(i <= z.level)
    <3>1. i > z.level
      BY <1>1, <2>3
    <3>2. at(i) = a[0] /\ past(i) = k - 0
      BY <1>1, <1>8, <3>1
    <3>3. 0 \in 0..N /\ g[0] >= i /\ i \in 1..g[0]
      BY <1>1
    <3>4. PICK q, t : Link(z, a[0], i) = [to |-> a[q], span |-> t] /\ NextUp(g, N, 0, i, q)
      <4>1. LinkIs(z, N, a, g, 0, i)
        BY <3>3, NodeAtPlace
      <4>. QED  BY <4>1 DEF LinkIs
    <3>5. q = N + 1
      <4>1. q \in 1..(N + 1) /\ (q <= N => g[q] >= i)
        BY <3>4 DEF NextUp
      <4>2. q <= N => q \in 1..N /\ g[q] <= z.level
        BY <1>1, <4>1
      <4>3. q <= N => g[q] \in Nat
        BY <1>1, <4>1
      <4>. QED  BY <1>1, <3>1, <4>1, <4>2, <4>3
    <3>6. LastUp(g, k, i, 0)
      <4>1. \A r \in 1..k : g[r] \in Nat /\ g[r] <= z.level
        BY <1>1, <1>5
      <4>. QED  BY <1>1, <1>5, <3>1, <3>3, <4>1 DEF LastUp
    <3>7. old(i) = [to |-> a[q], span |-> Span(N, 0, q)]
      <4>1. old(i) = [Link(z, HeadNode, i) EXCEPT !.span = z.length]
        BY <3>1
      <4>2. Span(N, 0, q) = N
        BY <1>1, <3>5 DEF Span
      <4>. QED  BY <1>1, <3>4, <4>1, <4>2
    <3>8. q > k
      BY <1>1, <1>5, <3>5
    <3>. QED  BY <3>2, <3>4, <3>6, <3>7, <3>8 DEF TurnsAt
  <2>. QED  BY <2>2, <2>3
<1>11. at(1) = a[k] /\ old(1).to = a[k + 1]
  <2>1. ~(1 > z.level)
    BY <1>9
  <2>. QED  BY <1>8, <2>1
<1>. HIDE DEF top, at, past, old
<1>12. PICK A, V, G : /\ A = Inserted(a, (N + 1) + 1, k, m) /\ V = Inserted(v, N + 1, k, s)
                      /\ G = Inserted(g, N + 1, k, h)
  OBVIOUS
<1>13. IsInserted(A, a, N + 1, k, m) /\ IsInserted(V, v, N, k, s) /\ IsInserted(G, g, N, k, h)
  <2>1. k \in 0..(N + 1) /\ N + 1 \in Nat
    BY <1>1, <1>5
  <2>. QED  BY <1>1, <1>5, <1>12, <2>1, InsertedAt
<1>14. Placed(N + 1, A, V, G)
  <2>1. \A p \in 1..N : a[p] # m
    BY <1>2
  <2>2. (N + 1) + 1 = N + 2
    BY <1>1
  <2>. QED  BY <1>1, <1>4, <1>5, <1>12, <2>1, <2>2, InsertedPlaces
<1>15. A[k + 1] = m /\ V[k + 1] = s /\ G[k + 1] = h
  BY <1>13 DEF IsInserted
<1>16. ASSUME NEW p \in 0..N, NEW r, r = Behind(k, p)
       PROVE  A[r] = a[p] /\ V[r] = v[p] /\ G[r] = g[p] /\ r \in 0..(N + 1)
  <2>1. CASE p <= k
    <3>1. p \in 0..k /\ r = p /\ p \in 0..(N + 1)
      BY <1>1, <1>5, <1>16, <2>1 DEF Behind
    <3>2. A[p] = a[p]
      BY <1>13, <3>1 DEF IsInserted
    <3>3. V[p] = v[p] /\ G[p] = g[p]
      BY <1>13, <3>1 DEF IsInserted
    <3>. QED  BY <3>1, <3>2, <3>3
  <2>2. CASE ~(p <= k)
    <3>1. p \in (k + 1)..N /\ p \in (k + 1)..(N + 1) /\ p + 1 \in 0..(N + 1) /\ r = p + 1
      BY <1>1, <1>5, <1>16, <2>2 DEF Behind
    <3>2. A[p + 1] = a[p]
      BY <1>13, <3>1 DEF IsInserted
    <3>3. V[p + 1] = v[p] /\ G[p + 1] = g[p]
      BY <1>13, <3>1 DEF IsInserted
    <3>. QED  BY <3>1, <3>2, <3>3
  <2>. QED  BY <2>1, <2>2
<1>17. ASSUME NEW r \in 0..(N + 1), r # k + 1
       PROVE  \E p \in 0..N : r = Behind(k, p)
  <2>1. CASE r <= k
    <3>1. r \in 0..N
      BY <1>1, <1>5, <2>1
    <3>. QED  BY <2>1, <3>1 DEF Behind
  <2>2. CASE ~(r <= k)
    <3>1. PICK p : p = r - 1
      OBVIOUS
    <3>2. p \in 0..N /\ ~(p <= k) /\ r = p + 1
      BY <1>1, <1>5, <1>17, <2>2, <3>1
    <3>. QED  BY <3>2 DEF Behind
  <2>. QED  BY <2>1, <2>2
<1>18. y.node = nodes /\ y.level = top /\ y.length = N + 1 /\ y.map = z.map
       /\ y.tail = IF old(1).to = Null THEN m ELSE z.tail
  BY <1>7
<1>19. DOMAIN nodes = DOMAIN z.node \cup {m} /\ nodes[m] = new
  <2>. HIDE DEF new, relinked
  <2>. QED  BY <1>3 DEF nodes
<1>191. \A x \in DOMAIN z.node : nodes[x] = [z.node[x] EXCEPT !.next = [i \in DOMAIN @ |-> relinked(x, i)],
                                                               !.prev = IF x = old(1).to THEN m ELSE @]
  <2>. HIDE DEF new, relinked
  <2>. QED  BY <1>3 DEF nodes
<1>192. nodes[m].value = s /\ nodes[m].prev = (IF at(1) = HeadNode THEN Null ELSE at(1))
        /\ nodes[m].next = [i \in 1..h |-> [old(i) EXCEPT !.span = @ - past(i)]]
        /\ nodes[m] = [value |-> s, prev |-> IF at(1) = HeadNode THEN Null ELSE at(1), next |-> nodes[m].next]
  <2>1. PICK nx, pr : nx = [i \in 1..h |-> [old(i) EXCEPT !.span = @ - past(i)]]
                      /\ pr = IF at(1) = HeadNode THEN Null ELSE at(1)
    OBVIOUS
  <2>2. new = [value |-> s, prev |-> pr, next |-> nx]
    BY <2>1
  <2>3. nodes[m] = [value |-> s, prev |-> pr, next |-> nx]
    <3>. HIDE DEF new, relinked
    <3>. QED  BY <1>19, <2>2
  <2>. HIDE DEF new, relinked
  <2>. QED  BY <2>1, <2>3
<1>. HIDE DEF new
<1>20. ASSUME NEW p \in 0..N
       PROVE  nodes[a[p]].value = v[p] /\ nodes[a[p]].next = [i \in 1..g[p] |-> relinked(a[p], i)] /\
              nodes[a[p]] = [value |-> v[p], prev |-> IF a[p] = a[k + 1] THEN m ELSE IF p <= 1 THEN Null ELSE a[p - 1],
                             next |-> [i \in 1..g[p] |-> relinked(a[p], i)]]
  <2>1. NodeIs(z, N, a, v, g, p) /\ a[p] \in DOMAIN z.node
    BY <1>2 DEF Linked
  <2>2. PICK nd, pr, nx : nd = z.node[a[p]] /\ pr = (IF p <= 1 THEN Null ELSE a[p - 1]) /\ nx = nd.next
    OBVIOUS
  <2>3. nd = [value |-> v[p], prev |-> pr, next |-> nx] /\ DOMAIN nx = 1..g[p]
    BY <2>1, <2>2 DEF NodeIs
  <2>. HIDE DEF relinked
  <2>4. PICK links : links = [i \in 1..g[p] |-> relinked(a[p], i)]
    OBVIOUS
  <2>5. PICK x : x = a[p]
    OBVIOUS
  <2>6. nodes[x] = [nd EXCEPT !.next = [i \in DOMAIN @ |-> relinked(x, i)],
                              !.prev = IF x = old(1).to THEN m ELSE @]
    BY <1>191, <2>1, <2>2, <2>5, ZenonT(40)
  <2>7. [i \in DOMAIN nx |-> relinked(x, i)] = links
    BY <2>3, <2>4, <2>5
  <2>8. nodes[x] = [value |-> v[p], prev |-> IF x = old(1).to THEN m ELSE pr,
                    next |-> [i \in DOMAIN nx |-> relinked(x, i)]]
    BY <2>3, <2>6
  <2>9. PICK pr1 : pr1 = IF x = old(1).to THEN m ELSE pr
    OBVIOUS
  <2>10. nodes[x] = [value |-> v[p], prev |-> pr1, next |-> links]
    BY <2>7, <2>8, <2>9
  <2>11. nodes[x].value = v[p] /\ nodes[x].next = links
    BY <2>10
  <2>12. pr1 = IF a[p] = a[k + 1] THEN m ELSE IF p <= 1 THEN Null ELSE a[p - 1]
    BY <1>11, <2>2, <2>5, <2>9
  <2>. QED  BY <2>4, <2>5, <2>10, <2>11, <2>12
<1>21. ASSUME NEW p \in 0..N, NEW r, r = Behind(k, p)
       PROVE  NodeIs(y, N + 1, A, V, G, r)
  <2>1. A[r] = a[p] /\ V[r] = v[p] /\ G[r] = g[p] /\ r \in 0..(N + 1)
    BY <1>16, <1>21
  <2>2. ASSUME NEW i \in 1..g[p]
        PROVE  Link(y, A[r], i) = relinked(a[p], i) /\ LinkIs(y, N + 1, A, G, r, i)
    <3>1. Link(y, A[r], i) = relinked(a[p], i)
      <4>. HIDE DEF relinked
      <4>1. nodes[a[p]].next = [j \in 1..g[p] |-> relinked(a[p], j)]
        BY <1>20
      <4>2. nodes[a[p]].next[i] = relinked(a[p], i)
        BY <4>1
      <4>. QED  BY <1>18, <2>1, <4>2 DEF Link
    <3>2. i \in 1..MaxLevel
      <4>1. g[p] \in Nat /\ g[p] <= MaxLevel
        <5>1. p = 0 \/ p \in 1..N
          BY <1>1
        <5>2. p \in 1..N => g[p] <= z.level /\ z.level <= MaxLevel /\ g[p] \in Nat /\ z.level \in Nat
          BY <1>1
        <5>. QED  BY <1>1, <5>1, <5>2
      <4>. QED  BY <1>1, <4>1
    <3>3. PICK at1, past1, old1 : at1 = at(i) /\ past1 = past(i) /\ old1 = old(i)
      OBVIOUS
    <3>4. i <= top => TurnsAt(N, a, g, k, i, at1, past1, old1)
      BY <1>10, <3>2, <3>3
    <3>5. PICK top1 : top1 = top
      OBVIOUS
    <3>6. Link(y, A[r], i) = Relinked(z, m, h, top1, a[p], i, at1, past1, old1)
      BY <3>1, <3>3, <3>5 DEF Relinked
    <3>7. top1 = Higher(h, z.level) /\ y.level = top1
      BY <1>18, <3>5 DEF top, Higher
    <3>8. LinkIs(y, N + 1, A, G, r, i)
      <4>1. i <= top1 => TurnsAt(N, a, g, k, i, at1, past1, old1)
        BY <3>4, <3>5
      <4>. QED  BY <1>5, <1>12, <1>13, <1>21, <3>6, <3>7, <4>1, LinkInserted
    <3>. QED  BY <3>1, <3>8
  <2>3. (IF a[p] = a[k + 1] THEN m ELSE IF p <= 1 THEN Null ELSE a[p - 1])
          = IF r <= 1 THEN Null ELSE A[r - 1]
    <3>1. a[p] = a[k + 1] <=> p = k + 1
      <4>1. p \in 0..(N + 1) /\ k + 1 \in 0..(N + 1)
        BY <1>1, <1>5
      <4>. QED  BY <1>1, <4>1, PlacesDiffer
    <3>2. CASE p <= k
      <4>1. r = p /\ p # k + 1
        BY <1>5, <1>21, <3>2 DEF Behind
      <4>2. p > 1 => A[p - 1] = a[p - 1]
        <5>1. p > 1 => p - 1 \in 0..k
          BY <1>5, <3>2
        <5>. QED  BY <1>13, <5>1 DEF IsInserted
      <4>. QED  BY <1>1, <3>1, <4>1, <4>2
    <3>3. CASE p = k + 1
      <4>1. r = (k + 1) + 1 /\ r - 1 = k + 1 /\ ~(r <= 1)
        BY <1>5, <1>21, <3>3 DEF Behind
      <4>. QED  BY <1>15, <3>1, <3>3, <4>1
    <3>4. CASE p > k + 1
      <4>1. r = p + 1 /\ r - 1 = p /\ ~(r <= 1) /\ ~(p <= 1) /\ p # k + 1
        BY <1>5, <1>21, <3>4 DEF Behind
      <4>2. p - 1 \in (k + 1)..(N + 1) /\ (p - 1) + 1 = p
        BY <1>1, <1>5, <3>4
      <4>3. A[p] = a[p - 1]
        BY <1>13, <4>2 DEF IsInserted
      <4>. QED  BY <3>1, <4>1, <4>3
    <3>. QED  BY <1>1, <1>5, <3>2, <3>3, <3>4
  <2>4. y.node[A[r]] = [value |-> V[r], prev |-> IF r <= 1 THEN Null ELSE A[r - 1],
                        next |-> [i \in 1..g[p] |-> relinked(a[p], i)]]
    <3>. HIDE DEF relinked
    <3>. QED  BY <1>18, <1>20, <2>1, <2>3
  <2>5. y.node[A[r]].next = [i \in 1..G[r] |-> Link(y, A[r], i)]
    <3>1. y.node[A[r]].next = [i \in 1..g[p] |-> relinked(a[p], i)]
      <4>. HIDE DEF relinked
      <4>. QED  BY <2>4
    <3>. HIDE DEF relinked
    <3>. QED  BY <2>1, <2>2, <3>1
  <2>. HIDE DEF relinked
  <2>. QED  BY <2>1, <2>2, <2>4, <2>5 DEF NodeIs
<1>22. NodeIs(y, N + 1, A, V, G, k + 1)
  <2>1. ASSUME NEW i \in 1..h
        PROVE  Link(y, m, i) = [old(i) EXCEPT !.span = @ - past(i)] /\ LinkIs(y, N + 1, A, G, k + 1, i)
    <3>1. Link(y, m, i) = [old(i) EXCEPT !.span = @ - past(i)]
      <4>1. nodes[m].next = [j \in 1..h |-> [old(j) EXCEPT !.span = @ - past(j)]]
        BY <1>192
      <4>. QED  BY <1>18, <4>1 DEF Link
    <3>2. i \in 1..MaxLevel /\ i <= top
      BY <1>1, <1>9
    <3>3. PICK at1, past1, old1 : at1 = at(i) /\ past1 = past(i) /\ old1 = old(i)
      OBVIOUS
    <3>4. TurnsAt(N, a, g, k, i, at1, past1, old1)
      BY <1>10, <3>2, <3>3
    <3>5. Link(y, m, i) = [old1 EXCEPT !.span = @ - past1]
      BY <3>1, <3>3
    <3>6. LinkIs(y, N + 1, A, G, k + 1, i)
      BY <1>5, <1>12, <1>13, <3>4, <3>5, LinkOfInserted
    <3>. QED  BY <3>1, <3>6
  <2>2. (IF at(1) = HeadNode THEN Null ELSE at(1)) = IF k + 1 <= 1 THEN Null ELSE A[(k + 1) - 1]
    <3>1. a[k] = HeadNode <=> k = 0
      <4>1. k \in 0..(N + 1) /\ 0 \in 0..(N + 1)
        BY <1>1, <1>5
      <4>. QED  BY <1>1, <4>1, PlacesDiffer
    <3>2. (k + 1) - 1 = k /\ (k + 1 <= 1 <=> k = 0) /\ k \in 0..k
      BY <1>5
    <3>3. A[k] = a[k]
      BY <1>13, <3>2 DEF IsInserted
    <3>. QED  BY <1>11, <3>1, <3>2, <3>3
  <2>3. y.node[A[k + 1]] = [value |-> V[k + 1], prev |-> IF k + 1 <= 1 THEN Null ELSE A[(k + 1) - 1],
                            next |-> [i \in 1..h |-> [old(i) EXCEPT !.span = @ - past(i)]]]
    BY <1>15, <1>18, <1>192, <2>2
  <2>4. y.node[A[k + 1]].next = [i \in 1..G[k + 1] |-> Link(y, A[k + 1], i)]
    <3>1. y.node[A[k + 1]].next = [i \in 1..h |-> [old(i) EXCEPT !.span = @ - past(i)]]
      BY <2>3
    <3>. QED  BY <1>15, <2>1, <3>1
  <2>. QED  BY <1>15, <2>1, <2>3, <2>4 DEF NodeIs
<1>23. \A r \in 0..(N + 1) : NodeIs(y, N + 1, A, V, G, r)
  BY <1>17, <1>21, <1>22
<1>24. DOMAIN nodes = {A[p] : p \in 0..(N + 1)}
  <2>1. k + 1 \in 0..(N + 1)
    BY <1>1, <1>5
  <2>2. ASSUME NEW p \in 0..N
        PROVE  \E r \in 0..(N + 1) : a[p] = A[r]
    <3>1. PICK r : r = Behind(k, p)
      OBVIOUS
    <3>. QED  BY <1>16, <3>1
  <2>3. ASSUME NEW r \in 0..(N + 1), r # k + 1
        PROVE  \E p \in 0..N : A[r] = a[p]
    BY <1>16, <1>17, <2>3
  <2>. HIDE DEF relinked
  <2>. QED  BY <1>2, <1>15, <1>19, <2>1, <2>2, <2>3
<1>25. \A r \in 1..(N + 1) : G[r] <= y.level
  <2>. SUFFICES ASSUME NEW r \in 1..(N + 1) PROVE G[r] <= y.level
    OBVIOUS
  <2>1. CASE r = k + 1
    BY <1>9, <1>15, <1>18, <2>1
  <2>2. CASE r # k + 1
    <3>1. PICK p \in 0..N : r = Behind(k, p)
      BY <1>17, <2>2
    <3>2. G[r] = g[p] /\ p \in 1..N
      BY <1>1, <1>5, <1>16, <3>1 DEF Behind
    <3>3. g[p] <= z.level /\ g[p] \in Nat
      BY <1>1, <3>2
    <3>. QED  BY <1>9, <1>18, <3>2, <3>3
  <2>. QED  BY <2>1, <2>2
<1>26. y.tail = IF N + 1 = 0 THEN Null ELSE A[N + 1]
  <2>1. N + 1 # 0
    BY <1>1
  <2>2. CASE k = N
    BY <1>1, <1>11, <1>15, <1>18, <2>1, <2>2
  <2>3. CASE k # N
    <3>1. k + 1 \in 1..N /\ N \in (k + 1)..(N + 1) /\ N # 0
      BY <1>1, <1>5, <2>3
    <3>2. a[k + 1] # Null
      BY <3>1, LinkedTypes
    <3>3. A[N + 1] = a[N]
      BY <1>13, <3>1 DEF IsInserted
    <3>4. z.tail = a[N]
      BY <3>1 DEF Linked
    <3>. QED  BY <1>11, <1>18, <2>1, <3>2, <3>3, <3>4
  <2>. QED  BY <2>2, <2>3
<1>27. Fields(y)
  BY <1>7 DEF Fields
<1>28. y.node = [x \in {A[p] : p \in 0..(N + 1)} |-> y.node[x]]
  <2>. HIDE DEF new, relinked
  <2>1. nodes = [x \in DOMAIN nodes |-> nodes[x]]
    BY DEF nodes
  <2>. QED  BY <1>18, <1>24, <2>1
<1>29. Linked(y, N + 1, A, V, G)
  BY <1>9, <1>14, <1>18, <1>23, <1>25, <1>26, <1>27, <1>28 DEF Linked
<1>30. Scored(y) = [x \in Nodes(z) \cup {m} |-> IF x = m THEN s ELSE Scored(z)[x]]
  <2>1. Nodes(y) = Nodes(z) \cup {m}
    BY <1>3, <1>18, <1>19 DEF Nodes
  <2>2. ASSUME NEW x \in Nodes(z)
        PROVE  nodes[x].value = z.node[x].value
    <3>1. PICK p \in 0..N : x = a[p]
      BY <1>2 DEF Nodes
    <3>2. nodes[x].value = v[p]
      <4>. HIDE DEF relinked
      <4>. QED  BY <1>20, <3>1
    <3>3. z.node[x].value = v[p]
      BY <3>1, NodeAtPlace
    <3>. QED  BY <3>2, <3>3
  <2>3. nodes[m].value = s
    BY <1>192
  <2>4. ASSUME NEW x \in Nodes(z) \cup {m}
        PROVE  y.node[x].value = IF x = m THEN s ELSE Scored(z)[x]
    BY <1>18, <2>2, <2>3 DEF Scored
  <2>. QED  BY <2>1, <2>4 DEF Scored
<1>31. DOMAIN Scored(z) = Nodes(z)
  BY DEF Scored
<1>. QED  BY <1>18, <1>29, <1>30, <1>31 DEF Mapped, Listed, Gained

(***************************************************************************)
(* _removeNode: a list without the node that the path leads to.            *)
(***************************************************************************)

(* The place of p once the one at place k is gone.                         *)
Closing(k, p) == IF p < k THEN p ELSE p - 1

(* The links of place p after the removal.                                 *)
LEMMA LinkRemoved ==
  ASSUME NEW z, NEW N, NEW a, NEW v, NEW g, Linked(z, N, a, v, g), NEW k \in 1..N,
         NEW A, IsDeleted(A, a, N, k), NEW G, G = Deleted(g, N - 1, k),
         NEW y, y.level \in Nat, y.level <= z.level,
         NEW p \in 0..N, p # k, NEW i \in 1..g[p],
         NEW r, r = Closing(k, p),
         NEW at, i <= z.level => \E x : LastUp(g, k - 1, i, x) /\ at = a[x],
         Link(y, A[r], i) = IF i <= z.level /\ a[p] = at THEN Bypass(z, a[p], a[k], i) ELSE Link(z, a[p], i)
  PROVE  LinkIs(y, N - 1, A, G, r, i)
<1>1. /\ N \in Nat /\ g \in [0..N -> Nat] /\ Heighted(g, N) /\ g[0] = MaxLevel /\ MaxLevel \in Nat
      /\ z.level \in 1..MaxLevel /\ \A x \in 1..N : g[x] \in 1..z.level
  BY LinkedTypes
<1>2. LinkIs(z, N, a, g, p, i)
  BY NodeAtPlace
<1>3. PICK q, s : /\ Link(z, a[p], i) = [to |-> a[q], span |-> s] /\ s \in Nat
                  /\ NextUp(g, N, p, i, q) /\ (i <= z.level => s = Span(N, p, q))
  BY <1>2 DEF LinkIs
<1>4. q \in (p + 1)..(N + 1) /\ (q <= N => g[q] >= i)
  BY <1>3 DEF NextUp
<1>5. /\ i \in Nat /\ z.level \in Nat /\ g[p] \in Nat /\ i <= g[p]
      /\ k \in Nat /\ k - 1 \in 0..N /\ N - 1 \in Nat
  BY <1>1
<1>6. /\ q < k => NextUp(G, N - 1, p, i, q)
      /\ p < k /\ q = k => \A t : NextUp(g, N, k, i, t) => NextUp(G, N - 1, p, i, t - 1)
      /\ p < k /\ q > k => NextUp(G, N - 1, p, i, q - 1)
      /\ p > k => NextUp(G, N - 1, p - 1, i, q - 1)
  BY <1>1, <1>3, <1>5, NextUpDeleted
<1>7. (q < k => A[q] = a[q]) /\ (\A t \in (k + 1)..(N + 1) : A[t - 1] = a[t])
  <2>1. q < k => q \in 0..(k - 1)
    BY <1>1, <1>4
  <2>2. \A t \in (k + 1)..(N + 1) : t - 1 \in k..N /\ (t - 1) + 1 = t
    BY <1>1
  <2>. QED  BY <2>1, <2>2 DEF IsDeleted
<1>8. CASE p > k
  <2>1. i <= z.level
    <3>1. p \in 1..N
      BY <1>1, <1>8
    <3>. QED  BY <1>1, <1>5, <3>1
  <2>2. a[p] # at
    <3>1. PICK x : LastUp(g, k - 1, i, x) /\ at = a[x]
      BY <2>1
    <3>2. x \in 0..(k - 1) /\ x \in 0..(N + 1) /\ p \in 0..(N + 1) /\ x # p
      BY <1>1, <1>5, <1>8, <3>1 DEF LastUp
    <3>. QED  BY <3>1, <3>2, PlacesDiffer, LinkedTypes
  <2>3. Link(y, A[r], i) = [to |-> A[q - 1], span |-> s]
    <3>1. q \in (k + 1)..(N + 1)
      BY <1>1, <1>4, <1>5, <1>8, SMTT(30)
    <3>2. Link(y, A[r], i) = Link(z, a[p], i)
      BY <2>2
    <3>. QED  BY <1>3, <1>7, <3>1, <3>2
  <2>4. s = Span(N - 1, p - 1, q - 1)
    BY <1>1, <1>3, <1>4, <2>1 DEF Span
  <2>5. r = p - 1 /\ NextUp(G, N - 1, r, i, q - 1)
    BY <1>1, <1>5, <1>6, <1>8 DEF Closing
  <2>. QED  BY <1>3, <2>3, <2>4, <2>5 DEF LinkIs
<1>9. CASE p < k /\ i > z.level
  <2>1. q = N + 1
    <3>1. ~(q <= N)
      <4>. SUFFICES ASSUME q <= N PROVE FALSE
        OBVIOUS
      <4>1. q \in 1..N /\ g[q] >= i
        BY <1>1, <1>4
      <4>2. g[q] \in Nat /\ g[q] <= z.level
        BY <1>1, <4>1
      <4>. QED  BY <1>5, <1>9, <4>1, <4>2
    <3>2. q \in Int /\ q <= N + 1 /\ N \in Int
      BY <1>1, <1>4
    <3>. QED  BY <3>1, <3>2
  <2>2. q > k /\ q \in (k + 1)..(N + 1)
    BY <1>1, <1>5, <2>1
  <2>3. Link(y, A[r], i) = [to |-> A[q - 1], span |-> s]
    BY <1>3, <1>5, <1>7, <1>9, <2>2
  <2>4. r = p /\ NextUp(G, N - 1, r, i, q - 1) /\ ~(i <= y.level)
    BY <1>5, <1>6, <1>9, <2>2 DEF Closing
  <2>. QED  BY <1>3, <2>3, <2>4 DEF LinkIs
<1>10. CASE p < k /\ i <= z.level
  <2>1. PICK x : LastUp(g, k - 1, i, x) /\ at = a[x]
    BY <1>10
  <2>2. x \in 0..(k - 1) /\ r = p
    BY <1>1, <1>10, <2>1 DEF LastUp, Closing
  <2>3. q > k - 1 <=> LastUp(g, k - 1, i, p)
    <3>1. p \in 0..(k - 1) /\ g[p] >= i
      BY <1>1, <1>5, <1>10
    <3>. QED  BY <1>1, <1>3, <1>5, <3>1, LastAndNext
  <2>4. a[p] = at <=> p = x
    <3>1. x \in 0..(N + 1) /\ p \in 0..(N + 1)
      BY <1>1, <1>5, <2>2
    <3>. QED  BY <2>1, <3>1, PlacesDiffer, LinkedTypes
  <2>5. s = Span(N, p, q)
    BY <1>3, <1>10
  <2>6. CASE p # x
    <3>1. ~(q > k - 1)
      BY <1>1, <1>5, <2>1, <2>3, <2>6, OneUp
    <3>2. q < k /\ q <= N - 1
      BY <1>1, <1>4, <1>5, <3>1
    <3>3. Link(y, A[r], i) = [to |-> A[q], span |-> s]
      BY <1>3, <1>7, <2>4, <2>6, <3>2
    <3>4. s = Span(N - 1, p, q)
      BY <1>1, <1>4, <2>5, <3>2 DEF Span
    <3>. QED  BY <1>3, <1>6, <2>2, <3>2, <3>3, <3>4 DEF LinkIs
  <2>7. CASE p = x
    <3>1. q > k - 1 /\ q >= k
      BY <1>1, <1>4, <1>5, <2>1, <2>3, <2>7
    <3>2. Link(y, A[r], i) = Bypass(z, a[p], a[k], i)
      BY <1>10, <2>4, <2>7
    <3>3. CASE q = k
      <4>1. k \in 0..N /\ i \in 1..g[k]
        BY <1>1, <1>4, <1>5, <3>3
      <4>2. LinkIs(z, N, a, g, k, i)
        BY <4>1, NodeAtPlace
      <4>3. PICK t, w : /\ Link(z, a[k], i) = [to |-> a[t], span |-> w] /\ w \in Nat
                        /\ NextUp(g, N, k, i, t) /\ (i <= z.level => w = Span(N, k, t))
        BY <4>2 DEF LinkIs
      <4>4. t \in (k + 1)..(N + 1)
        BY <4>3 DEF NextUp
      <4>5. Link(y, A[r], i) = [to |-> A[t - 1], span |-> s + w - 1]
        BY <1>3, <1>7, <3>2, <3>3, <4>3, <4>4 DEF Bypass
      <4>6. s + w - 1 \in Nat /\ s + w - 1 = Span(N - 1, p, t - 1)
        BY <1>1, <1>5, <1>10, <2>5, <3>3, <4>3, <4>4, SMTT(60) DEF Span
      <4>7. NextUp(G, N - 1, r, i, t - 1)
        BY <1>6, <1>10, <2>2, <3>3, <4>3
      <4>. QED  BY <2>2, <4>5, <4>6, <4>7 DEF LinkIs
    <3>4. CASE q # k
      <4>1. q > k /\ q \in (k + 1)..(N + 1)
        BY <1>1, <1>4, <1>5, <3>1, <3>4, SMTT(20)
      <4>2. a[q] # a[k]
        <5>1. q \in 0..(N + 1) /\ k \in 0..(N + 1)
          BY <1>1, <1>5, <4>1
        <5>. QED  BY <3>4, <5>1, PlacesDiffer, LinkedTypes
      <4>3. Link(y, A[r], i) = [to |-> A[q - 1], span |-> s - 1]
        BY <1>3, <1>7, <3>2, <4>1, <4>2 DEF Bypass
      <4>4. s - 1 \in Nat /\ s - 1 = Span(N - 1, p, q - 1)
        BY <1>1, <1>3, <1>4, <1>5, <1>10, <2>5, <4>1 DEF Span
      <4>5. NextUp(G, N - 1, r, i, q - 1)
        BY <1>6, <1>10, <2>2, <4>1
      <4>. QED  BY <2>2, <4>3, <4>4, <4>5 DEF LinkIs
    <3>. QED  BY <3>3, <3>4
  <2>. QED  BY <2>6, <2>7
<1>. QED  BY <1>1, <1>5, <1>8, <1>9, <1>10

(* path has, for every level, the last node before place k.                *)
LeadsTo(z, a, g, k, path) ==
  \A i \in 1..z.level : \E p : LastUp(g, k - 1, i, p) /\ path[i].at = a[p]

(* _removeNode takes out the node at place k: the links that led to it lead*)
(* to where it led, those over it are a step shorter, prev, tail and level *)
(* follow.                                                                 *)
LEMMA RemoveIs ==
  ASSUME NEW z, NEW N, NEW a, NEW v, NEW g, Linked(z, N, a, v, g), NEW k \in 1..N,
         NEW path, LeadsTo(z, a, g, k, path), NEW y, y = RemoveNode(z, a[k], path)
  PROVE  /\ \E A, V, G : /\ Linked(y, N - 1, A, V, G)
                         /\ IsDeleted(A, a, N, k) /\ IsDeleted(G, g, N - 1, k)
         /\ y.length = z.length /\ y.map = z.map /\ y.level <= z.level
         /\ Scored(y) = [x \in Nodes(z) \ {a[k]} |-> Scored(z)[x]]
<1>1. /\ N \in Nat /\ g \in [0..N -> Nat] /\ Heighted(g, N) /\ g[0] = MaxLevel /\ MaxLevel \in Nat
      /\ z.level \in 1..MaxLevel /\ a[0] = HeadNode /\ a[N + 1] = Null /\ Placed(N, a, v, g)
      /\ \A x \in 1..N : g[x] \in 1..z.level
  BY LinkedTypes
<1>2. /\ DOMAIN z.node = {a[p] : p \in 0..N} /\ Nodes(z) = {a[p] : p \in 1..N}
      /\ HeadNode \in DOMAIN z.node
  BY LinkedNodes
<1>3. k \in Nat /\ k \in 0..N /\ k \in 0..(N + 1) /\ N - 1 \in Nat /\ (N - 1) + 1 = N /\ k \in 0..((N - 1) + 1)
  BY <1>1
<1>4. \A p \in 0..(N + 1) : a[p] = a[k] <=> p = k
  BY <1>1, <1>3, PlacesDiffer
<1>5. PICK n : n = a[k]
  OBVIOUS
<1>. DEFINE relinked(x, i) ==
              IF i <= z.level /\ x = path[i].at THEN Bypass(z, x, n, i) ELSE Link(z, x, i)
            after == Link(z, n, 1).to
            level == Max({1} \cup {i \in 1..z.level : relinked(HeadNode, i).to # Null})
            nodes == [x \in DOMAIN z.node \ {n} |->
                       [z.node[x] EXCEPT !.next = [i \in DOMAIN @ |-> relinked(x, i)],
                                         !.prev = IF x = after THEN z.node[n].prev ELSE @]]
<1>6. y = [z EXCEPT !.node = nodes, !.tail = IF after = Null THEN z.node[n].prev ELSE @, !.level = level]
  BY <1>5, Zenon DEF RemoveNode
<1>. HIDE DEF nodes
<1>7. /\ y.node = nodes /\ y.tail = (IF after = Null THEN z.node[n].prev ELSE z.tail) /\ y.level = level
      /\ y.length = z.length /\ y.map = z.map /\ Fields(y)
  <2>1. PICK tl, lv : tl = (IF after = Null THEN z.node[n].prev ELSE z.tail) /\ lv = level
    OBVIOUS
  <2>2. y = [z EXCEPT !.node = nodes, !.tail = tl, !.level = lv]
    <3>. HIDE DEF after, level
    <3>. QED  BY <1>6, <2>1
  <2>3. z = [node |-> z.node, tail |-> z.tail, level |-> z.level, length |-> z.length, map |-> z.map]
    BY DEF Linked, Fields
  <2>. HIDE DEF after, level
  <2>4. y = [node |-> nodes, tail |-> tl, level |-> lv, length |-> z.length, map |-> z.map]
    BY <2>2, <2>3
  <2>. QED  BY <2>1, <2>4 DEF Fields
<1>8. after = a[k + 1] /\ z.node[n].prev = IF k <= 1 THEN Null ELSE a[k - 1]
  BY <1>3, <1>5, LowestLink, NodeAtPlace
<1>. HIDE DEF after
<1>9. level \in 1..z.level /\ \A i \in 1..z.level : relinked(HeadNode, i).to # Null => i <= level
  <2>1. PICK S : S = {1} \cup {i \in 1..z.level : relinked(HeadNode, i).to # Null}
    OBVIOUS
  <2>2. S \in SUBSET (0..z.level) /\ S # {} /\ z.level \in Nat /\ S \subseteq 1..z.level
    BY <1>1, <2>1
  <2>3. Max(S) \in S /\ \A i \in S : i <= Max(S)
    BY <2>2, GreatestNumber
  <2>4. level = Max(S)
    BY <2>1
  <2>5. \A i \in 1..z.level : relinked(HeadNode, i).to # Null => i \in S
    BY <2>1
  <2>. HIDE DEF relinked, level
  <2>. QED  BY <2>2, <2>3, <2>4, <2>5
<1>. HIDE DEF level
<1>10. PICK A, V, G : A = Deleted(a, N, k) /\ V = Deleted(v, N - 1, k) /\ G = Deleted(g, N - 1, k)
  OBVIOUS
<1>11. IsDeleted(A, a, N, k) /\ IsDeleted(V, v, N - 1, k) /\ IsDeleted(G, g, N - 1, k)
  BY <1>1, <1>3, <1>10, DeletedAt
<1>12. Placed(N - 1, A, V, G)
  BY <1>1, <1>10, DeletedPlaces
<1>13. ASSUME NEW p \in 0..N, p # k, NEW r, r = Closing(k, p)
       PROVE  A[r] = a[p] /\ V[r] = v[p] /\ G[r] = g[p] /\ r \in 0..(N - 1)
  <2>1. CASE p < k
    <3>1. p \in 0..(k - 1) /\ r = p /\ p \in 0..(N - 1)
      BY <1>1, <1>3, <1>13, <2>1 DEF Closing
    <3>2. A[p] = a[p]
      BY <1>11, <3>1 DEF IsDeleted
    <3>3. V[p] = v[p] /\ G[p] = g[p]
      BY <1>11, <3>1 DEF IsDeleted
    <3>. QED  BY <3>1, <3>2, <3>3
  <2>2. CASE ~(p < k)
    <3>1. r = p - 1 /\ r \in k..(N - 1) /\ r \in k..N /\ r + 1 = p /\ r \in 0..(N - 1)
      BY <1>1, <1>3, <1>13, <2>2 DEF Closing
    <3>2. A[r] = a[p]
      BY <1>11, <3>1 DEF IsDeleted
    <3>3. V[r] = v[p] /\ G[r] = g[p]
      BY <1>11, <3>1 DEF IsDeleted
    <3>. QED  BY <3>1, <3>2, <3>3
  <2>. QED  BY <2>1, <2>2
<1>14. ASSUME NEW r \in 0..(N - 1)
       PROVE  \E p \in 0..N : p # k /\ r = Closing(k, p)
  <2>1. CASE r < k
    <3>1. r \in 0..N /\ r # k
      BY <1>1, <1>3, <2>1
    <3>. QED  BY <2>1, <3>1 DEF Closing
  <2>2. CASE ~(r < k)
    <3>1. PICK p : p = r + 1
      OBVIOUS
    <3>2. p \in 0..N /\ p # k /\ ~(p < k) /\ r = p - 1
      BY <1>1, <1>3, <2>2, <3>1
    <3>. QED  BY <3>2 DEF Closing
  <2>. QED  BY <2>1, <2>2
<1>15. /\ DOMAIN nodes = DOMAIN z.node \ {n}
       /\ \A x \in DOMAIN z.node \ {n} :
            nodes[x] = [z.node[x] EXCEPT !.next = [i \in DOMAIN @ |-> relinked(x, i)],
                                         !.prev = IF x = after THEN z.node[n].prev ELSE @]
       /\ nodes = [x \in DOMAIN nodes |-> nodes[x]]
  <2>. HIDE DEF relinked
  <2>. QED  BY DEF nodes
<1>16. ASSUME NEW p \in 0..N, p # k
       PROVE  /\ nodes[a[p]].value = v[p] /\ nodes[a[p]].next = [i \in 1..g[p] |-> relinked(a[p], i)]
              /\ nodes[a[p]] = [value |-> v[p],
                                prev |-> IF p = k + 1 THEN z.node[n].prev ELSE IF p <= 1 THEN Null ELSE a[p - 1],
                                next |-> [i \in 1..g[p] |-> relinked(a[p], i)]]
  <2>1. NodeIs(z, N, a, v, g, p) /\ a[p] \in DOMAIN z.node \ {n}
    <3>1. p \in 0..(N + 1)
      BY <1>1
    <3>. QED  BY <1>2, <1>4, <1>5, <1>16, <3>1 DEF Linked
  <2>2. PICK nd, pr, nx : nd = z.node[a[p]] /\ pr = (IF p <= 1 THEN Null ELSE a[p - 1]) /\ nx = nd.next
    OBVIOUS
  <2>3. nd = [value |-> v[p], prev |-> pr, next |-> nx] /\ DOMAIN nx = 1..g[p]
    BY <2>1, <2>2 DEF NodeIs
  <2>. HIDE DEF relinked
  <2>4. PICK links : links = [i \in 1..g[p] |-> relinked(a[p], i)]
    OBVIOUS
  <2>5. PICK x : x = a[p]
    OBVIOUS
  <2>6. nodes[x] = [nd EXCEPT !.next = [i \in DOMAIN @ |-> relinked(x, i)],
                              !.prev = IF x = after THEN z.node[n].prev ELSE @]
    BY <1>15, <2>1, <2>2, <2>5, ZenonT(40)
  <2>7. [i \in DOMAIN nx |-> relinked(x, i)] = links
    BY <2>3, <2>4, <2>5
  <2>8. nodes[x] = [value |-> v[p], prev |-> IF x = after THEN z.node[n].prev ELSE pr,
                    next |-> [i \in DOMAIN nx |-> relinked(x, i)]]
    BY <2>3, <2>6
  <2>9. PICK pr1 : pr1 = IF x = after THEN z.node[n].prev ELSE pr
    OBVIOUS
  <2>10. nodes[x] = [value |-> v[p], prev |-> pr1, next |-> links]
    BY <2>7, <2>8, <2>9
  <2>11. nodes[x].value = v[p] /\ nodes[x].next = links
    BY <2>10
  <2>12. x = after <=> p = k + 1
    <3>1. p \in 0..(N + 1) /\ k + 1 \in 0..(N + 1)
      BY <1>1, <1>3
    <3>. QED  BY <1>1, <1>8, <2>5, <3>1, PlacesDiffer
  <2>13. pr1 = IF p = k + 1 THEN z.node[n].prev ELSE IF p <= 1 THEN Null ELSE a[p - 1]
    BY <2>2, <2>9, <2>12
  <2>. QED  BY <2>4, <2>5, <2>10, <2>11, <2>13
<1>17. ASSUME NEW p \in 0..N, p # k, NEW r, r = Closing(k, p)
       PROVE  NodeIs(y, N - 1, A, V, G, r)
  <2>1. A[r] = a[p] /\ V[r] = v[p] /\ G[r] = g[p] /\ r \in 0..(N - 1)
    BY <1>13, <1>17
  <2>2. ASSUME NEW i \in 1..g[p]
        PROVE  Link(y, A[r], i) = relinked(a[p], i) /\ LinkIs(y, N - 1, A, G, r, i)
    <3>1. Link(y, A[r], i) = relinked(a[p], i)
      <4>. HIDE DEF relinked
      <4>1. nodes[a[p]].next = [j \in 1..g[p] |-> relinked(a[p], j)]
        BY <1>16, <1>17
      <4>2. nodes[a[p]].next[i] = relinked(a[p], i)
        BY <4>1
      <4>. QED  BY <1>7, <2>1, <4>2 DEF Link
    <3>2. PICK at : at = path[i].at
      OBVIOUS
    <3>3. i \in Nat
      BY <1>1
    <3>4. i <= z.level => \E x : LastUp(g, k - 1, i, x) /\ at = a[x]
      BY <1>1, <3>2, <3>3 DEF LeadsTo
    <3>5. Link(y, A[r], i) = IF i <= z.level /\ a[p] = at THEN Bypass(z, a[p], a[k], i) ELSE Link(z, a[p], i)
      BY <1>5, <3>1, <3>2
    <3>6. y.level \in Nat /\ y.level <= z.level
      BY <1>1, <1>7, <1>9
    <3>7. LinkIs(y, N - 1, A, G, r, i)
      BY <1>10, <1>11, <1>17, <3>4, <3>5, <3>6, LinkRemoved
    <3>. QED  BY <3>1, <3>7
  <2>3. (IF p = k + 1 THEN z.node[n].prev ELSE IF p <= 1 THEN Null ELSE a[p - 1])
          = IF r <= 1 THEN Null ELSE A[r - 1]
    <3>1. CASE p < k
      <4>1. r = p /\ p # k + 1
        BY <1>3, <1>17, <3>1 DEF Closing
      <4>2. p > 1 => A[p - 1] = a[p - 1]
        <5>1. p > 1 => p - 1 \in 0..(k - 1)
          BY <1>3, <3>1
        <5>. QED  BY <1>11, <5>1 DEF IsDeleted
      <4>. QED  BY <1>1, <4>1, <4>2
    <3>2. CASE p = k + 1
      <4>1. r = k
        BY <1>3, <1>17, <3>2 DEF Closing
      <4>2. k - 1 \in 0..(k - 1)
        BY <1>3
      <4>3. A[k - 1] = a[k - 1]
        BY <1>11, <4>2 DEF IsDeleted
      <4>. QED  BY <1>8, <3>2, <4>1, <4>3
    <3>3. CASE p > k + 1
      <4>1. r = p - 1 /\ ~(r <= 1) /\ ~(p <= 1) /\ p # k + 1
        BY <1>3, <1>17, <3>3 DEF Closing
      <4>2. r - 1 \in k..N /\ (r - 1) + 1 = p - 1
        BY <1>1, <1>3, <3>3, <4>1
      <4>3. A[r - 1] = a[p - 1]
        BY <1>11, <4>2 DEF IsDeleted
      <4>. QED  BY <4>1, <4>3
    <3>. QED  BY <1>1, <1>3, <1>17, <3>1, <3>2, <3>3
  <2>4. y.node[A[r]] = [value |-> V[r], prev |-> IF r <= 1 THEN Null ELSE A[r - 1],
                        next |-> [i \in 1..g[p] |-> relinked(a[p], i)]]
    <3>. HIDE DEF relinked
    <3>. QED  BY <1>7, <1>16, <1>17, <2>1, <2>3
  <2>5. y.node[A[r]].next = [i \in 1..G[r] |-> Link(y, A[r], i)]
    <3>1. y.node[A[r]].next = [i \in 1..g[p] |-> relinked(a[p], i)]
      <4>. HIDE DEF relinked
      <4>. QED  BY <2>4
    <3>. HIDE DEF relinked
    <3>. QED  BY <2>1, <2>2, <3>1
  <2>. HIDE DEF relinked
  <2>. QED  BY <2>1, <2>2, <2>4, <2>5 DEF NodeIs
<1>18. \A r \in 0..(N - 1) : NodeIs(y, N - 1, A, V, G, r)
  BY <1>14, <1>17
<1>19. DOMAIN nodes = {A[p] : p \in 0..(N - 1)}
  <2>1. ASSUME NEW p \in 0..N, p # k
        PROVE  \E r \in 0..(N - 1) : a[p] = A[r]
    <3>1. PICK r : r = Closing(k, p)
      OBVIOUS
    <3>. QED  BY <1>13, <2>1, <3>1
  <2>2. ASSUME NEW r \in 0..(N - 1)
        PROVE  \E p \in 0..N : p # k /\ A[r] = a[p]
    BY <1>13, <1>14
  <2>3. \A p \in 0..N : a[p] = n <=> p = k
    <3>1. \A p \in 0..N : p \in 0..(N + 1)
      BY <1>1
    <3>. QED  BY <1>4, <1>5, <3>1
  <2>4. DOMAIN nodes = DOMAIN z.node \ {n}
    <3>. HIDE DEF relinked
    <3>. QED  BY <1>15
  <2>. HIDE DEF relinked
  <2>. QED  BY <1>2, <2>1, <2>2, <2>3, <2>4
(* The head has a link to each node on the node's highest level.           *)
<1>20. \A r \in 1..(N - 1) : G[r] <= y.level
  <2>. SUFFICES ASSUME NEW r \in 1..(N - 1) PROVE G[r] <= y.level
    OBVIOUS
  <2>1. PICK p \in 0..N : p # k /\ r = Closing(k, p)
    <3>1. r \in 0..(N - 1)
      BY <1>1
    <3>. QED  BY <1>14, <3>1
  <2>2. G[r] = g[p] /\ p \in 1..N
    BY <1>1, <1>3, <1>13, <2>1 DEF Closing
  <2>3. PICK i : i = G[r]
    OBVIOUS
  <2>4. i \in 1..z.level /\ i \in 1..g[0]
    BY <1>1, <2>2, <2>3
  <2>5. 0 = Closing(k, 0) /\ 0 # k /\ 0 \in 0..N
    BY <1>1 DEF Closing
  <2>6. NodeIs(y, N - 1, A, V, G, 0) /\ A[0] = a[0] /\ G[0] = g[0]
    BY <1>13, <1>17, <2>5
  <2>7. LinkIs(y, N - 1, A, G, 0, i)
    BY <2>4, <2>6 DEF NodeIs
  <2>8. PICK q, s : Link(y, A[0], i) = [to |-> A[q], span |-> s] /\ NextUp(G, N - 1, 0, i, q)
    BY <2>7 DEF LinkIs
  <2>9. q \in 1..N /\ \A t \in 1..(q - 1) : G[t] < i
    BY <1>3, <2>8 DEF NextUp
  <2>10. q <= r
    <3>. SUFFICES ASSUME ~(q <= r) PROVE FALSE
      OBVIOUS
    <3>1. r \in 1..(q - 1)
      BY <1>1, <2>9
    <3>. QED  BY <1>1, <2>3, <2>4, <2>9, <3>1
  <2>11. A[q] # Null
    <3>1. q \in 0..((N - 1) + 1) /\ N \in 0..((N - 1) + 1) /\ q # N
      BY <1>1, <1>3, <2>9, <2>10
    <3>2. A[(N - 1) + 1] = Null
      BY <1>12 DEF Placed
    <3>. QED  BY <1>3, <1>12, <3>1, <3>2, PlacesDiffer
  <2>12. relinked(HeadNode, i).to # Null
    <3>1. Link(y, A[0], i) = relinked(a[0], i)
      <4>. HIDE DEF relinked
      <4>1. nodes[a[0]].next = [j \in 1..g[0] |-> relinked(a[0], j)]
        BY <1>16, <2>5
      <4>2. nodes[a[0]].next[i] = relinked(a[0], i)
        BY <2>4, <4>1
      <4>. QED  BY <1>7, <2>6, <4>2 DEF Link
    <3>. HIDE DEF relinked
    <3>. QED  BY <1>1, <2>8, <2>11, <3>1
  <2>. HIDE DEF relinked
  <2>. QED  BY <1>7, <1>9, <2>3, <2>4, <2>12
<1>21. y.tail = IF N - 1 = 0 THEN Null ELSE A[N - 1]
  <2>1. CASE k = N
    <3>1. y.tail = IF k <= 1 THEN Null ELSE a[k - 1]
      BY <1>1, <1>7, <1>8, <2>1
    <3>2. k - 1 \in 0..(k - 1)
      BY <1>3
    <3>3. A[k - 1] = a[k - 1]
      BY <1>11, <3>2 DEF IsDeleted
    <3>4. k <= 1 <=> N - 1 = 0
      BY <1>3, <2>1
    <3>. QED  BY <2>1, <3>1, <3>3, <3>4
  <2>2. CASE k # N
    <3>1. k + 1 \in 1..N /\ N - 1 \in k..N /\ N - 1 # 0 /\ N # 0
      BY <1>1, <1>3, <2>2
    <3>2. a[k + 1] # Null
      BY <3>1, LinkedTypes
    <3>3. A[N - 1] = a[N]
      BY <1>3, <1>11, <3>1 DEF IsDeleted
    <3>4. z.tail = a[N]
      BY <3>1 DEF Linked
    <3>. QED  BY <1>7, <1>8, <3>1, <3>2, <3>3, <3>4
  <2>. QED  BY <2>1, <2>2
<1>22. y.node = [x \in {A[p] : p \in 0..(N - 1)} |-> y.node[x]]
  <2>1. nodes = [x \in DOMAIN nodes |-> nodes[x]]
    <3>. HIDE DEF relinked
    <3>. QED  BY <1>15
  <2>. QED  BY <1>7, <1>19, <2>1
<1>23. y.level \in 1..MaxLevel /\ y.level <= z.level
  BY <1>1, <1>7, <1>9
<1>24. Linked(y, N - 1, A, V, G)
  BY <1>7, <1>12, <1>18, <1>20, <1>21, <1>22, <1>23 DEF Linked
<1>25. Scored(y) = [x \in Nodes(z) \ {a[k]} |-> Scored(z)[x]]
  <2>1. Nodes(y) = Nodes(z) \ {n}
    <3>1. DOMAIN nodes = DOMAIN z.node \ {n}
      <4>. HIDE DEF relinked
      <4>. QED  BY <1>15
    <3>. QED  BY <1>7, <3>1 DEF Nodes
  <2>2. ASSUME NEW x \in Nodes(z) \ {n}
        PROVE  y.node[x].value = Scored(z)[x]
    <3>1. PICK p \in 0..N : x = a[p]
      BY <1>2 DEF Nodes
    <3>2. p # k
      BY <1>5, <2>2, <3>1
    <3>3. nodes[x].value = v[p]
      <4>. HIDE DEF relinked
      <4>. QED  BY <1>16, <3>1, <3>2
    <3>4. z.node[x].value = v[p]
      BY <3>1, NodeAtPlace
    <3>. QED  BY <1>7, <3>3, <3>4 DEF Scored
  <2>. QED  BY <1>5, <2>1, <2>2 DEF Scored
<1>. QED  BY <1>7, <1>11, <1>23, <1>24, <1>25

(***************************************************************************)
(* Sets whose map agrees with the list; _remove.                           *)
(***************************************************************************)

(* The list, its length and the map agree.                                 *)
Whole(z) ==
  \E N, a, v, g : Linked(z, N, a, v, g) /\ z.length = N /\ z.map = Scored(z)

(* A new set is whole and has no nodes.                                    *)
LEMMA EmptyIs ==
  /\ Whole(EmptySet) /\ Nodes(EmptySet) = {}
<1>1. MaxLevel \in Nat /\ 1 \in 1..MaxLevel /\ MaxLevel \in 1..MaxLevel
  BY LevelAssumption
<1>2. PICK a, v, g : /\ a = [p \in 0..1 |-> IF p = 0 THEN HeadNode ELSE Null]
                     /\ v = [p \in 0..0 |-> 0] /\ g = [p \in 0..0 |-> MaxLevel]
  OBVIOUS
<1>3. Nodes(EmptySet) = {} /\ DOMAIN EmptySet.node = {HeadNode}
  BY DEF Nodes, EmptySet
<1>4. Placed(0, a, v, g)
  BY <1>1, <1>2 DEF Placed, Heighted
<1>5. a[0] = HeadNode /\ v[0] = 0 /\ g[0] = MaxLevel /\ a[1] = Null
  BY <1>2
<1>6. EmptySet.node[HeadNode] = [value |-> 0, prev |-> Null,
                                 next |-> [i \in 1..MaxLevel |-> [to |-> Null, span |-> 0]]]
  BY DEF EmptySet
<1>7. \A i \in 1..MaxLevel : Link(EmptySet, HeadNode, i) = [to |-> Null, span |-> 0]
  BY <1>6 DEF Link
<1>8. ASSUME NEW i \in 1..g[0]
      PROVE  LinkIs(EmptySet, 0, a, g, 0, i)
  <2>1. NextUp(g, 0, 0, i, 1)
    BY DEF NextUp
  <2>2. Span(0, 0, 1) = 0
    BY DEF Span
  <2>. QED  BY <1>5, <1>7, <2>1, <2>2 DEF LinkIs
<1>9. NodeIs(EmptySet, 0, a, v, g, 0)
  <2>1. EmptySet.node[HeadNode].next = [i \in 1..g[0] |-> Link(EmptySet, a[0], i)]
    BY <1>5, <1>6, <1>7
  <2>2. EmptySet.node[a[0]] = [value |-> v[0], prev |-> Null, next |-> EmptySet.node[a[0]].next]
    BY <1>5, <1>6
  <2>. QED  BY <1>5, <1>8, <2>1, <2>2 DEF NodeIs
<1>10. Fields(EmptySet) /\ EmptySet.level = 1 /\ EmptySet.tail = Null /\ EmptySet.length = 0
       /\ EmptySet.map = <<>>
  BY DEF Fields, EmptySet
<1>11. EmptySet.node = [x \in {a[p] : p \in 0..0} |-> EmptySet.node[x]]
  <2>1. {a[p] : p \in 0..0} = {HeadNode}
    BY <1>5
  <2>2. EmptySet.node = [x \in {HeadNode} |-> EmptySet.node[x]]
    BY DEF EmptySet
  <2>. QED  BY <2>1, <2>2
<1>12. Linked(EmptySet, 0, a, v, g)
  BY <1>1, <1>4, <1>9, <1>10, <1>11 DEF Linked
<1>13. Scored(EmptySet) = <<>>
  BY <1>3 DEF Scored
<1>. QED  BY <1>3, <1>10, <1>12, <1>13 DEF Whole

(* Only the map and the length of a list differ.                           *)
SameList(y, z) == Fields(y) /\ y.node = z.node /\ y.tail = z.tail /\ y.level = z.level

(* What Linked says does not depend on length and map.                     *)
LEMMA SameListIs ==
  ASSUME NEW z, NEW N, NEW a, NEW v, NEW g, Linked(z, N, a, v, g), NEW y, SameList(y, z)
  PROVE  Linked(y, N, a, v, g) /\ Scored(y) = Scored(z) /\ Nodes(y) = Nodes(z)
<1>1. y.node = z.node /\ y.level = z.level /\ y.tail = z.tail /\ Fields(y)
  BY DEF SameList
<1>2. \A n, i : Link(y, n, i) = Link(z, n, i)
  BY <1>1 DEF Link
<1>3. ASSUME NEW p \in 0..N
      PROVE  NodeIs(y, N, a, v, g, p)
  <2>1. NodeIs(z, N, a, v, g, p)
    BY DEF Linked
  <2>2. ASSUME NEW i \in 1..g[p]
        PROVE  LinkIs(y, N, a, g, p, i)
    <3>1. LinkIs(z, N, a, g, p, i)
      BY <2>1 DEF NodeIs
    <3>. QED  BY <1>1, <1>2, <3>1 DEF LinkIs
  <2>3. y.node[a[p]].next = [i \in 1..g[p] |-> Link(y, a[p], i)]
    BY <1>1, <1>2, <2>1 DEF NodeIs
  <2>4. y.node[a[p]] = [value |-> v[p], prev |-> IF p <= 1 THEN Null ELSE a[p - 1], next |-> y.node[a[p]].next]
    BY <1>1, <2>1 DEF NodeIs
  <2>. QED  BY <2>2, <2>3, <2>4 DEF NodeIs
<1>4. Linked(y, N, a, v, g)
  BY <1>1, <1>3 DEF Linked
<1>. QED  BY <1>1, <1>4 DEF Scored, Nodes

(* _remove finds the node of a member by its score and takes it out.       *)
LEMMA UnlinkIs ==
  ASSUME NEW z, NEW N, NEW a, NEW v, NEW g, Linked(z, N, a, v, g), z.length = N,
         NEW m \in Nodes(z), NEW y, y = Unlink(z, m, Scored(z)[m])
  PROVE  /\ Listed(y, N - 1) /\ y.map = z.map
         /\ Scored(y) = [x \in Nodes(z) \ {m} |-> Scored(z)[x]]
<1>1. /\ N \in Nat /\ v \in [0..N -> Int] /\ g \in [0..N -> Nat] /\ Placed(N, a, v, g)
      /\ \A p \in 1..N : a[p] \in Nat
  BY LinkedTypes
<1>2. PICK k \in 1..N : m = a[k]
  BY LinkedNodes
<1>3. k \in 0..N /\ v[k] \in Int /\ m \in Nat /\ k - 1 \in 0..N
  BY <1>1, <1>2
<1>4. PICK s : s = Scored(z)[m]
  OBVIOUS
<1>5. s = v[k] /\ z.node[m].value = s
  BY <1>2, <1>3, <1>4, NodeAtPlace DEF Scored
<1>6. PICK j : /\ UpTo(z, N, a, j, Before(z, s, m))
               /\ \A p \in 1..N : v[p] < s \/ (v[p] = s /\ a[p] < m) <=> p <= j
  BY <1>3, <1>5, BeforeCut
<1>7. j = k - 1
  <2>1. j \in 0..N
    BY <1>6 DEF UpTo
  <2>2. ~(k <= j)
    BY <1>2, <1>3, <1>5, <1>6
  <2>3. k > 1 => k - 1 <= j
    <3>. SUFFICES ASSUME k > 1 PROVE k - 1 <= j
      OBVIOUS
    <3>1. k - 1 \in 1..N /\ k - 1 < k
      BY <1>1
    <3>2. Precedes(a, v, k - 1, k)
      BY <1>1, <3>1 DEF Placed
    <3>. QED  BY <1>2, <1>5, <1>6, <3>1, <3>2 DEF Precedes
  <2>. QED  BY <1>1, <2>1, <2>2, <2>3
<1>8. PICK path : path = Path(z, Stops(Before(z, s, m)))
  OBVIOUS
<1>9. /\ \A i \in 1..z.level : \E p \in 0..(k - 1) : LastUp(g, k - 1, i, p) /\ path[i] = Stop(a, 0, p)
      /\ Link(z, path[1].at, 1).to = a[(k - 1) + 1]
  <2>1. 0 \in 0..N /\ (IF 0 <= k - 1 THEN k - 1 ELSE 0) = k - 1
    BY <1>1
  <2>2. CutAt(z, N, a, 0, k - 1, Stops(Before(z, s, m)))
    BY <1>6, <1>7, <2>1, CutOfNodes
  <2>. QED  BY <1>8, <2>2, PathIs
<1>10. LeadsTo(z, a, g, k, path)
  <2>1. \A p : Stop(a, 0, p).at = a[p]
    BY DEF Stop
  <2>. QED  BY <1>9, <2>1 DEF LeadsTo
<1>11. Link(z, path[1].at, 1).to = m
  <2>1. (k - 1) + 1 = k
    BY <1>1
  <2>. QED  BY <1>2, <1>9, <2>1
<1>12. PICK x : x = RemoveNode(z, m, path)
  OBVIOUS
<1>13. /\ \E A, V, G : Linked(x, N - 1, A, V, G)
       /\ x.length = z.length /\ x.map = z.map
       /\ Scored(x) = [n \in Nodes(z) \ {m} |-> Scored(z)[n]]
  BY <1>2, <1>10, <1>12, RemoveIs
<1>14. y = [x EXCEPT !.length = @ - 1]
  BY <1>4, <1>5, <1>8, <1>11, <1>12 DEF Unlink
<1>15. PICK A, V, G : Linked(x, N - 1, A, V, G)
  BY <1>13
<1>16. /\ y.node = x.node /\ y.tail = x.tail /\ y.level = x.level /\ y.map = x.map
       /\ y.length = N - 1 /\ Fields(y)
  <2>1. x = [node |-> x.node, tail |-> x.tail, level |-> x.level, length |-> x.length, map |-> x.map]
    BY <1>15 DEF Linked, Fields
  <2>2. y = [node |-> x.node, tail |-> x.tail, level |-> x.level, length |-> x.length - 1, map |-> x.map]
    BY <1>14, <2>1
  <2>. QED  BY <1>13, <2>2 DEF Fields
<1>17. Linked(y, N - 1, A, V, G)
  <2>1. SameList(y, x)
    BY <1>16 DEF SameList
  <2>. QED  BY <1>15, <2>1, SameListIs
<1>18. Scored(y) = Scored(x)
  BY <1>16 DEF Scored, Nodes
<1>. QED  BY <1>13, <1>16, <1>17, <1>18 DEF Listed

(***************************************************************************)
(* add, rem and incrBy.                                                    *)
(***************************************************************************)

(* The map of a whole set.                                                 *)
LEMMA WholeIs ==
  ASSUME NEW z, Whole(z)
  PROVE  /\ z.map = Scored(z) /\ DOMAIN z.map = Nodes(z) /\ Nodes(z) \subseteq Members
         /\ Scored(z) \in [Nodes(z) -> Int]
<1>1. PICK N, a, v, g : Linked(z, N, a, v, g) /\ z.length = N /\ z.map = Scored(z)
  BY DEF Whole
<1>2. Nodes(z) \subseteq Members /\ Nodes(z) = {a[p] : p \in 1..N}
  BY <1>1, LinkedNodes
<1>3. v \in [0..N -> Int] /\ N \in Nat
  BY <1>1, LinkedTypes
<1>4. ASSUME NEW n \in Nodes(z)
      PROVE  z.node[n].value \in Int
  <2>1. PICK p \in 1..N : n = a[p]
    BY <1>2
  <2>2. p \in 0..N
    BY <1>3
  <2>. QED  BY <1>1, <1>3, <2>1, <2>2, NodeAtPlace
<1>. QED  BY <1>1, <1>2, <1>4 DEF Scored

(* Another map, of the same list.                                          *)
WithMap(z, f) == [z EXCEPT !.map = f]

LEMMA WithMapIs ==
  ASSUME NEW z, Fields(z), NEW f, NEW y, y = WithMap(z, f)
  PROVE  SameList(y, z) /\ y.map = f /\ y.length = z.length
<1>1. z = [node |-> z.node, tail |-> z.tail, level |-> z.level, length |-> z.length, map |-> z.map]
  BY DEF Fields
<1>2. y = [z EXCEPT !.map = f]
  BY DEF WithMap
<1>3. y = [node |-> z.node, tail |-> z.tail, level |-> z.level, length |-> z.length, map |-> f]
  BY <1>1, <1>2
<1>. QED  BY <1>3 DEF SameList, Fields

(* The map agrees with the list, but for m, which it may have.             *)
BesideMap(z, m) ==
  /\ DOMAIN z.map \cup {m} = Nodes(z) \cup {m}
  /\ \A n \in Nodes(z) : Scored(z)[n] = z.map[n]

(* A set with the scores f.                                                *)
Holds(z, f) == Whole(z) /\ Scored(z) = f

(* A member is linked in and its score set.                                *)
LEMMA EntryIs ==
  ASSUME NEW z, NEW N, NEW a, NEW v, NEW g, Linked(z, N, a, v, g), z.length = N,
         NEW m \in Members, m \notin Nodes(z), NEW s \in Int, NEW h \in 1..MaxLevel,
         BesideMap(z, m),
         NEW w, w = Insert(z, m, s, h), NEW y, y = WithMap(w, Mapped(w.map, m, s))
  PROVE  Holds(y, Mapped(z.map, m, s))
<1>1. Listed(w, N + 1) /\ w.map = z.map /\ Scored(w) = Mapped(Scored(z), m, s)
  <2>1. Gained(w, z, N + 1, m, s)
    BY InsertIs, LevelAssumption
  <2>. QED  BY <2>1 DEF Gained
<1>2. PICK A, V, G : Linked(w, N + 1, A, V, G) /\ w.length = N + 1
  BY <1>1 DEF Listed
<1>3. Mapped(Scored(z), m, s) = Mapped(z.map, m, s)
  <2>1. DOMAIN Scored(z) = Nodes(z)
    BY DEF Scored
  <2>. QED  BY <2>1 DEF Mapped, BesideMap
<1>4. Fields(w)
  BY <1>2 DEF Linked
<1>5. SameList(y, w) /\ y.map = Mapped(w.map, m, s) /\ y.length = w.length
  BY <1>4, WithMapIs
<1>6. Linked(y, N + 1, A, V, G) /\ Scored(y) = Scored(w)
  BY <1>2, <1>5, SameListIs
<1>. QED  BY <1>1, <1>2, <1>3, <1>5, <1>6 DEF Whole, Holds

(* add, rem: what they make of the scores, with the set whole again.       *)
LEMMA AddIs ==
  ASSUME NEW z, Whole(z), NEW m \in Members, NEW s \in Int, NEW h \in 1..MaxLevel,
         NEW y, y = Add(z, m, s, h)
  PROVE  Holds(y, Mapped(Scored(z), m, s))
<1>1. PICK N, a, v, g : Linked(z, N, a, v, g) /\ z.length = N /\ z.map = Scored(z)
  BY DEF Whole
<1>2. DOMAIN z.map = Nodes(z) /\ DOMAIN Scored(z) = Nodes(z) /\ Scored(z) = [n \in Nodes(z) |-> Scored(z)[n]]
  BY <1>1 DEF Scored
<1>3. CASE Has(z, m) /\ z.map[m] = s
  <2>1. y = z
    BY <1>3 DEF Add
  <2>2. m \in Nodes(z) /\ Scored(z)[m] = s
    BY <1>1, <1>2, <1>3 DEF Has
  <2>3. Mapped(Scored(z), m, s) = Scored(z)
    BY <1>2, <2>2 DEF Mapped
  <2>. QED  BY <2>1, <2>3 DEF Holds
<1>4. CASE Has(z, m) /\ z.map[m] # s
  <2>1. m \in Nodes(z) /\ m \in DOMAIN z.map
    BY <1>2, <1>4 DEF Has
  <2>2. PICK x : x = Unlink(z, m, Scored(z)[m])
    OBVIOUS
  <2>3. /\ Listed(x, N - 1) /\ x.map = z.map
        /\ Scored(x) = [n \in Nodes(z) \ {m} |-> Scored(z)[n]]
    BY <1>1, <2>1, <2>2, UnlinkIs
  <2>4. PICK A, V, G : Linked(x, N - 1, A, V, G) /\ x.length = N - 1
    BY <2>3 DEF Listed
  <2>5. Nodes(x) = Nodes(z) \ {m}
    <3>1. DOMAIN Scored(x) = Nodes(x)
      BY DEF Scored
    <3>. QED  BY <2>3, <3>1
  <2>6. BesideMap(x, m)
    BY <1>1, <1>2, <2>3, <2>5 DEF BesideMap
  <2>7. PICK w : w = Insert(x, m, s, h)
    OBVIOUS
  <2>11. y = WithMap(w, Mapped(w.map, m, s))
    BY <1>1, <1>4, <2>2, <2>7, Zenon DEF Add, WithMap
  <2>8. m \notin Nodes(x)
    BY <2>5
  <2>9. Holds(y, Mapped(x.map, m, s))
    BY <2>3, <2>4, <2>6, <2>7, <2>8, <2>11, EntryIs, LevelAssumption
  <2>. QED  BY <1>1, <2>3, <2>9
<1>5. CASE ~Has(z, m)
  <2>1. m \notin Nodes(z)
    BY <1>2, <1>5 DEF Has
  <2>2. BesideMap(z, m)
    BY <1>1, <1>2 DEF BesideMap
  <2>3. PICK w : w = Insert(z, m, s, h)
    OBVIOUS
  <2>5. y = WithMap(w, Mapped(w.map, m, s))
    BY <1>5, <2>3, Zenon DEF Add, WithMap
  <2>4. Holds(y, Mapped(z.map, m, s))
    BY <1>1, <2>1, <2>2, <2>3, <2>5, EntryIs, LevelAssumption
  <2>. QED  BY <1>1, <2>4
<1>. QED  BY <1>3, <1>4, <1>5

LEMMA RemIs ==
  ASSUME NEW z, Whole(z), NEW m, NEW y, y = Rem(z, m)
  PROVE  Holds(y, [n \in Nodes(z) \ {m} |-> Scored(z)[n]])
<1>1. PICK N, a, v, g : Linked(z, N, a, v, g) /\ z.length = N /\ z.map = Scored(z)
  BY DEF Whole
<1>2. DOMAIN z.map = Nodes(z) /\ DOMAIN Scored(z) = Nodes(z) /\ Scored(z) = [n \in Nodes(z) |-> Scored(z)[n]]
  BY <1>1 DEF Scored
<1>3. CASE ~Has(z, m)
  <2>1. y = z /\ Nodes(z) \ {m} = Nodes(z)
    BY <1>2, <1>3 DEF Rem, Has
  <2>. QED  BY <1>2, <2>1 DEF Holds
<1>4. CASE Has(z, m)
  <2>1. m \in Nodes(z)
    BY <1>2, <1>4 DEF Has
  <2>2. PICK x : x = Unlink(z, m, Scored(z)[m])
    OBVIOUS
  <2>3. /\ Listed(x, N - 1) /\ x.map = z.map
        /\ Scored(x) = [n \in Nodes(z) \ {m} |-> Scored(z)[n]]
    BY <1>1, <2>1, <2>2, UnlinkIs
  <2>4. PICK A, V, G : Linked(x, N - 1, A, V, G) /\ x.length = N - 1
    BY <2>3 DEF Listed
  <2>5. y = Forget(x, {m})
    BY <1>1, <1>4, <2>2 DEF Rem
  <2>6. Fields(x)
    BY <2>4 DEF Linked
  <2>7. PICK f : f = [n \in DOMAIN x.map \ {m} |-> x.map[n]]
    OBVIOUS
  <2>8. y = WithMap(x, f)
    BY <2>5, <2>7 DEF Forget, WithMap
  <2>10. SameList(y, x) /\ y.map = f /\ y.length = N - 1
    BY <2>4, <2>6, <2>8, WithMapIs
  <2>11. Linked(y, N - 1, A, V, G) /\ Scored(y) = Scored(x)
    BY <2>4, <2>10, SameListIs
  <2>12. f = Scored(x)
    BY <1>1, <1>2, <2>3, <2>7
  <2>. QED  BY <2>3, <2>10, <2>11, <2>12 DEF Whole, Holds
<1>. QED  BY <1>3, <1>4

(* A missing member counts as 0, and so does a score of 0.                 *)
LEMMA IncrByIs ==
  ASSUME NEW z, Whole(z), NEW m \in Members, NEW d \in Int, NEW h \in 1..MaxLevel,
         NEW y, y = IncrBy(z, d, m, h)
  PROVE  Holds(y, Mapped(Scored(z), m, IF m \in Nodes(z) THEN Scored(z)[m] + d ELSE d))
<1>1. z.map = Scored(z) /\ DOMAIN z.map = Nodes(z) /\ Scored(z) \in [Nodes(z) -> Int]
  BY WholeIs
<1>2. PICK s : s = IF m \in Nodes(z) THEN Scored(z)[m] + d ELSE d
  OBVIOUS
<1>3. s \in Int
  BY <1>1, <1>2
<1>4. y = Add(z, m, s, h)
  BY <1>1, <1>2 DEF IncrBy, Has
<1>. QED  BY <1>2, <1>3, <1>4, AddIs, LevelAssumption

(***************************************************************************)
(* A run of nodes that goes, one by one, with the path to the first.       *)
(***************************************************************************)

(* F is f up to n; F is f without j places from k on; the scores without   *)
(* them.                                                                   *)
Same(F, f, n) == \A p \in 0..n : F[p] = f[p]
Shifted(F, f, k, n, j) == \A p \in k..(n + 1) : F[p] = f[p + j]
LessRun(z, a, k, j) == [n \in Nodes(z) \ {a[p] : p \in k..(k + j - 1)} |-> Scored(z)[n]]

(* x is z without the j nodes from place k on.                             *)
Dropped(x, z, N, a, g, k, j) ==
  /\ \E A, V, G : /\ Linked(x, N - j, A, V, G)
                  /\ Same(A, a, k - 1) /\ Same(G, g, k - 1) /\ Shifted(A, a, k, N - j, j)
  /\ x.length = z.length /\ x.map = z.map /\ x.level <= z.level
  /\ Scored(x) = LessRun(z, a, k, j)

(* The path to place k is none the worse for what happens behind it.       *)
LEMMA StillLeads ==
  ASSUME NEW z, NEW a, NEW g, NEW k \in Nat \ {0}, NEW path, LeadsTo(z, a, g, k, path),
         NEW x, NEW A, NEW G, Same(A, a, k - 1), Same(G, g, k - 1), x.level \in Nat, z.level \in Nat,
         x.level <= z.level
  PROVE  LeadsTo(x, A, G, k, path)
<1>. SUFFICES ASSUME NEW i \in 1..x.level
              PROVE  \E p : LastUp(G, k - 1, i, p) /\ path[i].at = A[p]
  BY DEF LeadsTo
<1>1. i \in 1..z.level
  OBVIOUS
<1>2. PICK p : LastUp(g, k - 1, i, p) /\ path[i].at = a[p]
  BY <1>1 DEF LeadsTo
<1>3. p \in 0..(k - 1) /\ A[p] = a[p]
  BY <1>2 DEF LastUp, Same
<1>4. LastUp(G, k - 1, i, p)
  <2>1. \A r \in 0..(k - 1) : G[r] = g[r]
    BY DEF Same
  <2>2. \A r \in (p + 1)..(k - 1) : r \in 0..(k - 1)
    BY <1>3
  <2>. QED  BY <1>2, <1>3, <2>1, <2>2 DEF LastUp
<1>. QED  BY <1>2, <1>3, <1>4

(* One more node goes; the path to place k stays good.                     *)
LEMMA DropOne ==
  ASSUME NEW z, NEW N, NEW a, NEW v, NEW g, Linked(z, N, a, v, g), NEW k \in 1..N,
         NEW path, LeadsTo(z, a, g, k, path), NEW j \in 0..(N - k),
         NEW x, Dropped(x, z, N, a, g, k, j), NEW y, y = RemoveNode(x, a[k + j], path)
  PROVE  Dropped(y, z, N, a, g, k, j + 1)
<1>1. N \in Nat /\ z.level \in Nat /\ k \in Nat \ {0}
  BY LinkedTypes
<1>2. PICK A, V, G : /\ Linked(x, N - j, A, V, G)
                     /\ Same(A, a, k - 1) /\ Same(G, g, k - 1) /\ Shifted(A, a, k, N - j, j)
  BY DEF Dropped
<1>3. /\ x.length = z.length /\ x.map = z.map /\ x.level <= z.level
      /\ Scored(x) = LessRun(z, a, k, j)
  BY DEF Dropped
<1>4. x.level \in Nat
  BY <1>2, LinkedTypes
<1>5. LeadsTo(x, A, G, k, path)
  BY <1>1, <1>2, <1>3, <1>4, StillLeads
<1>6. k \in 1..(N - j) /\ A[k] = a[k + j]
  <2>1. k \in k..((N - j) + 1) /\ k \in 1..(N - j)
    BY <1>1
  <2>. QED  BY <1>2, <2>1 DEF Shifted
<1>15. PICK M : M = N - j
  OBVIOUS
<1>7. /\ \E B, W, H : /\ Linked(y, M - 1, B, W, H)
                      /\ IsDeleted(B, A, M, k) /\ IsDeleted(H, G, M - 1, k)
      /\ y.length = x.length /\ y.map = x.map /\ y.level <= x.level
      /\ Scored(y) = [n \in Nodes(x) \ {A[k]} |-> Scored(x)[n]]
  <2>1. Linked(x, M, A, V, G) /\ k \in 1..M /\ y = RemoveNode(x, A[k], path)
    BY <1>2, <1>6, <1>15
  <2>. QED  BY <1>5, <2>1, RemoveIs
<1>8. PICK B, W, H : /\ Linked(y, (N - j) - 1, B, W, H)
                     /\ IsDeleted(B, A, N - j, k) /\ IsDeleted(H, G, (N - j) - 1, k)
  BY <1>7, <1>15
<1>9. (N - j) - 1 = N - (j + 1) /\ y.level \in Nat
  BY <1>1, <1>8, LinkedTypes
<1>10. Same(B, a, k - 1) /\ Same(H, g, k - 1)
  BY <1>2, <1>8 DEF Same, IsDeleted
<1>11. Shifted(B, a, k, N - (j + 1), j + 1)
  <2>. SUFFICES ASSUME NEW p \in k..((N - (j + 1)) + 1)
                PROVE  B[p] = a[p + (j + 1)]
    BY DEF Shifted
  <2>1. p \in k..(N - j) /\ p + 1 \in k..((N - j) + 1) /\ (p + 1) + j = p + (j + 1)
    BY <1>1
  <2>2. B[p] = A[p + 1]
    BY <1>8, <2>1 DEF IsDeleted
  <2>3. A[p + 1] = a[(p + 1) + j]
    BY <1>2, <2>1 DEF Shifted
  <2>. QED  BY <2>1, <2>2, <2>3
<1>12. Scored(y) = LessRun(z, a, k, j + 1)
  <2>1. DOMAIN Scored(x) = Nodes(x)
    BY DEF Scored
  <2>2. PICK S : S = {a[p] : p \in k..(k + j - 1)}
    OBVIOUS
  <2>3. {a[p] : p \in k..(k + (j + 1) - 1)} = S \cup {a[k + j]}
    <3>1. \A p : p \in k..(k + (j + 1) - 1) <=> p \in k..(k + j - 1) \/ p = k + j
      BY <1>1
    <3>. QED  BY <2>2, <3>1
  <2>4. Scored(x) = [n \in Nodes(z) \ S |-> Scored(z)[n]]
    BY <1>3, <2>2 DEF LessRun
  <2>5. Nodes(x) = Nodes(z) \ S
    BY <2>1, <2>4
  <2>6. Scored(y) = [n \in Nodes(z) \ (S \cup {a[k + j]}) |-> Scored(z)[n]]
    BY <1>6, <1>7, <2>4, <2>5
  <2>. QED  BY <2>3, <2>6 DEF LessRun
<1>13. y.length = z.length /\ y.map = z.map /\ y.level <= z.level
  BY <1>1, <1>3, <1>4, <1>7, <1>9
<1>14. Linked(y, N - (j + 1), B, W, H)
  BY <1>8, <1>9
<1>. QED  BY <1>10, <1>11, <1>12, <1>13, <1>14 DEF Dropped

(* What the loop leaves after each of n nodes.                             *)
LeftIs(f, n, z, run, path) ==
  f = [i \in 0..n |-> IF i = 0 THEN z ELSE RemoveNode(f[i - 1], run[i], path)]

(* The recursive function of the loop is what it should be.                *)
LEMMA LeftExists ==
  ASSUME NEW L \in Nat, NEW z, NEW run, NEW path
  PROVE  \E f : LeftIs(f, L, z, run, path)
<1>. DEFINE G == {n \in 0..L : \E f : LeftIs(f, n, z, run, path)}
<1>1. 0 \in G
  <2>1. PICK f : f = [i \in 0..0 |-> z]
    OBVIOUS
  <2>2. LeftIs(f, 0, z, run, path)
    BY <2>1 DEF LeftIs
  <2>. QED  BY <2>2
<1>2. ASSUME NEW n \in 1..L, n - 1 \in G
      PROVE  n \in G
  <2>1. PICK f : LeftIs(f, n - 1, z, run, path)
    BY <1>2
  <2>2. PICK e : e = RemoveNode(f[n - 1], run[n], path)
    OBVIOUS
  <2>3. PICK h : h = [i \in 0..n |-> IF i = n THEN e ELSE f[i]]
    OBVIOUS
  <2>4. ASSUME NEW i \in 0..n
        PROVE  h[i] = IF i = 0 THEN z ELSE RemoveNode(h[i - 1], run[i], path)
    <3>1. \A q \in 0..(n - 1) : f[q] = IF q = 0 THEN z ELSE RemoveNode(f[q - 1], run[q], path)
      BY <2>1 DEF LeftIs
    <3>2. CASE i = n
      <4>1. n - 1 \in 0..n /\ n - 1 # n /\ n # 0 /\ i \in 0..n
        OBVIOUS
      <4>2. h[n - 1] = f[n - 1] /\ h[n] = e
        BY <2>3, <4>1
      <4>. QED  BY <2>2, <3>2, <4>1, <4>2
    <3>3. CASE i # n
      <4>1. i \in 0..(n - 1) /\ (i # 0 => i - 1 \in 0..n /\ i - 1 # n)
        BY <3>3
      <4>2. h[i] = f[i] /\ (i # 0 => h[i - 1] = f[i - 1])
        BY <2>3, <3>3, <4>1
      <4>. QED  BY <3>1, <4>1, <4>2
    <3>. QED  BY <3>2, <3>3
  <2>5. h = [i \in 0..n |-> IF i = 0 THEN z ELSE RemoveNode(h[i - 1], run[i], path)]
    <3>1. h = [i \in 0..n |-> h[i]]
      BY <2>3
    <3>. QED  BY <2>4, <3>1
  <2>6. LeftIs(h, n, z, run, path)
    BY <2>5 DEF LeftIs
  <2>. QED  BY <2>6
<1>3. \A i \in 0..L : i \in G
  <2>. HIDE DEF G
  <2>. QED  BY <1>1, <1>2, Reach
<1>. QED  BY <1>3

(* No node has gone, and then L have.                                      *)
LEMMA DropNone ==
  ASSUME NEW z, NEW N, NEW a, NEW v, NEW g, Linked(z, N, a, v, g), NEW k \in 1..(N + 1)
  PROVE  Dropped(z, z, N, a, g, k, 0) /\ LessRun(z, a, k, 0) = Scored(z)
<1>1. N \in Nat /\ z.level \in Nat
  BY LinkedTypes
<1>2. N - 0 = N /\ \A p \in k..(N + 1) : p + 0 = p
  BY <1>1
<1>3. Same(a, a, k - 1) /\ Same(g, g, k - 1) /\ Shifted(a, a, k, N, 0)
  BY <1>2 DEF Same, Shifted
<1>4. LessRun(z, a, k, 0) = Scored(z)
  <2>1. {a[p] : p \in k..(k + 0 - 1)} = {}
    <3>1. k..(k + 0 - 1) = {}
      BY <1>1
    <3>. QED  BY <3>1
  <2>2. LessRun(z, a, k, 0) = [n \in Nodes(z) |-> Scored(z)[n]]
    BY <2>1 DEF LessRun
  <2>. QED  BY <2>2 DEF Scored
<1>. QED  BY <1>1, <1>2, <1>3, <1>4 DEF Dropped

LEMMA RunLeft ==
  ASSUME NEW z, NEW N, NEW a, NEW v, NEW g, Linked(z, N, a, v, g),
         NEW k \in 1..(N + 1), NEW L \in 0..(N + 1 - k),
         NEW path, LeadsTo(z, a, g, k, path),
         NEW run, \A i \in 1..L : run[i] = a[k + (i - 1)],
         NEW f, LeftIs(f, L, z, run, path)
  PROVE  Dropped(f[L], z, N, a, g, k, L)
<1>1. N \in Nat
  BY LinkedTypes
<1>2. \A q \in 0..L : f[q] = IF q = 0 THEN z ELSE RemoveNode(f[q - 1], run[q], path)
  BY DEF LeftIs
<1>. DEFINE G == {i \in 0..L : Dropped(f[i], z, N, a, g, k, i)}
<1>3. 0 \in G
  <2>1. 0 \in 0..L /\ f[0] = z
    BY <1>1, <1>2
  <2>. QED  BY <2>1, DropNone
<1>4. ASSUME NEW i \in 1..L, i - 1 \in G
      PROVE  i \in G
  <2>1. k \in 1..N /\ i - 1 \in 0..(N - k) /\ i \in 0..L /\ i # 0 /\ (i - 1) + 1 = i /\ L \in Int
    BY <1>1
  <2>2. PICK j : j = i - 1
    OBVIOUS
  <2>3. PICK x : x = f[j]
    OBVIOUS
  <2>4. Dropped(x, z, N, a, g, k, j)
    BY <1>4, <2>2, <2>3
  <2>5. f[i] = RemoveNode(x, a[k + j], path)
    BY <1>2, <2>1, <2>2, <2>3
  <2>6. Dropped(f[i], z, N, a, g, k, j + 1)
    BY <2>1, <2>2, <2>4, <2>5, DropOne
  <2>. QED  BY <2>1, <2>2, <2>6
<1>5. \A i \in 0..L : i \in G
  <2>1. L \in Nat
    BY <1>1
  <2>. HIDE DEF G
  <2>. QED  BY <1>3, <1>4, <2>1, Reach
<1>6. L \in 0..L
  BY <1>1
<1>. QED  BY <1>5, <1>6

(* The loop takes out the run, the map forgets it, the length follows.     *)
LEMMA RemoveRunIs ==
  ASSUME NEW z, NEW N, NEW a, NEW v, NEW g, Linked(z, N, a, v, g),
         z.length = N, z.map = Scored(z),
         NEW k \in 1..(N + 1), NEW L \in 0..(N + 1 - k),
         NEW path, LeadsTo(z, a, g, k, path),
         NEW run, run = Piece(a, k, k + L - 1), NEW y, y = RemoveRun(z, run, path)
  PROVE  Holds(y, LessRun(z, a, k, L)) /\ Listed(y, N - L)
<1>1. N \in Nat /\ k \in Int /\ L \in Nat
  BY LinkedTypes
<1>2. Len(run) = L /\ DOMAIN run = 1..L /\ \A i \in 1..L : run[i] = a[k + i - 1]
  <2>1. Over(a, k, k + L - 1, {a[p] : p \in k..(k + L - 1)}) /\ k + L - 1 \in Int
    BY <1>1 DEF Over
  <2>2. (k + L - 1) - k + 1 = L /\ (k + L - 1 < k <=> L = 0)
    BY <1>1
  <2>3. PICK hi, R : hi = k + L - 1 /\ R = {a[p] : p \in k..(k + L - 1)}
    OBVIOUS
  <2>4. Over(a, k, hi, R) /\ hi \in Int /\ run = Piece(a, k, hi)
    BY <2>1, <2>3
  <2>5. /\ Len(Piece(a, k, hi)) = IF hi < k THEN 0 ELSE hi - k + 1
        /\ DOMAIN Piece(a, k, hi) = 1..(hi - k + 1)
        /\ \A i \in 1..(hi - k + 1) : Piece(a, k, hi)[i] = a[k + i - 1]
    BY <1>1, <2>4, Pieces
  <2>6. hi - k + 1 = L /\ (hi < k <=> L = 0)
    BY <1>1, <2>2, <2>3
  <2>. QED  BY <2>4, <2>5, <2>6
<1>3. \A i \in 1..L : run[i] = a[k + (i - 1)]
  <2>1. \A i \in 1..L : k + (i - 1) = k + i - 1
    BY <1>1
  <2>. QED  BY <1>2, <2>1
<1>. DEFINE left == CHOOSE f : f = [i \in 0..Len(run) |-> IF i = 0 THEN z ELSE RemoveNode(f[i - 1], run[i], path)]
<1>4. PICK e : e = left
  OBVIOUS
<1>5. LeftIs(e, L, z, run, path)
  <2>1. PICK f : LeftIs(f, L, z, run, path)
    BY <1>1, LeftExists
  <2>2. f = [i \in 0..Len(run) |-> IF i = 0 THEN z ELSE RemoveNode(f[i - 1], run[i], path)]
    BY <1>2, <2>1 DEF LeftIs
  <2>3. left = [i \in 0..Len(run) |-> IF i = 0 THEN z ELSE RemoveNode(left[i - 1], run[i], path)]
    BY <2>2
  <2>. HIDE DEF left
  <2>. QED  BY <1>2, <1>4, <2>3 DEF LeftIs
<1>6. y = Forget([left[Len(run)] EXCEPT !.length = @ - Len(run)], Range(run))
  BY Zenon DEF RemoveRun
<1>. HIDE DEF left
<1>7. PICK x : x = e[L]
  OBVIOUS
<1>8. Dropped(x, z, N, a, g, k, L)
  BY <1>3, <1>5, <1>7, RunLeft
<1>9. PICK A, V, G : Linked(x, N - L, A, V, G)
  BY <1>8 DEF Dropped
<1>10. x.length = N /\ x.map = Scored(z) /\ Scored(x) = LessRun(z, a, k, L)
  BY <1>8 DEF Dropped
<1>11. Range(run) = {a[p] : p \in k..(k + L - 1)}
  <2>1. Range(run) = {run[i] : i \in 1..L}
    BY <1>2 DEF Range
  <2>2. \A i \in 1..L : k + i - 1 \in k..(k + L - 1)
    BY <1>1
  <2>3. \A p \in k..(k + L - 1) : p - k + 1 \in 1..L /\ k + (p - k + 1) - 1 = p
    BY <1>1
  <2>4. ASSUME NEW i \in 1..L
        PROVE  run[i] \in {a[p] : p \in k..(k + L - 1)}
    BY <1>2, <2>2
  <2>5. ASSUME NEW p \in k..(k + L - 1)
        PROVE  a[p] \in {run[i] : i \in 1..L}
    <3>1. PICK i \in 1..L : k + i - 1 = p
      BY <2>3
    <3>. QED  BY <1>2, <3>1
  <2>. QED  BY <2>1, <2>4, <2>5
<1>12. PICK f : f = [m \in DOMAIN Scored(z) \ Range(run) |-> Scored(z)[m]]
  OBVIOUS
<1>13. f = LessRun(z, a, k, L)
  BY <1>11, <1>12 DEF LessRun, Scored
<1>14. y = [node |-> x.node, tail |-> x.tail, level |-> x.level, length |-> N - L, map |-> f]
  <2>1. x = [node |-> x.node, tail |-> x.tail, level |-> x.level, length |-> N, map |-> Scored(z)]
    BY <1>9, <1>10 DEF Linked, Fields
  <2>2. PICK w : w = [x EXCEPT !.length = @ - L]
    OBVIOUS
  <2>3. w = [node |-> x.node, tail |-> x.tail, level |-> x.level, length |-> N - L, map |-> Scored(z)]
    BY <1>10, <2>1, <2>2
  <2>4. y = Forget(w, Range(run))
    BY <1>2, <1>4, <1>6, <1>7, <2>2
  <2>5. y = [w EXCEPT !.map = f]
    <3>1. w.map = Scored(z)
      BY <2>3
    <3>. QED  BY <1>12, <2>4, <3>1 DEF Forget
  <2>. QED  BY <2>3, <2>5
<1>15. SameList(y, x) /\ y.map = f /\ y.length = N - L
  BY <1>14 DEF SameList, Fields
<1>16. Linked(y, N - L, A, V, G) /\ Scored(y) = Scored(x)
  BY <1>9, <1>15, SameListIs
<1>. QED  BY <1>10, <1>13, <1>15, <1>16 DEF Holds, Whole, Listed

(***************************************************************************)
(* The order, and pieces of it.                                            *)
(***************************************************************************)

(* What Ranking asks of an order.                                          *)
Ascending(o, f) ==
  \A i, j \in DOMAIN o : i < j =>
    LET m == o[i]
        n == o[j]
    IN f[m] < f[n] \/ (f[m] = f[n] /\ m < n)

(* f has the members, with their scores, from place lo up to place hi.     *)
Scoring(f, a, v, lo, hi) == DOMAIN f = {a[p] : p \in lo..hi} /\ \A p \in lo..hi : f[a[p]] = v[p]

(* Numbers up to n in a rising row of n are 1, 2, ... n: so an order is all*)
(* there is to Ranking.                                                    *)
LEMMA RisingIsIdentity ==
  ASSUME NEW n \in Nat, NEW q \in [1..n -> 1..n], \A i, j \in 1..n : i < j => q[i] < q[j]
  PROVE  \A i \in 1..n : q[i] = i
<1>. DEFINE F == {i \in 0..n : i >= 1 => q[i] >= i}
            B == {d \in 0..n : d < n => q[n - d] <= n - d}
<1>1. 0 \in F
  OBVIOUS
<1>2. ASSUME NEW i \in 1..n, i - 1 \in F
      PROVE  i \in F
  <2>1. q[i] \in 1..n /\ (i - 1 >= 1 => q[i - 1] \in 1..n /\ q[i - 1] < q[i] /\ q[i - 1] >= i - 1)
    <3>1. i - 1 >= 1 => i - 1 \in 1..n /\ i - 1 < i
      OBVIOUS
    <3>. QED  BY <1>2, <3>1
  <2>. QED  BY <2>1
<1>3. 0 \in B
  <2>1. n > 0 => q[n - 0] \in 1..n
    OBVIOUS
  <2>. QED  BY <2>1
<1>4. ASSUME NEW d \in 1..n, d - 1 \in B
      PROVE  d \in B
  <2>. SUFFICES ASSUME d < n PROVE q[n - d] <= n - d
    OBVIOUS
  <2>1. PICK i : i = n - d
    OBVIOUS
  <2>2. i \in 1..n /\ i + 1 \in 1..n /\ n - (d - 1) = i + 1 /\ d - 1 < n
    BY <2>1
  <2>3. q[i] \in 1..n /\ q[i + 1] \in 1..n /\ q[i] < q[i + 1] /\ q[i + 1] <= i + 1
    BY <1>4, <2>2
  <2>. QED  BY <2>1, <2>3
<1>5. (\A i \in 0..n : i \in F) /\ (\A d \in 0..n : d \in B)
  <2>. HIDE DEF F, B
  <2>. QED  BY <1>1, <1>2, <1>3, <1>4, Reach
<1>6. ASSUME NEW i \in 1..n
      PROVE  q[i] = i
  <2>1. i \in 0..n /\ i >= 1 /\ n - i \in 0..n /\ n - i < n /\ n - (n - i) = i /\ q[i] \in 1..n
    OBVIOUS
  <2>2. q[i] >= i
    BY <1>5, <2>1
  <2>3. q[n - (n - i)] <= n - (n - i)
    BY <1>5, <2>1
  <2>. QED  BY <2>1, <2>2, <2>3
<1>. QED  BY <1>6

(* How many places there are from lo to hi.                                *)
Size(lo, hi) == IF hi < lo THEN 0 ELSE hi - lo + 1

(* A piece has as many members as places.                                  *)
LEMMA PieceSize ==
  ASSUME NEW z, NEW N, NEW a, NEW v, NEW g, Linked(z, N, a, v, g),
         NEW lo \in Nat \ {0}, NEW hi \in Nat, hi <= N, NEW S, S = {a[p] : p \in lo..hi}
  PROVE  IsFiniteSet(S) /\ Cardinality(S) = Size(lo, hi)
<1>1. N \in Nat
  BY LinkedTypes
<1>2. IsFiniteSet(lo..hi) /\ Cardinality(lo..hi) = IF hi < lo THEN 0 ELSE hi - lo + 1
  BY FS_Interval
<1>3. PICK f : f = [p \in lo..hi |-> a[p]]
  OBVIOUS
<1>4. f \in Bijection(lo..hi, S)
  <2>1. f \in [lo..hi -> S] /\ \A y \in S : \E p \in lo..hi : f[p] = y
    BY <1>3
  <2>2. ASSUME NEW p \in lo..hi, NEW q \in lo..hi, f[p] = f[q]
        PROVE  p = q
    <3>1. p \in 0..(N + 1) /\ q \in 0..(N + 1)
      BY <1>1
    <3>2. a[p] = a[q]
      BY <1>3, <2>2
    <3>. QED  BY <3>1, <3>2, PlacesDiffer, LinkedTypes
  <2>. QED  BY <2>1, <2>2, Zenon DEF Bijection, Injection, Surjection, IsInjective
<1>5. ExistsBijection(lo..hi, S)
  BY <1>4 DEF ExistsBijection
<1>6. IsFiniteSet(S) /\ Cardinality(S) = Cardinality(lo..hi)
  BY <1>2, <1>5, FS_Bijection
<1>. QED  BY <1>2, <1>3, <1>6 DEF Size

LEMMA SameCardinality == \A S : Promise!Cardinality(S) = Cardinality(S)
  BY DEF Promise!Cardinality, Cardinality

(* The ranking of the members of a piece is the piece.                     *)
LEMMA RankingIs ==
  ASSUME NEW z, NEW N, NEW a, NEW v, NEW g, Linked(z, N, a, v, g),
         NEW lo \in Nat \ {0}, NEW hi \in Nat, hi <= N, NEW f, Scoring(f, a, v, lo, hi)
  PROVE  Promise!Ranking(f) = Piece(a, lo, hi)
<1>1. PICK n : n = IF hi < lo THEN 0 ELSE hi - lo + 1
  OBVIOUS
<1>2. n \in Nat /\ N \in Nat /\ \A i \in 1..n : lo + i - 1 \in lo..hi
  BY <1>1, LinkedTypes
<1>3. DOMAIN f = {a[p] : p \in lo..hi} /\ Cardinality(DOMAIN f) = n
  <2>2. DOMAIN f = {a[p] : p \in lo..hi}
    BY DEF Scoring
  <2>1. Cardinality(DOMAIN f) = Size(lo, hi)
    BY <2>2, PieceSize
  <2>. QED  BY <1>1, <2>1, <2>2 DEF Size
<1>4. \A p \in lo..hi : p \in 1..N /\ f[a[p]] = v[p]
  BY <1>2 DEF Scoring
<1>5. /\ \A p \in lo..hi : a[p] \in Nat /\ v[p] \in Int
      /\ \A p, q \in lo..hi : p < q => a[p] # a[q] /\ (v[p] < v[q] \/ (v[p] = v[q] /\ a[p] < a[q]))
  <2>1. Placed(N, a, v, g) /\ (\A p \in 1..N : a[p] \in Nat) /\ v \in [0..N -> Int]
    BY LinkedTypes
  <2>2. \A p, q \in 1..N : p < q => a[p] # a[q] /\ (v[p] < v[q] \/ (v[p] = v[q] /\ a[p] < a[q]))
    BY <2>1 DEF Placed, Precedes
  <2>3. \A p \in lo..hi : p \in 0..N
    BY <1>4
  <2>. QED  BY <1>4, <2>1, <2>2, <2>3
<1>. DEFINE Good(o) == o \in [1..n -> DOMAIN f] /\ Ascending(o, f)
<1>6. PICK s : s = Piece(a, lo, hi)
  OBVIOUS
<1>7. s \in [1..n -> DOMAIN f] /\ \A i \in 1..n : s[i] = a[lo + i - 1]
  <2>1. hi - lo + 1 = n \/ (hi - lo + 1 < 1 /\ n = 0)
    BY <1>1
  <2>2. 1..(hi - lo + 1) = 1..n
    BY <1>2, <2>1
  <2>3. s = [i \in 1..n |-> a[lo + i - 1]]
    BY <1>6, <2>2 DEF Piece
  <2>4. \A i \in 1..n : a[lo + i - 1] \in DOMAIN f
    BY <1>2, <1>3
  <2>. QED  BY <2>3, <2>4
<1>8. Good(s)
  <2>1. ASSUME NEW i \in 1..n, NEW j \in 1..n, i < j
        PROVE  f[s[i]] < f[s[j]] \/ (f[s[i]] = f[s[j]] /\ s[i] < s[j])
    <3>1. PICK p, q : p = lo + i - 1 /\ q = lo + j - 1
      OBVIOUS
    <3>2. s[i] = a[p] /\ s[j] = a[q]
      BY <1>7, <3>1
    <3>3. p \in lo..hi /\ q \in lo..hi /\ p < q
      BY <1>2, <2>1, <3>1
    <3>. QED  BY <1>4, <1>5, <3>2, <3>3
  <2>. QED  BY <1>7, <2>1 DEF Ascending
<1>9. ASSUME NEW o, Good(o)
      PROVE  o = s
  <2>1. o \in [1..n -> DOMAIN f] /\ DOMAIN o = 1..n
    BY <1>9
  <2>2. PICK q : q = [i \in 1..n |-> CHOOSE x \in 1..n : o[i] = a[lo + x - 1]]
    OBVIOUS
  <2>3. ASSUME NEW i \in 1..n
        PROVE  q[i] \in 1..n /\ o[i] = a[lo + q[i] - 1]
    <3>1. PICK p \in lo..hi : o[i] = a[p]
      BY <1>3, <2>1
    <3>2. p - lo + 1 \in 1..n /\ lo + (p - lo + 1) - 1 = p
      BY <1>1
    <3>3. \E x \in 1..n : o[i] = a[lo + x - 1]
      BY <3>1, <3>2
    <3>. QED  BY <2>2, <3>3
  <2>4. q \in [1..n -> 1..n]
    BY <2>2, <2>3
  <2>5. ASSUME NEW i \in 1..n, NEW j \in 1..n, i < j
        PROVE  q[i] < q[j]
    <3>1. f[o[i]] < f[o[j]] \/ (f[o[i]] = f[o[j]] /\ o[i] < o[j])
      BY <1>9, <2>1, <2>5 DEF Ascending
    <3>2. PICK x, y : x = lo + q[i] - 1 /\ y = lo + q[j] - 1
      OBVIOUS
    <3>3. x \in lo..hi /\ y \in lo..hi /\ o[i] = a[x] /\ o[j] = a[y]
      BY <1>2, <2>3, <3>2
    <3>4. v[x] < v[y] \/ (v[x] = v[y] /\ a[x] < a[y])
      BY <1>4, <3>1, <3>3
    <3>5. x < y
      BY <1>5, <3>3, <3>4
    <3>. QED  BY <2>3, <3>2, <3>5
  <2>6. \A i \in 1..n : q[i] = i
    BY <1>2, <2>4, <2>5, RisingIsIdentity
  <2>7. \A i \in 1..n : o[i] = s[i]
    BY <1>7, <2>3, <2>6
  <2>8. o = [i \in 1..n |-> o[i]] /\ s = [i \in 1..n |-> s[i]]
    BY <1>7, <2>1
  <2>. QED  BY <2>7, <2>8
<1>10. Promise!Ranking(f) = CHOOSE o \in [1..n -> DOMAIN f] : Ascending(o, f)
  BY <1>3, SameCardinality, Zenon DEF Promise!Ranking, Ascending
<1>. QED  BY <1>6, <1>8, <1>9, <1>10

(***************************************************************************)
(* removeRangeByScore.                                                     *)
(***************************************************************************)

(* y is z without the members S.                                           *)
Removed(y, z, S) ==
  Holds(y, Promise!Without(Scored(z), S)) /\ y.length = z.length - Cardinality(S)

(* No node goes, all of them go, or a run of them.                         *)
LEMMA NothingRemoved ==
  ASSUME NEW z, Whole(z), z.length \in Nat
  PROVE  Removed(z, z, {})
<1>1. Cardinality({}) = 0
  BY FS_EmptySet
<1>2. Promise!Without(Scored(z), {}) = Scored(z)
  BY DEF Promise!Without, Scored
<1>. QED  BY <1>1, <1>2 DEF Removed, Holds

LEMMA AllRemoved ==
  ASSUME NEW z, NEW N, NEW a, NEW v, NEW g, Linked(z, N, a, v, g), z.length = N
  PROVE  Removed(EmptySet, z, Nodes(z))
<1>1. N \in Nat /\ Nodes(z) = {a[p] : p \in 1..N} /\ 1 \in Nat \ {0} /\ N <= N
  BY LinkedTypes, LinkedNodes
<1>2. Cardinality(Nodes(z)) = Size(1, N)
  BY <1>1, PieceSize
<1>3. Whole(EmptySet) /\ Nodes(EmptySet) = {} /\ EmptySet.length = 0
  BY EmptyIs DEF EmptySet
<1>4. Scored(EmptySet) = Promise!Without(Scored(z), Nodes(z))
  <2>1. DOMAIN Scored(z) = Nodes(z)
    BY DEF Scored
  <2>2. Scored(EmptySet) = [n \in {} |-> EmptySet.node[n].value]
    BY <1>3 DEF Scored
  <2>3. Promise!Without(Scored(z), Nodes(z)) = [n \in {} |-> Scored(z)[n]]
    BY <2>1 DEF Promise!Without
  <2>. QED  BY <2>2, <2>3
<1>. QED  BY <1>1, <1>2, <1>3, <1>4 DEF Removed, Holds, Size

LEMMA RunRemoved ==
  ASSUME NEW z, NEW N, NEW a, NEW v, NEW g, Linked(z, N, a, v, g),
         z.length = N, z.map = Scored(z),
         NEW k \in 1..(N + 1), NEW L \in 0..(N + 1 - k),
         NEW path, LeadsTo(z, a, g, k, path),
         NEW run, run = Piece(a, k, k + L - 1), NEW y, y = RemoveRun(z, run, path),
         NEW S, S = {a[p] : p \in k..(k + L - 1)}
  PROVE  Removed(y, z, S)
<1>1. N \in Nat
  BY LinkedTypes
<1>2. Holds(y, LessRun(z, a, k, L)) /\ Listed(y, N - L)
  BY RemoveRunIs
<1>3. PICK hi : hi = k + L - 1
  OBVIOUS
<1>4. hi \in Nat /\ hi <= N /\ k \in Nat \ {0} /\ S = {a[p] : p \in k..hi} /\ (hi < k => L = 0)
      /\ hi - k + 1 = L /\ L \in Nat
  BY <1>1, <1>3
<1>5. Cardinality(S) = Size(k, hi)
  BY <1>4, PieceSize
<1>6. Cardinality(S) = L
  BY <1>4, <1>5 DEF Size
<1>7. LessRun(z, a, k, L) = Promise!Without(Scored(z), S)
  BY DEF LessRun, Promise!Without, Scored
<1>. QED  BY <1>2, <1>6, <1>7 DEF Removed, Listed

(* The scores rise along the list.                                         *)
LEMMA Rising ==
  ASSUME NEW z, NEW N, NEW a, NEW v, NEW g, Linked(z, N, a, v, g)
  PROVE  \A p, q \in 1..N : p <= q => v[p] \in Int /\ v[q] \in Int /\ v[p] <= v[q]
<1>1. Placed(N, a, v, g) /\ v \in [0..N -> Int] /\ N \in Nat
  BY LinkedTypes
<1>2. \A p, q \in 1..N : p < q => v[p] < v[q] \/ (v[p] = v[q] /\ a[p] < a[q])
  BY <1>1 DEF Placed, Precedes
<1>3. \A p \in 1..N : v[p] \in Int
  BY <1>1
<1>. QED  BY <1>2, <1>3

(* The ends of a list that is not empty.                                   *)
LEMMA EndsAre ==
  ASSUME NEW z, NEW N, NEW a, NEW v, NEW g, Linked(z, N, a, v, g)
  PROVE  /\ First(z) = a[1]
         /\ N # 0 => /\ z.node[First(z)].value = v[1] /\ z.tail = a[N]
                     /\ z.node[z.tail].value = v[N] /\ v[1] \in Int /\ v[N] \in Int
<1>1. N \in Nat /\ v \in [0..N -> Int] /\ a[0] = HeadNode /\ 0 \in 0..N /\ 0 + 1 = 1
  BY LinkedTypes
<1>2. First(z) = a[1]
  BY <1>1, LowestLink DEF First
<1>3. ASSUME N # 0
      PROVE  /\ z.node[a[1]].value = v[1] /\ z.tail = a[N]
             /\ z.node[a[N]].value = v[N] /\ v[1] \in Int /\ v[N] \in Int
  <2>1. 1 \in 0..N /\ N \in 0..N
    BY <1>1, <1>3
  <2>2. z.node[a[1]].value = v[1]
    BY <2>1, NodeAtPlace
  <2>3. z.node[a[N]].value = v[N]
    BY <2>1, NodeAtPlace
  <2>4. z.tail = a[N]
    BY <1>3 DEF Linked
  <2>. QED  BY <1>1, <2>1, <2>2, <2>3, <2>4
<1>. QED  BY <1>2, <1>3

(* The path to the last node with a score below s.                         *)
LeadsBelow(z, N, a, v, g, s, path, k) ==
  /\ k \in 0..N /\ \A p \in 1..N : v[p] < s <=> p <= k
  /\ LeadsTo(z, a, g, k + 1, path)
  /\ Link(z, path[1].at, 1).to = a[k + 1]

LEMMA LowerPath ==
  ASSUME NEW z, NEW N, NEW a, NEW v, NEW g, Linked(z, N, a, v, g), NEW s \in Int,
         NEW path, path = Path(z, Stops(Lower(z, s)))
  PROVE  \E k : LeadsBelow(z, N, a, v, g, s, path, k)
<1>1. N \in Nat /\ 0 \in 0..N
  BY LinkedTypes
<1>2. PICK k : UpTo(z, N, a, k, Lower(z, s)) /\ \A p \in 1..N : v[p] < s <=> p <= k
  BY LowerCut
<1>3. k \in 0..N /\ (IF 0 <= k THEN k ELSE 0) = k /\ (k + 1) - 1 = k
  BY <1>1, <1>2 DEF UpTo
<1>4. CutAt(z, N, a, 0, k, Stops(Lower(z, s)))
  BY <1>1, <1>2, <1>3, CutOfNodes
<1>5. /\ \A i \in 1..z.level : \E p \in 0..k : LastUp(g, k, i, p) /\ path[i] = Stop(a, 0, p)
      /\ Link(z, path[1].at, 1).to = a[k + 1]
  BY <1>4, PathIs
<1>6. LeadsTo(z, a, g, k + 1, path)
  <2>1. \A p : Stop(a, 0, p).at = a[p]
    BY DEF Stop
  <2>. QED  BY <1>3, <1>5, <2>1 DEF LeadsTo
<1>. QED  BY <1>2, <1>3, <1>5, <1>6 DEF LeadsBelow

(* removeRangeByScore removes the members with scores from min to max.     *)
LEMMA RemRangeByScoreIs ==
  ASSUME NEW z, Whole(z), NEW min \in Int, NEW max \in Int,
         NEW y, y = RemRangeByScore(z, min, max)
  PROVE  Removed(y, z, Promise!WithScore(Scored(z), min, max))
<1>1. PICK N, a, v, g : Linked(z, N, a, v, g) /\ z.length = N /\ z.map = Scored(z)
  BY DEF Whole
<1>10. Linked(z, N, a, v, g)
  BY <1>1
<1>2. N \in Nat /\ Nodes(z) = {a[p] : p \in 1..N} /\ v \in [0..N -> Int]
  <2>1. N \in Nat /\ v \in [0..N -> Int]
    BY <1>10, LinkedTypes
  <2>. QED  BY <1>10, <2>1, LinkedNodes
<1>3. PICK S : S = Promise!WithScore(Scored(z), min, max)
  OBVIOUS
<1>4. S = {a[p] : p \in {q \in 1..N : min <= v[q] /\ v[q] <= max}}
  <2>1. S = {m \in Nodes(z) : min <= z.node[m].value /\ z.node[m].value <= max}
    BY <1>3 DEF Promise!WithScore, Scored
  <2>2. \A p \in 1..N : z.node[a[p]].value = v[p]
    <3>1. \A p \in 1..N : p \in 0..N
      BY <1>2
    <3>. QED  BY <1>1, <3>1, NodeAtPlace
  <2>. QED  BY <1>2, <2>1, <2>2
<1>5. /\ \A p, q \in 1..N : p <= q => v[p] \in Int /\ v[q] \in Int /\ v[p] <= v[q]
      /\ N # 0 => /\ z.node[First(z)].value = v[1] /\ z.tail = a[N]
                  /\ z.node[z.tail].value = v[N] /\ v[1] \in Int /\ v[N] \in Int
  BY <1>1, Rising, EndsAre
<1>6. CASE N = 0
  <2>1. y = z
    BY <1>1, <1>6 DEF RemRangeByScore
  <2>2. S = {}
    BY <1>4, <1>6
  <2>. QED  BY <1>1, <1>2, <1>3, <2>1, <2>2, NothingRemoved
<1>7. CASE N # 0 /\ min <= v[1] /\ max >= v[N]
  <2>1. y = EmptySet
    BY <1>1, <1>2, <1>5, <1>7 DEF RemRangeByScore
  <2>2. \A p \in 1..N : min <= v[p] /\ v[p] <= max
    <3>1. 1 \in 1..N /\ N \in 1..N
      BY <1>2, <1>7
    <3>. QED  BY <1>5, <1>7, <3>1
  <2>3. S = Nodes(z)
    BY <1>2, <1>4, <2>2
  <2>. QED  BY <1>1, <1>3, <2>1, <2>3, AllRemoved
<1>8. CASE N # 0 /\ ~(min <= v[1] /\ max >= v[N])
  <2>1. PICK path : path = Path(z, Stops(Lower(z, min)))
    OBVIOUS
  <2>2. PICK k \in 0..N : /\ \A p \in 1..N : v[p] < min <=> p <= k
                          /\ LeadsTo(z, a, g, k + 1, path)
                          /\ Link(z, path[1].at, 1).to = a[k + 1]
    <3>1. PICK l : LeadsBelow(z, N, a, v, g, min, path, l)
      BY <1>10, <2>1, LowerPath
    <3>. QED  BY <3>1 DEF LeadsBelow
  <2>3. PICK low : low = {n \in Nodes(z) : z.node[n].value <= max}
    OBVIOUS
  <2>4. PICK l : UpTo(z, N, a, l, low) /\ \A p \in 1..N : v[p] <= max <=> p <= l
    BY <1>10, <2>3, LowerCut
  <2>5. l \in 0..N
    BY <2>4 DEF UpTo
  <2>6. PICK run : run = Walk(z, a[k + 1], low, low)
    OBVIOUS
  <2>7. run = Piece(a, k + 1, l)
    <3>1. k + 1 \in 1..(N + 1) /\ ~(k + 1 < 1) /\ 1 \in Nat \ {0} /\ l \in 0..l
      BY <1>2, <2>5
    <3>2. \A p \in 1..l : a[p] \in low <=> 1 <= p /\ p <= l
      <4>1. \A p \in 1..l : p \in 1..N
        BY <1>2, <2>5
      <4>. QED  BY <2>4, <4>1 DEF UpTo
    <3>3. PICK b : b = k + 1
      OBVIOUS
    <3>5. Stretched(a, b, l, low, 1, l)
      <4>1. \A p \in b..l : p \in 1..l
        BY <3>1, <3>3
      <4>. QED  BY <3>1, <3>2, <4>1 DEF Stretched
    <3>4. Walk(z, a[b], low, low) = Piece(a, IF b < 1 THEN 1 ELSE b, l)
      BY <1>10, <2>4, <3>1, <3>3, <3>5, WalkIs
    <3>. QED  BY <2>6, <3>1, <3>3, <3>4
  <2>8. y = RemoveRun(z, run, path)
    <3>1. run = Walk(z, Link(z, path[1].at, 1).to, low, low)
      BY <2>2, <2>6
    <3>2. z.length # 0 /\ z.length > 0
      BY <1>1, <1>2, <1>8
    <3>3. ~(min <= z.node[First(z)].value /\ max >= z.node[z.tail].value)
      BY <1>5, <1>8
    <3>. QED  BY <2>1, <2>3, <3>1, <3>2, <3>3, Zenon DEF RemRangeByScore
  <2>9. PICK b, L : b = k + 1 /\ L = IF l < k THEN 0 ELSE l - k
    OBVIOUS
  <2>10. b \in 1..(N + 1) /\ L \in 0..(N + 1 - b)
    BY <1>2, <2>2, <2>5, <2>9
  <2>11. run = Piece(a, b, b + L - 1)
    <3>1. CASE l < k
      <4>1. l < b /\ b + L - 1 < b /\ b \in Int /\ l \in Int /\ b + L - 1 \in Int
        BY <1>2, <2>5, <2>9, <3>1
      <4>. QED  BY <2>7, <2>9, <4>1, EmptyPiece
    <3>2. CASE ~(l < k)
      <4>1. b + L - 1 = l
        BY <1>2, <2>5, <2>9, <3>2
      <4>. QED  BY <2>7, <2>9, <4>1
    <3>. QED  BY <3>1, <3>2
  <2>12. S = {a[p] : p \in b..(b + L - 1)}
    <3>1. \A p : p \in b..(b + L - 1) <=> p \in {q \in 1..N : min <= v[q] /\ v[q] <= max}
      <4>1. \A p \in 1..N : min <= v[p] <=> ~(p <= k)
        BY <1>2, <2>2
      <4>2. \A p : p \in b..(b + L - 1) <=> p \in 1..N /\ ~(p <= k) /\ p <= l
        BY <1>2, <2>5, <2>9, SMTT(30)
      <4>. QED  BY <2>4, <4>1, <4>2
    <3>. QED  BY <1>4, <3>1
  <2>13. LeadsTo(z, a, g, b, path)
    BY <2>2, <2>9
  <2>14. Removed(y, z, S)
    BY <1>1, <2>8, <2>10, <2>11, <2>12, <2>13, RunRemoved
  <2>. QED  BY <1>3, <2>14
<1>. QED  BY <1>2, <1>5, <1>6, <1>7, <1>8

(***************************************************************************)
(* removeRangeByRank.                                                      *)
(***************************************************************************)

(* The path that NodeAt and RemRangeByRank take.                           *)
ToIndex(z, e) == Path(z, [at : Nodes(z), gone : 0..e])

(* The stop at an index of the list, which is also how long the way is.    *)
LEMMA IndexPath ==
  ASSUME NEW z, NEW N, NEW a, NEW v, NEW g, Linked(z, N, a, v, g), NEW e \in 0..N,
         NEW path, path = ToIndex(z, e)
  PROVE  /\ path[1].at = a[e] /\ path[1].gone = e
         /\ LeadsTo(z, a, g, e + 1, path)
         /\ Link(z, path[1].at, 1).to = a[e + 1]
<1>1. CutAt(z, N, a, 0, e, [at : Nodes(z), gone : 0..e])
  BY CutOfIndex
<1>2. /\ \A i \in 1..z.level : \E p \in 0..e : LastUp(g, e, i, p) /\ path[i] = Stop(a, 0, p)
      /\ path[1].at = a[e] /\ path[1].gone = e
      /\ Link(z, path[1].at, 1).to = a[e + 1]
  BY <1>1, PathIs DEF ToIndex
<1>3. LeadsTo(z, a, g, e + 1, path)
  <2>1. \A p : Stop(a, 0, p).at = a[p]
    BY DEF Stop
  <2>2. PICK k : k = e + 1
    OBVIOUS
  <2>3. k - 1 = e
    BY <2>2, LinkedTypes
  <2>4. ASSUME NEW i \in 1..z.level
        PROVE  \E p : LastUp(g, k - 1, i, p) /\ path[i].at = a[p]
    <3>1. PICK p \in 0..e : LastUp(g, e, i, p) /\ path[i] = Stop(a, 0, p)
      BY <1>2
    <3>. QED  BY <2>1, <2>3, <3>1
  <2>5. LeadsTo(z, a, g, k, path)
    BY <2>4 DEF LeadsTo
  <2>. QED  BY <2>2, <2>5
<1>. QED  BY <1>2, <1>3

(* All the nodes from a place on.                                          *)
LEMMA RestIs ==
  ASSUME NEW z, NEW N, NEW a, NEW v, NEW g, Linked(z, N, a, v, g), NEW p \in 1..(N + 1)
  PROVE  Walk(z, a[p], Nodes(z), Nodes(z)) = Piece(a, p, N)
<1>5. PICK S : S = Nodes(z)
  OBVIOUS
<1>1. N \in Nat /\ Nodes(z) = {a[q] : q \in 1..N}
  BY LinkedTypes, LinkedNodes
<1>2. UpTo(z, N, a, N, S)
  BY <1>1, <1>5 DEF UpTo
<1>3. 1 \in Nat \ {0} /\ N \in 0..N /\ ~(p < 1) /\ \A q \in 1..N : a[q] \in S <=> 1 <= q /\ q <= N
  BY <1>1, <1>5
<1>6. \A q \in 1..N : a[q] \in S <=> 1 <= q /\ q <= N
  BY <1>3
<1>4. Walk(z, a[p], S, S) = Piece(a, IF p < 1 THEN 1 ELSE p, N)
  <2>1. Stretched(a, p, N, S, 1, N)
    <3>1. \A q \in p..N : q \in 1..N
      BY <1>1
    <3>. QED  BY <1>3, <1>6, <3>1 DEF Stretched
  <2>. QED  BY <1>2, <2>1, WalkIs
<1>. QED  BY <1>3, <1>4, <1>5

(* The members behind the first b places, up to place e.                   *)
Stretch(a, N, b, e) == {a[p] : p \in {q \in 1..N : b < q /\ q <= e}}

(* What a slice of the order is.                                           *)
LEMMA SliceIs ==
  ASSUME NEW z, NEW N, NEW a, NEW v, NEW g, Linked(z, N, a, v, g), z.length = N,
         NEW x \in Int, NEW y \in Int
  PROVE  Promise!Slice(Scored(z), x, y) =
           Stretch(a, N, FromStart(z, x), FromStart(z, y))
<1>1. N \in Nat /\ Nodes(z) = {a[p] : p \in 1..N} /\ 1 \in Nat \ {0} /\ N <= N /\ DOMAIN Scored(z) = Nodes(z)
  BY LinkedTypes, LinkedNodes DEF Scored
<1>2. Scoring(Scored(z), a, v, 1, N)
  <2>1. \A p \in 1..N : z.node[a[p]].value = v[p]
    <3>1. \A p \in 1..N : p \in 0..N
      BY <1>1
    <3>. QED  BY <3>1, NodeAtPlace
  <2>. QED  BY <1>1, <2>1 DEF Scoring, Scored
<1>3. Promise!Ranking(Scored(z)) = Piece(a, 1, N)
  BY <1>1, <1>2, RankingIs
<1>4. Cardinality(Nodes(z)) = Size(1, N)
  BY <1>1, PieceSize
<1>5. Promise!Cardinality(DOMAIN Scored(z)) = N
  BY <1>1, <1>4, SameCardinality DEF Size
<1>6. \A i \in 0..(N - 1) : Piece(a, 1, N)[i + 1] = a[i + 1]
  BY <1>1 DEF Piece
<1>7. PICK b, e : b = FromStart(z, x) /\ e = FromStart(z, y)
  OBVIOUS
<1>8. b = (IF x < 0 THEN N + x ELSE x) /\ e = (IF y < 0 THEN N + y ELSE y) /\ b \in Int /\ e \in Int
  BY <1>1, <1>7 DEF FromStart
<1>9. Promise!Slice(Scored(z), x, y) = {Piece(a, 1, N)[i + 1] : i \in {j \in 0..(N - 1) : b <= j /\ j < e}}
  BY <1>3, <1>5, <1>8, Zenon DEF Promise!Slice
<1>10. ASSUME NEW i \in 0..(N - 1), b <= i, i < e
       PROVE  \E p \in 1..N : b < p /\ p <= e /\ Piece(a, 1, N)[i + 1] = a[p]
  <2>1. i + 1 \in 1..N /\ b < i + 1 /\ i + 1 <= e
    BY <1>1, <1>8, <1>10
  <2>. QED  BY <1>6, <2>1
<1>11. ASSUME NEW p \in 1..N, b < p, p <= e
       PROVE  \E i \in 0..(N - 1) : b <= i /\ i < e /\ Piece(a, 1, N)[i + 1] = a[p]
  <2>1. PICK i : i = p - 1
    OBVIOUS
  <2>2. i \in 0..(N - 1) /\ b <= i /\ i < e /\ i + 1 = p
    BY <1>1, <1>8, <1>11, <2>1
  <2>. QED  BY <1>6, <2>2
<1>. QED  BY <1>7, <1>9, <1>10, <1>11 DEF Stretch

(* removeRangeByRank removes the slice.                                    *)
LEMMA RemRangeByRankIs ==
  ASSUME NEW z, Whole(z), NEW start \in Int, NEW end \in Int,
         NEW y, y = RemRangeByRank(z, start, end)
  PROVE  Removed(y, z, Promise!Slice(Scored(z), start, end))
<1>1. PICK N, a, v, g : Linked(z, N, a, v, g) /\ z.length = N /\ z.map = Scored(z)
  BY DEF Whole
<1>2. Linked(z, N, a, v, g)
  BY <1>1
<1>3. N \in Nat
  BY <1>2, LinkedTypes
<1>4. Nodes(z) = {a[p] : p \in 1..N}
  BY <1>2, LinkedNodes
<1>5. PICK b, e : b = FromStart(z, start) /\ e = FromStart(z, end)
  OBVIOUS
<1>6. b \in Int /\ e \in Int
  BY <1>1, <1>3, <1>5 DEF FromStart
<1>7. PICK S : S = Promise!Slice(Scored(z), start, end)
  OBVIOUS
<1>8. S = {a[p] : p \in {q \in 1..N : b < q /\ q <= e}}
  <2>1. Promise!Slice(Scored(z), start, end) = Stretch(a, N, FromStart(z, start), FromStart(z, end))
    BY <1>1, <1>2, SliceIs
  <2>. QED  BY <1>5, <1>7, <2>1 DEF Stretch
<1>9. PICK from, to : from = AtLeastZero(b) /\ to = IF e > N THEN N ELSE e
  OBVIOUS
<1>10. from = (IF b < 0 THEN 0 ELSE b) /\ from \in Nat /\ to \in Int
  BY <1>3, <1>6, <1>9 DEF AtLeastZero
<1>11. CASE N = 0 \/ from > e \/ from >= N
  <2>4. ~(z.length > 0 /\ from = 0 /\ to = N)
    BY <1>1, <1>3, <1>6, <1>9, <1>10, <1>11
  <2>1. y = z
    BY <1>1, <1>5, <1>9, <1>11, <2>4, Zenon DEF RemRangeByRank
  <2>2. {q \in 1..N : b < q /\ q <= e} = {}
    BY <1>3, <1>6, <1>10, <1>11
  <2>3. S = {}
    BY <1>8, <2>2
  <2>. QED  BY <1>1, <1>3, <1>7, <2>1, <2>3, NothingRemoved
<1>12. CASE ~(N = 0 \/ from > e \/ from >= N) /\ from = 0 /\ to = N
  <2>1. N > 0
    BY <1>3, <1>12
  <2>2. y = EmptySet
    BY <1>1, <1>5, <1>9, <1>12, <2>1, Zenon DEF RemRangeByRank
  <2>3. {q \in 1..N : b < q /\ q <= e} = 1..N
    BY <1>3, <1>6, <1>9, <1>10, <1>12
  <2>4. S = Nodes(z)
    BY <1>4, <1>8, <2>3
  <2>. QED  BY <1>1, <1>2, <1>7, <2>2, <2>4, AllRemoved
<1>13. CASE ~(N = 0 \/ from > e \/ from >= N) /\ ~(from = 0 /\ to = N)
  <2>17. PICK path : path = ToIndex(z, from)
    OBVIOUS
  <2>1. path = Path(z, [at : Nodes(z), gone : 0..from])
    BY <2>17 DEF ToIndex
  <2>2. from \in 0..N /\ from <= to /\ to <= N /\ from < N
    BY <1>3, <1>6, <1>9, <1>10, <1>13
  <2>3. /\ path[1].gone = from
        /\ LeadsTo(z, a, g, from + 1, path)
        /\ Link(z, path[1].at, 1).to = a[from + 1]
    BY <1>2, <2>17, <2>2, IndexPath
  <2>4. PICK k, L : k = from + 1 /\ L = to - from
    OBVIOUS
  <2>5. k \in 1..(N + 1) /\ L \in 0..(N + 1 - k) /\ L \in Nat /\ k \in Int /\ k + L - 1 = to
    BY <1>3, <1>10, <2>2, <2>4
  <2>6. PICK rest : rest = Walk(z, Link(z, path[1].at, 1).to, Nodes(z), Nodes(z))
    OBVIOUS
  <2>7. rest = Piece(a, k, N)
    BY <1>2, <2>3, <2>4, <2>5, <2>6, RestIs
  <2>8. Over(a, k, N, Nodes(z))
    BY <1>3, <1>4, <2>5 DEF Over
  <2>9. Len(rest) = N - k + 1
    <3>1. Len(Piece(a, k, N)) = IF N < k THEN 0 ELSE N - k + 1
      BY <1>3, <2>5, <2>8, Pieces
    <3>. QED  BY <1>3, <2>2, <2>4, <2>5, <2>7, <3>1, SMTT(40)
  <2>10. PICK most, run : /\ most = AtLeastZero(to - path[1].gone)
                          /\ run = SubSeq(rest, 1, IF most > Len(rest) THEN Len(rest) ELSE most)
    OBVIOUS
  <2>11. most = L /\ (IF most > Len(rest) THEN Len(rest) ELSE most) = L
    BY <1>3, <2>2, <2>3, <2>4, <2>5, <2>9, <2>10 DEF AtLeastZero
  <2>12. run = Piece(a, k, k + L - 1)
    <3>1. 1 \in Nat \ {0} /\ L \in Int /\ L <= N - k + 1 /\ k + 1 - 1 = k
      BY <1>3, <2>5
    <3>2. PICK H : H = k + L - 1
      OBVIOUS
    <3>4. Cuts(k, N, 1, L, k, H)
      BY <2>5, <3>1, <3>2 DEF Cuts
    <3>3. SubSeq(Piece(a, k, N), 1, L) = Piece(a, k, H)
      <4>1. k \in Int /\ N \in Int
        BY <1>3, <2>5
      <4>. QED  BY <2>8, <3>4, <4>1, PieceOfPiece
    <3>. QED  BY <2>7, <2>10, <2>11, <3>2, <3>3
  <2>13. y = RemoveRun(z, run, path)
    <3>1. z.length > 0 /\ z.length # 0
      BY <1>1, <1>3, <1>13
    <3>. QED  BY <1>1, <1>5, <1>9, <1>13, <2>1, <2>6, <2>10, <3>1, Zenon DEF RemRangeByRank
  <2>14. S = {a[p] : p \in k..(k + L - 1)}
    <3>1. \A p : p \in k..(k + L - 1) <=> p \in {q \in 1..N : b < q /\ q <= e}
      BY <1>3, <1>6, <1>9, <1>10, <2>2, <2>4, <2>5
    <3>. QED  BY <1>8, <3>1
  <2>15. LeadsTo(z, a, g, k, path)
    BY <2>3, <2>4
  <2>16. Removed(y, z, S)
    BY <1>1, <1>2, <2>5, <2>12, <2>13, <2>14, <2>15, RunRemoved
  <2>. QED  BY <1>7, <2>16
<1>. QED  BY <1>11, <1>12, <1>13

(***************************************************************************)
(* What is read by position.                                               *)
(***************************************************************************)

(* The ranking of all scores is the list, and so is what toArray gives.    *)
LEMMA OrderIs ==
  ASSUME NEW z, NEW N, NEW a, NEW v, NEW g, Linked(z, N, a, v, g)
  PROVE  Promise!Ranking(Scored(z)) = Piece(a, 1, N) /\ Scoring(Scored(z), a, v, 1, N)
<1>1. N \in Nat /\ Nodes(z) = {a[p] : p \in 1..N} /\ 1 \in Nat \ {0} /\ N <= N /\ DOMAIN Scored(z) = Nodes(z)
  BY LinkedTypes, LinkedNodes DEF Scored
<1>2. Scoring(Scored(z), a, v, 1, N)
  <2>1. \A p \in 1..N : z.node[a[p]].value = v[p]
    <3>1. \A p \in 1..N : p \in 0..N
      BY <1>1
    <3>. QED  BY <3>1, NodeAtPlace
  <2>. QED  BY <1>1, <2>1 DEF Scoring, Scored
<1>. QED  BY <1>1, <1>2, RankingIs

LEMMA ListIs ==
  ASSUME NEW z, NEW N, NEW a, NEW v, NEW g, Linked(z, N, a, v, g)
  PROVE  MembersInOrder(z) = Piece(a, 1, N)
<1>1. N \in Nat /\ 1 \in 1..(N + 1)
  BY LinkedTypes
<1>2. First(z) = a[1]
  BY EndsAre
<1>3. Walk(z, a[1], Nodes(z), Nodes(z)) = Piece(a, 1, N)
  BY <1>1, RestIs
<1>. QED  BY <1>2, <1>3 DEF MembersInOrder

(* The nodes before a member, and the member, are the places up to its own.*)
LEMMA RankIs ==
  ASSUME NEW z, NEW N, NEW a, NEW v, NEW g, Linked(z, N, a, v, g), z.map = Scored(z),
         NEW p \in 1..N, a[p] # 0
  PROVE  Rank(z, a[p]) = p - 1
<1>1. N \in Nat /\ v \in [0..N -> Int] /\ 0 \in 0..N /\ \A q \in 1..N : a[q] \in Nat
  BY LinkedTypes
<1>2. Nodes(z) = {a[q] : q \in 1..N}
  BY LinkedNodes
<1>3. p \in 0..N /\ v[p] \in Int
  BY <1>1
<1>4. PICK m : m = a[p]
  OBVIOUS
<1>5. z.node[m].value = v[p] /\ m \in Nodes(z) /\ m \in Nat
  BY <1>1, <1>2, <1>3, <1>4, NodeAtPlace
<1>6. Has(z, m) /\ z.map[m] = v[p]
  BY <1>5 DEF Has, Scored
<1>7. PICK S : S = Before(z, v[p], m) \cup {m}
  OBVIOUS
<1>8. PICK j : /\ UpTo(z, N, a, j, Before(z, v[p], m))
               /\ \A q \in 1..N : v[q] < v[p] \/ (v[q] = v[p] /\ a[q] < m) <=> q <= j
  BY <1>3, <1>5, BeforeCut
<1>9. \A q \in 1..N : a[q] \in S <=> q <= p
  <2>. SUFFICES ASSUME NEW q \in 1..N PROVE a[q] \in S <=> q <= p
    OBVIOUS
  <2>1. a[q] \in Before(z, v[p], m) <=> v[q] < v[p] \/ (v[q] = v[p] /\ a[q] < m)
    BY <1>8 DEF UpTo
  <2>2. v[q] \in Int /\ a[q] \in Nat
    <3>1. q \in 0..N
      BY <1>1
    <3>. QED  BY <1>1, <3>1
  <2>3. Placed(N, a, v, g)
    BY LinkedTypes
  <2>4. CASE q < p
    <3>1. Precedes(a, v, q, p)
      BY <2>3, <2>4 DEF Placed
    <3>. QED  BY <1>1, <1>4, <1>7, <2>1, <2>4, <3>1 DEF Precedes
  <2>5. CASE q = p
    BY <1>1, <1>4, <1>7, <2>5
  <2>6. CASE p < q
    <3>1. Precedes(a, v, p, q) /\ a[p] # a[q]
      BY <2>3, <2>6 DEF Placed
    <3>2. ~(v[q] < v[p] \/ (v[q] = v[p] /\ a[q] < m))
      BY <1>3, <1>4, <1>5, <2>2, <3>1 DEF Precedes
    <3>. QED  BY <1>1, <1>4, <1>7, <2>1, <2>6, <3>1, <3>2
  <2>. QED  BY <1>1, <2>4, <2>5, <2>6
<1>10. UpTo(z, N, a, p, S)
  <2>1. Before(z, v[p], m) \subseteq Nodes(z)
    BY <1>8 DEF UpTo
  <2>. QED  BY <1>3, <1>5, <1>7, <1>9, <2>1 DEF UpTo
<1>11. CutAt(z, N, a, 0, p, Stops(S))
  <2>1. (IF 0 <= p THEN p ELSE 0) = p
    BY <1>1
  <2>. QED  BY <1>1, <1>10, <2>1, CutOfNodes
<1>12. Path(z, Stops(S))[1].at = m /\ Path(z, Stops(S))[1].gone = p
  BY <1>4, <1>11, PathIs
<1>. QED  BY <1>4, <1>6, <1>7, <1>12 DEF Rank

(* _get finds the node at an index.                                        *)
LEMMA NodeAtIs ==
  ASSUME NEW z, NEW N, NEW a, NEW v, NEW g, Linked(z, N, a, v, g), NEW i \in 0..(N - 1)
  PROVE  NodeAt(z, i) = a[i + 1]
<1>1. PICK e : e = i + 1
  OBVIOUS
<1>2. e \in 0..N
  BY <1>1, LinkedTypes
<1>3. PICK path : path = ToIndex(z, e)
  OBVIOUS
<1>4. path[1].at = a[e] /\ path[1].gone = e
  BY <1>2, <1>3, IndexPath
<1>. QED  BY <1>1, <1>3, <1>4 DEF NodeAt, ToIndex

(* The ends of a range, as range cuts them.                                *)
FirstOf(from) == from + 1
LastOf(N, to) == IF to >= N THEN N ELSE to + 1
Forward(from, to) == from \in Nat /\ to \in Nat /\ from <= to
RangeIs(z, N, a, from, to) ==
  SetRange(z, from, to) = IF from >= N THEN <<>> ELSE Piece(a, FirstOf(from), LastOf(N, to))

(* The places of a range that starts at from >= 0, and does not end before *)
(* it, but does start in the list.                                         *)
LEMMA SetRangeIs ==
  ASSUME NEW z, NEW N, NEW a, NEW v, NEW g, Linked(z, N, a, v, g), z.length = N,
         NEW from, NEW to, Forward(from, to)
  PROVE  RangeIs(z, N, a, from, to)
<1>1. N \in Nat /\ from \in Nat /\ to \in Nat /\ from <= to
  BY LinkedTypes DEF Forward
<1>5. PICK last : last = IF to >= N THEN N ELSE to + 1
  OBVIOUS
<1>6. last = LastOf(N, to)
  BY <1>5 DEF LastOf
<1>7. PICK k : k = from + 1
  OBVIOUS
<1>8. k = FirstOf(from)
  BY <1>7 DEF FirstOf
<1>2. FromStart(z, from) = from /\ FromStart(z, to) = to /\ AtLeastZero(from) = from
  BY <1>1 DEF FromStart, AtLeastZero
<1>3. CASE from >= N
  BY <1>1, <1>2, <1>3 DEF SetRange, RangeIs
<1>4. CASE ~(from >= N)
  <2>1. PICK first : first = IF from > 0 THEN NodeAt(z, from) ELSE First(z)
    OBVIOUS
  <2>2. first = a[from + 1]
    <3>1. from \in 0..(N - 1)
      BY <1>1, <1>4
    <3>2. NodeAt(z, from) = a[from + 1]
      BY <3>1, NodeAtIs
    <3>3. First(z) = a[1]
      BY EndsAre
    <3>4. CASE from > 0
      BY <2>1, <3>2, <3>4
    <3>5. CASE from = 0
      BY <2>1, <3>3, <3>5
    <3>. QED  BY <1>1, <3>4, <3>5
  <2>3. PICK H : H = last
    OBVIOUS
  <2>4. k \in 1..(N + 1) /\ k \in Int /\ H \in Int /\ k <= H /\ H <= N
    BY <1>1, <1>4, <1>5, <1>7, <2>3
  <2>5. Walk(z, first, Nodes(z), Nodes(z)) = Piece(a, k, N)
    BY <1>7, <2>2, <2>4, RestIs
  <2>6. PICK n : n = (IF to >= N THEN N - 1 ELSE to) - from + 1
    OBVIOUS
  <2>7. Cuts(k, N, 1, n, k, H)
    BY <1>1, <1>4, <1>5, <1>7, <2>3, <2>6 DEF Cuts
  <2>8. Over(a, k, N, Nodes(z))
    <3>1. \A p \in k..N : p \in 1..N
      BY <2>4
    <3>. QED  BY <3>1, LinkedNodes DEF Over
  <2>9. SubSeq(Piece(a, k, N), 1, n) = Piece(a, k, H)
    <3>1. k \in Int /\ N \in Int
      BY <1>1, <2>4
    <3>. QED  BY <2>7, <2>8, <3>1, PieceOfPiece
  <2>10. SetRange(z, from, to) = SubSeq(Walk(z, first, Nodes(z), Nodes(z)), 1, n)
    <3>1. ~(N = 0 \/ from > to \/ from >= N)
      BY <1>1, <1>4
    <3>. QED  BY <1>2, <1>4, <2>1, <2>6, <3>1 DEF SetRange
  <2>. QED  BY <1>4, <1>6, <1>8, <2>3, <2>5, <2>9, <2>10 DEF RangeIs
<1>. QED  BY <1>3, <1>4 DEF RangeIs

(* What ZRANGE should answer.                                              *)
RangeOf(s, n, x, y) ==
  SubSeq(s, (IF x >= 0 THEN x ELSE IF n + x < 0 THEN 0 ELSE n + x) + 1, IF y = -1 \/ y >= n THEN n ELSE y + 1)

(* An end that counts from the front, or is the last member.               *)
EndsIn(y) == y \in Int /\ y >= -1

Ranged(z, N, a, x, y) == ZRange(z, x, y) = RangeOf(Piece(a, 1, N), N, x, y)

LEMMA ZRangeIs ==
  ASSUME NEW z, NEW N, NEW a, NEW v, NEW g, Linked(z, N, a, v, g), z.length = N,
         NEW x \in Int, NEW y, EndsIn(y)
  PROVE  Ranged(z, N, a, x, y)
<1>1. N \in Nat /\ y \in Int /\ y >= -1
  BY LinkedTypes DEF EndsIn
<1>. SUFFICES ZRange(z, x, y) = RangeOf(Piece(a, 1, N), N, x, y)
  BY DEF Ranged
<1>2. PICK from, to, E : /\ from = IF x >= 0 THEN x ELSE IF N + x < 0 THEN 0 ELSE N + x
                         /\ to = IF y < 0 THEN N ELSE y
                         /\ E = IF y = -1 \/ y >= N THEN N ELSE y + 1
  OBVIOUS
<1>3. from \in Nat /\ to \in Nat /\ E \in 0..N /\ E = IF to >= N THEN N ELSE to + 1
  BY <1>1, <1>2
<1>4. from = AtLeastZero(FromStart(z, x)) /\ to = (IF y < 0 THEN AtLeastZero(z.length + 1 + y) ELSE y)
  BY <1>1, <1>2 DEF AtLeastZero, FromStart
<1>5. PICK k : k = from + 1
  OBVIOUS
<1>6. RangeOf(Piece(a, 1, N), N, x, y) = Piece(a, k, E)
  <2>1. Over(a, 1, N, Nodes(z))
    BY <1>1, LinkedNodes DEF Over
  <2>2. Cuts(1, N, k, E, k, E)
    BY <1>1, <1>3, <1>5 DEF Cuts
  <2>3. SubSeq(Piece(a, 1, N), k, E) = Piece(a, k, E)
    <3>1. 1 \in Int /\ N \in Int
      BY <1>1
    <3>. QED  BY <2>1, <2>2, <3>1, PieceOfPiece
  <2>. QED  BY <1>2, <1>5, <2>3 DEF RangeOf
<1>7. CASE from > to \/ from > N
  <2>1. ZRange(z, x, y) = <<>>
    BY <1>4, <1>7 DEF ZRange
  <2>2. E < k /\ k \in Int /\ E \in Int
    BY <1>1, <1>3, <1>5, <1>7
  <2>. QED  BY <1>6, <2>1, <2>2, EmptyPiece
<1>8. CASE ~(from > to \/ from > N)
  <2>1. ZRange(z, x, y) = SetRange(z, from, to)
    BY <1>4, <1>8 DEF ZRange
  <2>2. SetRange(z, from, to) = IF from >= N THEN <<>> ELSE Piece(a, k, E)
    <3>1. from <= to
      BY <1>3, <1>8
    <3>2. SetRange(z, from, to) = IF from >= N THEN <<>> ELSE Piece(a, FirstOf(from), LastOf(N, to))
      <4>1. Forward(from, to)
        BY <1>3, <3>1 DEF Forward
      <4>2. RangeIs(z, N, a, from, to)
        BY <4>1, SetRangeIs
      <4>. QED  BY <4>2 DEF RangeIs
    <3>. QED  BY <1>3, <1>5, <3>2 DEF LastOf, FirstOf
  <2>3. CASE from >= N
    <3>1. E < k /\ k \in Int /\ E \in Int
      BY <1>1, <1>3, <1>5, <2>3
    <3>. QED  BY <1>6, <2>1, <2>2, <2>3, <3>1, EmptyPiece
  <2>4. CASE ~(from >= N)
    BY <1>5, <1>6, <2>1, <2>2, <2>4
  <2>. QED  BY <2>3, <2>4
<1>. QED  BY <1>7, <1>8

(***************************************************************************)
(* The places of a range of scores.                                        *)
(***************************************************************************)

(* A score is in the range.                                                *)
FromMin(s, min, minEx) == IF minEx THEN min < s ELSE min <= s
ToMax(s, max, maxEx) == IF maxEx THEN s < max ELSE s <= max

(* The places with the scores of a range are those from lo to hi.          *)
Bounds(N, v, min, max, minEx, maxEx, lo, hi) ==
  /\ lo \in 1..(N + 1) /\ hi \in 0..N
  /\ \A p \in 1..N : /\ FromMin(v[p], min, minEx) <=> lo <= p
                     /\ ToMax(v[p], max, maxEx) <=> p <= hi

(* The same for a range with both ends in it.                              *)
Closed(N, v, min, max, lo, hi) ==
  /\ lo \in 1..(N + 1) /\ hi \in 0..N
  /\ \A p \in 1..N : (min <= v[p] <=> lo <= p) /\ (v[p] <= max <=> p <= hi)

(* Between, of any set.                                                    *)
BetweenOf(z, min, max, minEx, maxEx) ==
  LET inside == {m \in DOMAIN z.map :
                   /\ IF minEx THEN min < z.map[m] ELSE min <= z.map[m]
                   /\ IF maxEx THEN z.map[m] < max ELSE z.map[m] <= max}
  IN Promise!Ranking([m \in inside |-> z.map[m]])

(* The nodes not above a score are the places up to some place.            *)
AtMost(z, s) == {n \in Nodes(z) : z.node[n].value <= s}

LEMMA AtMostCut ==
  ASSUME NEW z, NEW N, NEW a, NEW v, NEW g, Linked(z, N, a, v, g), NEW s \in Int
  PROVE  \E k \in 0..N : UpTo(z, N, a, k, AtMost(z, s)) /\ \A p \in 1..N : v[p] <= s <=> p <= k
<1>1. N \in Nat /\ Nodes(z) = {a[p] : p \in 1..N}
  BY LinkedTypes, LinkedNodes
<1>2. \A p \in 1..N : a[p] \in Nodes(z) /\ z.node[a[p]].value = v[p] /\ v[p] \in Int
  <2>1. \A p \in 1..N : p \in 0..N /\ p <= p
    BY <1>1
  <2>2. \A p \in 1..N : z.node[a[p]].value = v[p]
    BY <2>1, NodeAtPlace
  <2>3. \A p \in 1..N : v[p] \in Int
    BY <2>1, Rising
  <2>. QED  BY <1>1, <2>2, <2>3
<1>3. PICK S : S = AtMost(z, s)
  OBVIOUS
<1>4. S \in SUBSET Nodes(z) /\ \A p \in 1..N : a[p] \in S <=> v[p] <= s
  BY <1>2, <1>3 DEF AtMost
<1>5. \A p, q \in 1..N : p < q /\ a[q] \in S => a[p] \in S
  <2>1. \A p, q \in 1..N : p < q => v[p] <= v[q]
    <3>1. \A p, q \in 1..N : p < q => p <= q
      BY <1>1
    <3>. QED  BY <3>1, Rising
  <2>. QED  BY <1>2, <1>4, <2>1
<1>6. PICK k : UpTo(z, N, a, k, S)
  BY <1>4, <1>5, DownSet
<1>7. k \in 0..N /\ \A p \in 1..N : v[p] <= s <=> p <= k
  BY <1>4, <1>6 DEF UpTo
<1>. QED  BY <1>3, <1>6, <1>7

(* Every range has its bounds, and its members in order are those between  *)
(* them.                                                                   *)
LEMMA BoundsExist ==
  ASSUME NEW z, NEW N, NEW a, NEW v, NEW g, Linked(z, N, a, v, g),
         NEW min \in Int, NEW max \in Int, NEW minEx \in BOOLEAN, NEW maxEx \in BOOLEAN
  PROVE  \E lo, hi : Bounds(N, v, min, max, minEx, maxEx, lo, hi)
<1>1. N \in Nat /\ \A p \in 1..N : v[p] \in Int
  <2>1. \A p \in 1..N : p <= p
    BY LinkedTypes
  <2>2. \A p \in 1..N : v[p] \in Int
    BY <2>1, Rising
  <2>. QED  BY <2>2, LinkedTypes
<1>2. PICK k1 : UpTo(z, N, a, k1, Lower(z, min)) /\ \A p \in 1..N : v[p] < min <=> p <= k1
  BY LowerCut
<1>3. PICK k2 \in 0..N : \A p \in 1..N : v[p] <= min <=> p <= k2
  BY AtMostCut
<1>4. PICK k3 : UpTo(z, N, a, k3, Lower(z, max)) /\ \A p \in 1..N : v[p] < max <=> p <= k3
  BY LowerCut
<1>5. PICK k4 \in 0..N : \A p \in 1..N : v[p] <= max <=> p <= k4
  BY AtMostCut
<1>6. k1 \in 0..N /\ k2 \in 0..N /\ k3 \in 0..N /\ k4 \in 0..N
  BY <1>2, <1>3, <1>4, <1>5 DEF UpTo
<1>7. PICK lo : lo = (IF minEx THEN k2 ELSE k1) + 1
  OBVIOUS
<1>8. PICK hi : hi = IF maxEx THEN k3 ELSE k4
  OBVIOUS
<1>9. lo \in 1..(N + 1) /\ hi \in 0..N
  BY <1>1, <1>6, <1>7, <1>8
<1>10. \A p \in 1..N : FromMin(v[p], min, minEx) <=> lo <= p
  BY <1>1, <1>2, <1>3, <1>6, <1>7 DEF FromMin
<1>11. \A p \in 1..N : ToMax(v[p], max, maxEx) <=> p <= hi
  BY <1>1, <1>4, <1>5, <1>6, <1>8 DEF ToMax
<1>. QED  BY <1>9, <1>10, <1>11 DEF Bounds

LEMMA BetweenIs ==
  ASSUME NEW z, NEW N, NEW a, NEW v, NEW g, Linked(z, N, a, v, g), z.map = Scored(z),
         NEW min, NEW max, NEW minEx, NEW maxEx, NEW lo, NEW hi,
         Bounds(N, v, min, max, minEx, maxEx, lo, hi)
  PROVE  BetweenOf(z, min, max, minEx, maxEx) = Piece(a, lo, hi)
<1>1. N \in Nat /\ lo \in Nat \ {0} /\ hi \in Nat /\ hi <= N
  BY LinkedTypes DEF Bounds
<1>2. DOMAIN z.map = {a[p] : p \in 1..N} /\ \A p \in 1..N : z.map[a[p]] = v[p]
  <2>1. DOMAIN z.map = Nodes(z) /\ Nodes(z) = {a[p] : p \in 1..N}
    BY LinkedNodes DEF Scored
  <2>2. \A p \in 1..N : p \in 0..N
    BY <1>1
  <2>3. \A p \in 1..N : z.node[a[p]].value = v[p]
    BY <2>2, NodeAtPlace
  <2>. QED  BY <2>1, <2>3 DEF Scored
<1>3. PICK inside : inside = {m \in DOMAIN z.map :
                   /\ IF minEx THEN min < z.map[m] ELSE min <= z.map[m]
                   /\ IF maxEx THEN z.map[m] < max ELSE z.map[m] <= max}
  OBVIOUS
<1>4. inside = {m \in DOMAIN z.map : FromMin(z.map[m], min, minEx) /\ ToMax(z.map[m], max, maxEx)}
  BY <1>3, Zenon DEF FromMin, ToMax
<1>5. inside = {a[p] : p \in lo..hi}
  <2>1. \A p \in 1..N : a[p] \in inside <=> lo <= p /\ p <= hi
    <3>1. \A p \in 1..N : a[p] \in inside <=> FromMin(v[p], min, minEx) /\ ToMax(v[p], max, maxEx)
      BY <1>2, <1>4
    <3>. QED  BY <3>1, Zenon DEF Bounds
  <2>2. \A p \in lo..hi : p \in 1..N /\ lo <= p /\ p <= hi
    BY <1>1
  <2>3. \A p \in 1..N : lo <= p /\ p <= hi => p \in lo..hi
    BY <1>1
  <2>4. inside \subseteq {a[p] : p \in 1..N}
    BY <1>2, <1>4
  <2>. QED  BY <2>1, <2>2, <2>3, <2>4
<1>6. PICK f : f = [m \in inside |-> z.map[m]]
  OBVIOUS
<1>7. Scoring(f, a, v, lo, hi)
  <2>1. \A p \in lo..hi : p \in 1..N
    BY <1>1
  <2>. QED  BY <1>2, <1>5, <1>6, <2>1 DEF Scoring
<1>8. Promise!Ranking(f) = Piece(a, lo, hi)
  BY <1>1, <1>7, RankingIs
<1>. QED  BY <1>3, <1>6, <1>8 DEF BetweenOf

(***************************************************************************)
(* rangeByScore.                                                           *)
(***************************************************************************)

(* What Bounds says, of one place.                                         *)
LEMMA InBounds ==
  ASSUME NEW z, NEW N, NEW a, NEW v, NEW g, Linked(z, N, a, v, g),
         NEW min \in Int, NEW max \in Int, NEW minEx \in BOOLEAN, NEW maxEx \in BOOLEAN,
         NEW lo, NEW hi, Bounds(N, v, min, max, minEx, maxEx, lo, hi)
  PROVE  /\ N \in Nat /\ lo \in 1..(N + 1) /\ hi \in 0..N
         /\ \A p \in 1..N : /\ lo <= p => min <= v[p]
                            /\ p <= hi => v[p] <= max
                            /\ ~minEx /\ min <= v[p] => lo <= p
                            /\ ~maxEx /\ v[p] <= max => p <= hi
<1>1. N \in Nat /\ lo \in 1..(N + 1) /\ hi \in 0..N
  BY LinkedTypes DEF Bounds
<1>2. \A p \in 1..N : v[p] \in Int
  <2>1. \A p \in 1..N : p <= p
    BY <1>1
  <2>. QED  BY <2>1, Rising
<1>3. \A p \in 1..N : /\ FromMin(v[p], min, minEx) <=> lo <= p
                      /\ ToMax(v[p], max, maxEx) <=> p <= hi
  BY DEF Bounds
<1>4. \A p \in 1..N : (lo <= p => min <= v[p]) /\ (~minEx /\ min <= v[p] => lo <= p)
  BY <1>1, <1>2, <1>3 DEF FromMin
<1>5. \A p \in 1..N : (p <= hi => v[p] <= max) /\ (~maxEx /\ v[p] <= max => p <= hi)
  BY <1>1, <1>2, <1>3 DEF ToMax
<1>. QED  BY <1>1, <1>4, <1>5

(* A range that meets nothing, or everything.                              *)
LEMMA MissesIs ==
  ASSUME NEW z, NEW N, NEW a, NEW v, NEW g, Linked(z, N, a, v, g), N # 0,
         NEW min \in Int, NEW max \in Int, NEW minEx \in BOOLEAN, NEW maxEx \in BOOLEAN,
         NEW lo, NEW hi, Bounds(N, v, min, max, minEx, maxEx, lo, hi), Misses(z, min, max)
  PROVE  hi < lo
<1>1. /\ N \in Nat /\ lo \in 1..(N + 1) /\ hi \in 0..N
      /\ \A p \in 1..N : (lo <= p => min <= v[p]) /\ (p <= hi => v[p] <= max)
  BY InBounds
<1>2. z.node[First(z)].value = v[1] /\ z.node[z.tail].value = v[N] /\ v[1] \in Int /\ v[N] \in Int
  BY EndsAre
<1>3. \A p \in 1..N : v[p] \in Int /\ v[1] <= v[p] /\ v[p] <= v[N]
  <2>1. 1 \in 1..N /\ N \in 1..N /\ \A p \in 1..N : 1 <= p /\ p <= N
    BY <1>1
  <2>. QED  BY <2>1, Rising
<1>4. max < min \/ min > v[N] \/ max < v[1]
  BY <1>2 DEF Misses
<1>. SUFFICES ASSUME lo <= hi PROVE FALSE
  BY <1>1
<1>5. lo \in 1..N /\ lo <= lo
  BY <1>1
<1>6. min <= v[lo] /\ v[lo] <= max /\ v[lo] \in Int /\ v[1] <= v[lo] /\ v[lo] <= v[N]
  BY <1>1, <1>3, <1>5
<1>. QED  BY <1>2, <1>4, <1>6

(* A range that holds the whole list.                                      *)
LEMMA CoversIs ==
  ASSUME NEW z, NEW N, NEW a, NEW v, NEW g, Linked(z, N, a, v, g), N # 0,
         NEW min, NEW max, NEW lo, NEW hi, Closed(N, v, min, max, lo, hi)
  PROVE  Covers(z, min, max) <=> lo = 1 /\ hi = N
<1>1. /\ N \in Nat /\ lo \in 1..(N + 1) /\ hi \in 0..N
      /\ \A p \in 1..N : (min <= v[p] <=> lo <= p) /\ (v[p] <= max <=> p <= hi)
  BY LinkedTypes DEF Closed
<1>2. z.node[First(z)].value = v[1] /\ z.node[z.tail].value = v[N]
  BY EndsAre
<1>3. 1 \in 1..N /\ N \in 1..N
  BY <1>1
<1>4. (min <= v[1] <=> lo <= 1) /\ (v[N] <= max <=> N <= hi)
  BY <1>1, <1>3
<1>5. Covers(z, min, max) <=> min <= v[1] /\ v[N] <= max
  BY <1>2 DEF Covers
<1>. QED  BY <1>1, <1>4, <1>5

LEMMA ClosedIs ==
  ASSUME NEW N, NEW v, NEW min, NEW max, NEW minEx, NEW maxEx, NEW lo, NEW hi,
         Bounds(N, v, min, max, minEx, maxEx, lo, hi), ~minEx, ~maxEx
  PROVE  Closed(N, v, min, max, lo, hi)
BY DEF Bounds, Closed, FromMin, ToMax

(* The last score is not below min.                                        *)
Reaches(z, N, min) == N # 0 /\ min <= z.node[z.tail].value

(* The first node of a range that does not miss the list.                  *)
LEMMA FirstFromIs ==
  ASSUME NEW z, NEW N, NEW a, NEW v, NEW g, Linked(z, N, a, v, g),
         NEW min \in Int, Reaches(z, N, min)
  PROVE  \E k \in 0..(N - 1) : FirstFrom(z, min) = a[k + 1] /\ \A p \in 1..N : v[p] < min <=> p <= k
<1>2. PICK path : path = Path(z, Stops(Lower(z, min)))
  OBVIOUS
<1>3. PICK k : LeadsBelow(z, N, a, v, g, min, path, k)
  BY <1>2, LowerPath
<1>1. N \in Nat /\ N \in 1..N /\ z.node[z.tail].value = v[N] /\ v[N] \in Int /\ z.tail # Null
  <2>1. N # 0 /\ N \in Nat
    BY LinkedTypes DEF Reaches
  <2>2. z.tail = a[N] /\ z.node[z.tail].value = v[N] /\ v[N] \in Int
    BY <2>1, EndsAre
  <2>3. N \in 1..N
    BY <2>1
  <2>. QED  BY <2>1, <2>2, <2>3, LinkedTypes
<1>7. k \in 0..N /\ (\A p \in 1..N : v[p] < min <=> p <= k) /\ Link(z, path[1].at, 1).to = a[k + 1]
  BY <1>3 DEF LeadsBelow
<1>4. ~(v[N] < min)
  BY <1>1 DEF Reaches
<1>5. FirstFrom(z, min) = a[k + 1]
  <2>1. ~(z.node[z.tail].value < min)
    BY <1>1, <1>4
  <2>. QED  BY <1>1, <1>2, <1>7, <2>1 DEF FirstFrom
<1>6. k \in 0..(N - 1)
  BY <1>1, <1>7, <1>4
<1>. QED  BY <1>7, <1>5, <1>6

Posed(z, N, min, max, minEx, maxEx) ==
  z.length = N /\ min \in Int /\ max \in Int /\ minEx \in BOOLEAN /\ maxEx \in BOOLEAN

(* rangeByScore gives the places of the range.                             *)
LEMMA RangeByScoreIs ==
  ASSUME NEW z, NEW N, NEW a, NEW v, NEW g, Linked(z, N, a, v, g),
         NEW min, NEW max, NEW minEx, NEW maxEx, Posed(z, N, min, max, minEx, maxEx),
         NEW lo, NEW hi, Bounds(N, v, min, max, minEx, maxEx, lo, hi)
  PROVE  RangeByScore(z, min, max, minEx, maxEx) = Piece(a, lo, hi)
<1>. SUFFICES ASSUME z.length = N, min \in Int, max \in Int, minEx \in BOOLEAN, maxEx \in BOOLEAN
              PROVE  RangeByScore(z, min, max, minEx, maxEx) = Piece(a, lo, hi)
  BY DEF Posed
<1>1. /\ N \in Nat /\ lo \in 1..(N + 1) /\ hi \in 0..N /\ lo \in Int /\ hi \in Int
  BY InBounds
<1>2. CASE N = 0
  <2>1. hi < lo
    BY <1>1, <1>2
  <2>2. RangeByScore(z, min, max, minEx, maxEx) = <<>>
    BY <1>2 DEF RangeByScore
  <2>. QED  BY <1>1, <2>1, <2>2, EmptyPiece
<1>3. CASE N > 0 /\ ~minEx /\ ~maxEx /\ Covers(z, min, max)
  <2>1. lo = 1 /\ hi = N
    <3>1. Closed(N, v, min, max, lo, hi)
      BY <1>3, ClosedIs
    <3>2. N # 0
      BY <1>1, <1>3
    <3>. QED  BY <1>3, <3>1, <3>2, CoversIs
  <2>2. RangeByScore(z, min, max, minEx, maxEx) = MembersInOrder(z)
    <3>1. z.length > 0 /\ z.length # 0
      BY <1>1, <1>3
    <3>2. minEx = FALSE /\ maxEx = FALSE
      BY <1>3
    <3>3. RangeByScore(z, min, max, FALSE, FALSE) = MembersInOrder(z)
      <4>1. Covers(z, min, max) /\ z.length \in Nat
        BY <1>1, <1>3
      <4>2. ~Misses(z, min, max)
        <5>1. N # 0 /\ ~(hi < lo)
          BY <1>1, <1>3, <2>1
        <5>. QED  BY <5>1, MissesIs
      <4>. QED  BY <3>1, <4>1, <4>2 DEF RangeByScore
    <3>. QED  BY <3>2, <3>3
  <2>. QED  BY <2>1, <2>2, ListIs
<1>4. CASE N > 0 /\ ~(~minEx /\ ~maxEx /\ Covers(z, min, max)) /\ Misses(z, min, max)
  <2>1. hi < lo
    BY <1>1, <1>4, MissesIs
  <2>2. RangeByScore(z, min, max, minEx, maxEx) = <<>>
    BY <1>1, <1>4 DEF RangeByScore
  <2>. QED  BY <1>1, <2>1, <2>2, EmptyPiece
<1>5. CASE N > 0 /\ ~(~minEx /\ ~maxEx /\ Covers(z, min, max)) /\ ~Misses(z, min, max)
  <2>1. PICK low : low = AtMost(z, max)
    OBVIOUS
  <2>2. PICK pushed : pushed = {n \in low : /\ minEx => z.node[n].value # min
                                            /\ maxEx => z.node[n].value # max}
    OBVIOUS
  <2>3. RangeByScore(z, min, max, minEx, maxEx) = Walk(z, FirstFrom(z, min), low, pushed)
    <3>1. z.length > 0 /\ z.length # 0
      BY <1>1, <1>5
    <3>. QED  BY <1>5, <2>1, <2>2, <3>1 DEF RangeByScore, AtMost
  <2>4. PICK k \in 0..(N - 1) : FirstFrom(z, min) = a[k + 1] /\ \A p \in 1..N : v[p] < min <=> p <= k
    <3>1. z.node[z.tail].value \in Int
      BY <1>5, EndsAre
    <3>2. Reaches(z, N, min)
      BY <1>5, <3>1 DEF Misses, Reaches
    <3>. QED  BY <3>2, FirstFromIs
  <2>5. PICK top : UpTo(z, N, a, top, low) /\ \A p \in 1..N : v[p] <= max <=> p <= top
    BY <2>1, AtMostCut
  <2>6. PICK p : p = k + 1
    OBVIOUS
  <2>7. p \in 1..(N + 1) /\ p \in 1..N /\ top \in 0..N
    BY <1>1, <2>4, <2>5, <2>6 DEF UpTo
  <2>8. /\ \A q \in 1..N : /\ FromMin(v[q], min, minEx) <=> lo <= q
                           /\ ToMax(v[q], max, maxEx) <=> q <= hi
                           /\ v[q] \in Int
    <3>1. \A q \in 1..N : q <= q
      BY <1>1
    <3>2. \A q \in 1..N : v[q] \in Int
      BY <3>1, Rising
    <3>. QED  BY <3>2 DEF Bounds
  <2>9. \A q \in p..top : q \in 1..N /\ p <= q /\ q <= top /\ ~(q <= k)
    BY <1>1, <2>4, <2>6, <2>7
  <2>10. \A q \in 1..N : a[q] \in Nodes(z) /\ z.node[a[q]].value = v[q]
    <3>1. \A q \in 1..N : q \in 0..N
      BY <1>1
    <3>. QED  BY <3>1, NodeAtPlace, LinkedNodes
  <2>11. \A q \in p..top : a[q] \in pushed <=> lo <= q /\ q <= hi
    <3>. SUFFICES ASSUME NEW q \in p..top PROVE a[q] \in pushed <=> lo <= q /\ q <= hi
      OBVIOUS
    <3>1. min <= v[q] /\ v[q] <= max /\ v[q] \in Int
      BY <2>4, <2>5, <2>8, <2>9
    <3>2. a[q] \in low
      BY <2>1, <2>9, <2>10, <3>1 DEF AtMost
    <3>3. a[q] \in pushed <=> (minEx => v[q] # min) /\ (maxEx => v[q] # max)
      BY <2>2, <2>9, <2>10, <3>2
    <3>4. FromMin(v[q], min, minEx) <=> (minEx => v[q] # min)
      BY <3>1 DEF FromMin
    <3>5. ToMax(v[q], max, maxEx) <=> (maxEx => v[q] # max)
      BY <3>1 DEF ToMax
    <3>. QED  BY <2>8, <2>9, <3>3, <3>4, <3>5
  <2>12. hi <= top /\ p <= lo
    <3>1. hi <= top
      <4>. SUFFICES ASSUME top < hi PROVE FALSE
        BY <1>1, <2>7
      <4>1. hi \in 1..N /\ hi <= hi
        BY <1>1, <2>7
      <4>2. ToMax(v[hi], max, maxEx) /\ v[hi] \in Int
        BY <2>8, <4>1
      <4>3. v[hi] <= max
        BY <4>2 DEF ToMax
      <4>. QED  BY <1>1, <2>5, <2>7, <4>1, <4>3
    <3>2. p <= lo
      <4>. SUFFICES ASSUME lo < p PROVE FALSE
        BY <1>1, <2>7
      <4>1. lo \in 1..N /\ lo <= k /\ lo <= lo
        BY <1>1, <2>4, <2>6, <2>7
      <4>2. FromMin(v[lo], min, minEx) /\ v[lo] \in Int
        BY <2>8, <4>1
      <4>3. min <= v[lo]
        BY <4>2 DEF FromMin
      <4>. QED  BY <2>4, <4>1, <4>2, <4>3
    <3>. QED  BY <3>1, <3>2
  <2>13. Stretched(a, p, top, pushed, lo, hi)
    <3>1. lo \in Nat \ {0} /\ hi \in 0..top
      BY <1>1, <2>7, <2>12
    <3>. QED  BY <2>11, <3>1 DEF Stretched
  <2>14. Walk(z, a[p], low, pushed) = Piece(a, IF p < lo THEN lo ELSE p, hi)
    BY <2>5, <2>7, <2>13, WalkIs
  <2>15. (IF p < lo THEN lo ELSE p) = lo
    BY <1>1, <2>7, <2>12
  <2>. QED  BY <2>3, <2>4, <2>6, <2>14, <2>15
<1>. QED  BY <1>1, <1>2, <1>3, <1>4, <1>5

(***************************************************************************)
(* What is read by score.                                                  *)
(***************************************************************************)

(* What ZRANGEBYSCORE should answer, and ZCOUNT.                           *)
Exact(z, min, max, minEx, maxEx) ==
  LET expected == BetweenOf(z, min, max, minEx, maxEx) IN
  /\ ZRangeByScore(z, min, max, minEx, maxEx, 0, z.length) = expected
  /\ ZRangeByScore(z, min, max, minEx, maxEx, 1, -1) = SubSeq(expected, 2, Len(expected))
  /\ ZRangeByScore(z, min, max, minEx, maxEx, 0, 1) =
       SubSeq(expected, 1, IF expected = <<>> THEN 0 ELSE 1)

Counted(z, min, max) ==
  LET n == Len(BetweenOf(z, min, max, FALSE, FALSE)) IN
  n # 1 \/ z.length = 1 => ZCount(z, min, max) = n

(* With LIMIT or without.                                                  *)
LEMMA ExactIs ==
  ASSUME NEW z, Whole(z), NEW min \in Int, NEW max \in Int, NEW minEx \in BOOLEAN, NEW maxEx \in BOOLEAN
  PROVE  Exact(z, min, max, minEx, maxEx)
<1>1. PICK N, a, v, g : Linked(z, N, a, v, g) /\ z.length = N /\ z.map = Scored(z)
  BY DEF Whole
<1>2. Linked(z, N, a, v, g)
  BY <1>1
<1>3. PICK lo, hi : Bounds(N, v, min, max, minEx, maxEx, lo, hi)
  BY <1>2, BoundsExist
<1>4. PICK s : s = Piece(a, lo, hi)
  OBVIOUS
<1>5. RangeByScore(z, min, max, minEx, maxEx) = s
  <2>1. Posed(z, N, min, max, minEx, maxEx)
    BY <1>1 DEF Posed
  <2>2. RangeByScore(z, min, max, minEx, maxEx) = Piece(a, lo, hi)
    BY <1>2, <1>3, <2>1, RangeByScoreIs
  <2>. QED  BY <1>4, <2>2
<1>6. BetweenOf(z, min, max, minEx, maxEx) = s
  BY <1>1, <1>3, <1>4, BetweenIs
<1>7. s \in Seq(Nodes(z)) /\ Len(s) \in Nat /\ Len(s) <= N /\ N \in Nat
  <2>1. N \in Nat /\ lo \in 1..(N + 1) /\ hi \in 0..N /\ lo \in Int /\ hi \in Int
    BY <1>2, <1>3, LinkedTypes DEF Bounds
  <2>2. Over(a, lo, hi, Nodes(z))
    <3>1. \A p \in lo..hi : p \in 1..N
      BY <2>1
    <3>. QED  BY <1>2, <3>1, LinkedNodes DEF Over
  <2>3. Piece(a, lo, hi) \in Seq(Nodes(z))
    BY <2>1, <2>2, Pieces
  <2>4. Len(Piece(a, lo, hi)) = IF hi < lo THEN 0 ELSE hi - lo + 1
    BY <2>1, <2>2, Pieces
  <2>. QED  BY <1>4, <2>1, <2>3, <2>4
<1>8. ZRangeByScore(z, min, max, minEx, maxEx, 0, z.length) = s
  <2>1. (IF N < 0 \/ 0 + N > Len(s) THEN Len(s) ELSE 0 + N) = Len(s)
    BY <1>7
  <2>2. ZRangeByScore(z, min, max, minEx, maxEx, 0, N) = SubSeq(s, 1, Len(s))
    BY <1>5, <2>1 DEF ZRangeByScore
  <2>. QED  BY <1>1, <1>7, <2>2, SubSeqFull
<1>9. ZRangeByScore(z, min, max, minEx, maxEx, 1, -1) = SubSeq(s, 2, Len(s))
  BY <1>5 DEF ZRangeByScore
<1>10. ZRangeByScore(z, min, max, minEx, maxEx, 0, 1) = SubSeq(s, 1, IF s = <<>> THEN 0 ELSE 1)
  <2>1. s = <<>> <=> Len(s) = 0
    BY <1>7, EmptySeq
  <2>2. PICK end : end = IF 1 < 0 \/ 0 + 1 > Len(s) THEN Len(s) ELSE 0 + 1
    OBVIOUS
  <2>3. end = IF s = <<>> THEN 0 ELSE 1
    BY <1>7, <2>1, <2>2
  <2>4. ZRangeByScore(z, min, max, minEx, maxEx, 0, 1) = SubSeq(s, 1, end)
    BY <1>5, <2>2 DEF ZRangeByScore
  <2>. QED  BY <2>3, <2>4
<1>. QED  BY <1>6, <1>8, <1>9, <1>10 DEF Exact

(* The steps along the links from the first node of a range to its last.   *)
LEMMA StepsAre ==
  ASSUME NEW z, NEW N, NEW a, NEW v, NEW g, Linked(z, N, a, v, g),
         NEW b \in 1..N, NEW max, NEW k, UpTo(z, N, a, k, AtMost(z, max))
  PROVE  Descend(z, Len(z.node[a[b]].next), a[b], Stops(AtMost(z, max)))[1].gone = IF b <= k THEN k - b ELSE 0
<1>1. /\ N \in Nat /\ Heighted(g, N) /\ g \in [0..N -> Nat]
      /\ g[b] \in 1..z.level /\ z.level \in Nat /\ \A p \in 0..N : g[p] >= 1
  BY LinkedTypes
<1>2. b \in 0..N /\ k \in 0..N
  BY <1>1 DEF UpTo
<1>3. Len(z.node[a[b]].next) = g[b]
  <2>1. PICK s : s = z.node[a[b]].next
    OBVIOUS
  <2>2. DOMAIN s = 1..g[b]
    BY <1>2, <2>1, NodeAtPlace
  <2>3. s = [i \in 1..g[b] |-> s[i]]
    <3>1. NodeIs(z, N, a, v, g, b)
      BY <1>2 DEF Linked
    <3>2. z.node[a[b]].next = [i \in 1..g[b] |-> Link(z, a[b], i)]
      BY <3>1 DEF NodeIs
    <3>. QED  BY <2>1, <3>2
  <2>9. PICK R : R = {s[i] : i \in 1..g[b]}
    OBVIOUS
  <2>4. s \in Seq(R)
    <3>1. s \in [1..g[b] -> R]
      BY <2>3, <2>9
    <3>2. PICK h : h = g[b]
      OBVIOUS
    <3>3. h \in Nat /\ s \in [1..h -> R]
      BY <1>1, <3>1, <3>2
    <3>. QED  BY <3>3, SeqDef
  <2>5. Len(s) \in Nat /\ DOMAIN s = 1..Len(s)
    BY <2>4, LenProperties
  <2>6. PICK n, e : n = Len(s) /\ e = g[b]
    OBVIOUS
  <2>7. n \in Nat /\ e \in Nat /\ 1..n = 1..e
    BY <1>1, <2>2, <2>5, <2>6
  <2>8. n = e
    <3>1. (n > 0 => n \in 1..e) /\ (e > 0 => e \in 1..n)
      BY <2>7
    <3>. QED  BY <2>7, <3>1
  <2>. QED  BY <2>1, <2>6, <2>8
<1>4. PICK c : c = IF b <= k THEN k ELSE b
  OBVIOUS
<1>5. PICK ahead : ahead = Stops(AtMost(z, max))
  OBVIOUS
<1>6. CutAt(z, N, a, b, c, ahead)
  <2>1. CutAt(z, N, a, b, IF b <= k THEN k ELSE b, Stops(AtMost(z, max)))
    BY <1>2, CutOfNodes
  <2>. QED  BY <1>4, <1>5, <2>1
<1>7. PICK top : top = g[b]
  OBVIOUS
<1>8. top \in 1..z.level /\ g[b] >= top /\ 1 \in 1..top
  BY <1>1, <1>7
<1>9. \A i \in 1..top : \E p \in b..c : LastUp(g, c, i, p) /\ Descend(z, top, a[b], ahead)[i] = Stop(a, b, p)
  BY <1>2, <1>6, <1>8, DescendIs
<1>10. PICK p \in b..c : LastUp(g, c, 1, p) /\ Descend(z, top, a[b], ahead)[1] = Stop(a, b, p)
  BY <1>8, <1>9
<1>11. p = c
  <2>1. c \in 0..N
    BY <1>2, <1>4
  <2>2. LastUp(g, c, 1, c)
    BY <1>1, <2>1 DEF LastUp
  <2>3. 1 \in Nat
    OBVIOUS
  <2>. QED  BY <1>1, <1>10, <2>1, <2>2, <2>3, OneUp
<1>12. Descend(z, top, a[b], ahead)[1].gone = c - b
  BY <1>10, <1>11 DEF Stop
<1>13. c - b = IF b <= k THEN k - b ELSE 0
  BY <1>2, <1>4
<1>. QED  BY <1>3, <1>5, <1>7, <1>12, <1>13

(* The steps and one more are the number of members, unless there are no   *)
(* steps: then there is no member, or there is one, which is all there is. *)
LEMMA CountedIs ==
  ASSUME NEW z, Whole(z), NEW min \in Int, NEW max \in Int
  PROVE  Counted(z, min, max)
<1>1. PICK N, a, v, g : Linked(z, N, a, v, g) /\ z.length = N /\ z.map = Scored(z)
  BY DEF Whole
<1>2. Linked(z, N, a, v, g)
  BY <1>1
<1>3. PICK lo, hi : Bounds(N, v, min, max, FALSE, FALSE, lo, hi)
  BY <1>2, BoundsExist
<1>4. /\ N \in Nat /\ lo \in 1..(N + 1) /\ hi \in 0..N /\ lo \in Int /\ hi \in Int
  BY <1>2, <1>3, LinkedTypes DEF Bounds
<1>5. Closed(N, v, min, max, lo, hi)
  BY <1>3, ClosedIs
<1>6. PICK n : n = Len(BetweenOf(z, min, max, FALSE, FALSE))
  OBVIOUS
<1>7. n = IF hi < lo THEN 0 ELSE hi - lo + 1
  <2>1. BetweenOf(z, min, max, FALSE, FALSE) = Piece(a, lo, hi)
    <3>1. PICK ex : ex = FALSE
      OBVIOUS
    <3>2. Bounds(N, v, min, max, ex, ex, lo, hi)
      BY <1>3, <3>1
    <3>3. BetweenOf(z, min, max, ex, ex) = Piece(a, lo, hi)
      BY <1>1, <3>2, BetweenIs
    <3>. QED  BY <3>1, <3>3
  <2>2. Over(a, lo, hi, Nodes(z))
    <3>1. \A p \in lo..hi : p \in 1..N
      BY <1>4
    <3>. QED  BY <1>2, <3>1, LinkedNodes DEF Over
  <2>3. Len(Piece(a, lo, hi)) = IF hi < lo THEN 0 ELSE hi - lo + 1
    BY <1>4, <2>2, Pieces
  <2>. QED  BY <1>6, <2>1, <2>3
<1>8. SUFFICES ASSUME n # 1 \/ N = 1 PROVE Count(z, min, max) = n
  BY <1>1, <1>6 DEF Counted, ZCount
<1>9. CASE N = 0
  <2>1. n = 0
    BY <1>4, <1>7, <1>9
  <2>2. Count(z, min, max) = 0
    BY <1>1, <1>9 DEF Count
  <2>. QED  BY <2>1, <2>2
<1>10. ASSUME N # 0, Misses(z, min, max) PROVE hi < lo
  BY <1>2, <1>3, <1>10, MissesIs
<1>11. ASSUME N # 0 PROVE Covers(z, min, max) <=> lo = 1 /\ hi = N
  BY <1>2, <1>5, <1>11, CoversIs
<1>12. CASE N # 0 /\ Covers(z, min, max)
  <2>1. lo = 1 /\ hi = N /\ n = N
    BY <1>4, <1>7, <1>11, <1>12
  <2>2. ~Misses(z, min, max)
    BY <1>4, <1>10, <1>12, <2>1
  <2>3. Count(z, min, max) = z.length
    BY <1>1, <1>4, <1>12, <2>2 DEF Count
  <2>. QED  BY <1>1, <2>1, <2>3
<1>13. CASE N # 0 /\ ~Covers(z, min, max) /\ Misses(z, min, max)
  <2>1. n = 0
    BY <1>4, <1>7, <1>10, <1>13
  <2>2. Count(z, min, max) = 0
    BY <1>1, <1>4, <1>13 DEF Count
  <2>. QED  BY <2>1, <2>2
<1>14. CASE N # 0 /\ ~Covers(z, min, max) /\ ~Misses(z, min, max)
  <2>1. PICK k \in 0..(N - 1) : FirstFrom(z, min) = a[k + 1] /\ \A p \in 1..N : v[p] < min <=> p <= k
    <3>1. z.node[z.tail].value \in Int
      BY <1>2, <1>14, EndsAre
    <3>2. Reaches(z, N, min)
      BY <1>14, <3>1 DEF Misses, Reaches
    <3>. QED  BY <1>2, <3>2, FirstFromIs
  <2>2. PICK top \in 0..N : UpTo(z, N, a, top, AtMost(z, max)) /\ \A p \in 1..N : v[p] <= max <=> p <= top
    BY <1>2, AtMostCut
  <2>3. /\ \A p \in 1..N : (min <= v[p] <=> lo <= p) /\ (v[p] <= max <=> p <= hi) /\ v[p] \in Int
    <3>1. \A p \in 1..N : p <= p
      BY <1>4
    <3>2. \A p \in 1..N : v[p] \in Int
      BY <1>2, <3>1, Rising
    <3>. QED  BY <1>5, <3>2 DEF Closed
  <2>4. lo = k + 1
    <3>1. \A p \in 1..N : lo <= p <=> ~(p <= k)
      BY <2>1, <2>3
    <3>2. k + 1 \in 1..N
      BY <1>4, <2>1
    <3>3. lo <= k + 1
      BY <1>4, <2>1, <3>1, <3>2
    <3>4. lo \in 1..N
      BY <1>4, <2>1, <3>2, <3>3
    <3>5. ~(lo <= k)
      BY <1>4, <3>1, <3>4
    <3>. QED  BY <1>4, <2>1, <3>3, <3>5
  <2>5. top = hi
    <3>1. \A p \in 1..N : p <= top <=> p <= hi
      BY <2>2, <2>3
    <3>2. (top \in 1..N => top <= hi) /\ (hi \in 1..N => hi <= top)
      BY <1>4, <2>2, <3>1
    <3>. QED  BY <1>4, <2>2, <3>2
  <2>6. lo \in 1..N /\ FirstFrom(z, min) = a[lo]
    BY <1>4, <2>1, <2>4
  <2>7. PICK steps : steps = Descend(z, Len(z.node[a[lo]].next), a[lo], Stops(AtMost(z, max)))[1].gone
    OBVIOUS
  <2>8. steps = IF lo <= hi THEN hi - lo ELSE 0
    BY <1>2, <2>2, <2>5, <2>6, <2>7, StepsAre
  <2>9. Count(z, min, max) = IF steps = 0 THEN 0 ELSE steps + 1
    <3>1. z.length > 0 /\ z.length # 0
      BY <1>1, <1>4, <1>14
    <3>. QED  BY <1>14, <2>6, <2>7, <3>1 DEF Count, AtMost
  <2>10. ~(lo = 1 /\ hi = N)
    BY <1>11, <1>14
  <2>11. lo = hi => n = 1 /\ N = 1
    BY <1>4, <1>7, <1>8
  <2>12. lo # hi
    BY <1>4, <2>6, <2>10, <2>11
  <2>. QED  BY <1>4, <1>7, <2>6, <2>8, <2>9, <2>12
<1>. QED  BY <1>9, <1>12, <1>13, <1>14

(***************************************************************************)
(* The set of SortedSet, its types, order and spans.                       *)
(***************************************************************************)

(* Order and Position are the places.                                      *)
LEMMA NodesInOrder ==
  ASSUME NEW N, NEW a, NEW v, NEW g, Linked(zset, N, a, v, g), zset.map = Scored(zset)
  PROVE  /\ Order = Piece(a, 1, N) /\ Len(Order) = N /\ DOMAIN Order = 1..N
         /\ \A p \in 1..N : Order[p] = a[p]
<1>1. N \in Nat /\ N \in Int /\ 1 \in Int
  BY LinkedTypes
<1>2. Order = Piece(a, 1, N)
  BY OrderIs DEF Order
<1>3. Over(a, 1, N, Nodes(zset))
  BY <1>1, LinkedNodes DEF Over
<1>4. /\ Len(Piece(a, 1, N)) = (IF N < 1 THEN 0 ELSE N - 1 + 1)
      /\ DOMAIN Piece(a, 1, N) = 1..(N - 1 + 1)
      /\ \A j \in 1..(N - 1 + 1) : Piece(a, 1, N)[j] = a[1 + j - 1]
  BY <1>1, <1>3, Pieces
<1>5. (IF N < 1 THEN 0 ELSE N - 1 + 1) = N /\ N - 1 + 1 = N /\ \A j \in 1..N : 1 + j - 1 = j
  BY <1>1
<1>. QED  BY <1>2, <1>4, <1>5

LEMMA PositionIs ==
  ASSUME NEW N, NEW a, NEW v, NEW g, Linked(zset, N, a, v, g), zset.map = Scored(zset), NEW p \in 0..N
  PROVE  Position(a[p]) = p
<1>1. N \in Nat /\ a[0] = HeadNode /\ \A q \in 1..N : a[q] # HeadNode
  BY LinkedTypes
<1>2. DOMAIN Order = 1..N /\ \A q \in 1..N : Order[q] = a[q]
  BY NodesInOrder
<1>3. \A q, r \in 0..(N + 1) : a[q] = a[r] => q = r
  BY LinkedTypes, PlacesDiffer
<1>4. CASE p = 0
  BY <1>1, <1>4 DEF Position
<1>5. CASE p # 0
  <2>1. p \in 1..N /\ a[p] # HeadNode
    BY <1>1, <1>5
  <2>2. \A i \in 1..N : Order[i] = a[p] => i = p
    <3>1. \A i \in 1..N : i \in 0..(N + 1)
      BY <1>1
    <3>. QED  BY <1>2, <1>3, <2>1, <3>1
  <2>3. PICK P : P = Position(a[p])
    OBVIOUS
  <2>4. P = CHOOSE i \in DOMAIN Order : Order[i] = a[p]
    BY <2>1, <2>3 DEF Position
  <2>5. P \in 1..N /\ Order[P] = a[p]
    <3>1. p \in DOMAIN Order /\ Order[p] = a[p]
      BY <1>2, <2>1
    <3>2. P \in DOMAIN Order /\ Order[P] = a[p]
      BY <2>4, <3>1, Zenon
    <3>. QED  BY <1>2, <3>2
  <2>. QED  BY <2>2, <2>3, <2>5
<1>. QED  BY <1>4, <1>5

(* Every node and every link has values of the instance.                   *)
InstanceScores(z) == \A n \in Nodes(z) : Scored(z)[n] \in Scores

LEMMA TypesOK ==
  ASSUME NEW N, NEW a, NEW v, NEW g, Linked(zset, N, a, v, g), zset.length = N, zset.map = Scored(zset),
         InstanceScores(zset)
  PROVE  TypeOK
<1>1. /\ N \in Nat /\ zset.level \in 1..MaxLevel /\ v \in [0..N -> Int] /\ a[0] = HeadNode /\ a[N + 1] = Null
      /\ Heighted(g, N) /\ g \in [0..N -> Nat] /\ Placed(N, a, v, g)
  BY LinkedTypes
<1>2. /\ DOMAIN zset.node = {a[p] : p \in 0..N} /\ Nodes(zset) = {a[p] : p \in 1..N}
      /\ Nodes(zset) \subseteq Members
  BY LinkedNodes
<1>3. ASSUME NEW p \in 0..N
      PROVE  /\ zset.node[a[p]].value \in Scores /\ zset.node[a[p]].prev \in Nodes(zset) \cup {Null}
             /\ \A i \in DOMAIN zset.node[a[p]].next :
                  Link(zset, a[p], i) \in [to : Nodes(zset) \cup {Null}, span : Nat]
  <2>1. /\ zset.node[a[p]].value = v[p]
        /\ zset.node[a[p]].prev = IF p <= 1 THEN Null ELSE a[p - 1]
        /\ DOMAIN zset.node[a[p]].next = 1..g[p]
        /\ \A i \in 1..g[p] : LinkIs(zset, N, a, g, p, i)
    BY NodeAtPlace
  <2>2. zset.node[a[p]].value \in Scores
    <3>1. CASE p = 0
      <4>1. v[0] = 0
        BY <1>1 DEF Placed
      <4>. QED  BY <2>1, <3>1, <4>1, ScoresAssumption
    <3>2. CASE p # 0
      <4>1. p \in 1..N
        BY <1>1, <3>2
      <4>2. a[p] \in Nodes(zset)
        BY <1>2, <4>1
      <4>. QED  BY <4>2 DEF InstanceScores, Scored
    <3>. QED  BY <3>1, <3>2
  <2>3. zset.node[a[p]].prev \in Nodes(zset) \cup {Null}
    <3>1. CASE p <= 1
      BY <2>1, <3>1
    <3>2. CASE ~(p <= 1)
      <4>1. p - 1 \in 1..N
        BY <1>1, <3>2
      <4>. QED  BY <1>2, <2>1, <3>2, <4>1
    <3>. QED  BY <3>1, <3>2
  <2>4. ASSUME NEW i \in 1..g[p]
        PROVE  Link(zset, a[p], i) \in [to : Nodes(zset) \cup {Null}, span : Nat]
    <3>1. PICK q, s : /\ Link(zset, a[p], i) = [to |-> a[q], span |-> s] /\ s \in Nat
                      /\ NextUp(g, N, p, i, q)
      BY <2>1 DEF LinkIs
    <3>2. q \in (p + 1)..(N + 1)
      BY <3>1 DEF NextUp
    <3>3. a[q] \in Nodes(zset) \cup {Null}
      <4>1. q = N + 1 \/ q \in 1..N
        BY <1>1, <3>2
      <4>. QED  BY <1>1, <1>2, <4>1
    <3>. QED  BY <3>1, <3>3
  <2>. QED  BY <2>1, <2>2, <2>3, <2>4
<1>4. zset.tail \in Nodes(zset) \cup {Null}
  <2>1. zset.tail = IF N = 0 THEN Null ELSE a[N]
    BY DEF Linked
  <2>2. N # 0 => N \in 1..N
    BY <1>1
  <2>. QED  BY <1>2, <2>1, <2>2
<1>5. DOMAIN zset.map \subseteq Members
  BY <1>2 DEF Scored
<1>6. \A n \in DOMAIN zset.node :
        /\ zset.node[n].value \in Scores /\ zset.node[n].prev \in Nodes(zset) \cup {Null}
        /\ \A i \in DOMAIN zset.node[n].next :
             Link(zset, n, i) \in [to : Nodes(zset) \cup {Null}, span : Nat]
  BY <1>2, <1>3
<1>. QED  BY <1>1, <1>2, <1>4, <1>5, <1>6 DEF TypeOK, Heights

(* The inductive invariant.                                                *)
Inv == Whole(zset) /\ InstanceScores(zset)

(* What Linked and the map say is what ListIsInOrder asks for.             *)
LEMMA InOrder ==
  ASSUME Inv
  PROVE  ListIsInOrder
<1>1. PICK N, a, v, g : Linked(zset, N, a, v, g) /\ zset.length = N /\ zset.map = Scored(zset)
  BY DEF Inv, Whole
<1>2. Linked(zset, N, a, v, g)
  BY <1>1
<1>3. N \in Nat /\ Nodes(zset) = {a[p] : p \in 1..N}
  BY <1>2, LinkedTypes, LinkedNodes
<1>4. /\ Order = Piece(a, 1, N) /\ Len(Order) = N /\ DOMAIN Order = 1..N
      /\ \A p \in 1..N : Order[p] = a[p]
  BY <1>1, NodesInOrder
<1>5. TypeOK
  BY <1>1, TypesOK DEF Inv
<1>6. NodeScores = zset.map
  BY <1>1 DEF NodeScores, Scored
<1>7. \A m \in Members : ZScore(zset, m) = Promise!ScoreOf(m)
  BY <1>6 DEF ZScore, ScoreOf, Has, Promise!ScoreOf
<1>8. MembersInOrder(zset) = Order
  BY <1>2, <1>4, ListIs
<1>9. ZCard(zset) = Len(Order)
  BY <1>1, <1>4 DEF ZCard
<1>10. zset.tail = IF Order = <<>> THEN Null ELSE Last(Order)
  <2>1. zset.tail = IF N = 0 THEN Null ELSE a[N]
    BY <1>2 DEF Linked
  <2>2. Order = <<>> <=> N = 0
    <3>1. CASE N = 0
      <4>1. 1 \in Int /\ N \in Int /\ N < 1
        BY <1>3, <3>1
      <4>. QED  BY <1>4, <3>1, <4>1, EmptyPiece
    <3>2. CASE N # 0
      <4>1. Len(Order) # Len(<<>>)
        BY <1>4, <3>2
      <4>. QED  BY <3>2, <4>1
    <3>. QED  BY <3>1, <3>2
  <2>3. N # 0 => Last(Order) = a[N]
    <3>1. N # 0 => N \in 1..N
      BY <1>3
    <3>. QED  BY <1>4, <3>1 DEF Last
  <2>. QED  BY <2>1, <2>2, <2>3
<1>11. \A i \in DOMAIN Order : zset.node[Order[i]].prev = IF i = 1 THEN Null ELSE Order[i - 1]
  <2>. SUFFICES ASSUME NEW i \in 1..N PROVE zset.node[a[i]].prev = IF i = 1 THEN Null ELSE Order[i - 1]
    BY <1>4
  <2>1. i \in 0..N
    BY <1>3
  <2>2. zset.node[a[i]].prev = IF i <= 1 THEN Null ELSE a[i - 1]
    BY <1>2, <2>1, NodeAtPlace
  <2>3. CASE i = 1
    BY <2>2, <2>3
  <2>4. CASE i # 1
    <3>1. ~(i <= 1) /\ i - 1 \in 1..N
      BY <1>3, <2>4
    <3>. QED  BY <1>4, <2>2, <2>4, <3>1
  <2>. QED  BY <2>3, <2>4
<1>. QED  BY <1>5, <1>6, <1>7, <1>8, <1>9, <1>10, <1>11 DEF ListIsInOrder

(* The next place is the least one ahead that is high enough, and the span *)
(* the way to it.                                                          *)
LEMMA Distances ==
  ASSUME Inv
  PROVE  SpansAreDistances
<1>1. PICK N, a, v, g : Linked(zset, N, a, v, g) /\ zset.length = N /\ zset.map = Scored(zset)
  BY DEF Inv, Whole
<1>2. Linked(zset, N, a, v, g)
  BY <1>1
<1>3. N \in Nat /\ Heighted(g, N) /\ g \in [0..N -> Nat] /\ a[N + 1] = Null /\ DOMAIN zset.node = {a[p] : p \in 0..N}
  BY <1>2, LinkedTypes, LinkedNodes
<1>4. /\ Len(Order) = N /\ DOMAIN Order = 1..N
      /\ \A p \in 1..N : Order[p] = a[p]
  BY <1>1, NodesInOrder
<1>5. \A p \in 0..N : DOMAIN zset.node[a[p]].next = 1..g[p] /\ \A i \in 1..g[p] : LinkIs(zset, N, a, g, p, i)
  BY <1>2, NodeAtPlace
<1>6. \A p \in 0..N : Position(a[p]) = p
  BY <1>1, PositionIs
<1>7. ASSUME NEW p \in 0..N, NEW i \in 1..g[p], i <= zset.level,
             NEW ahead, ahead = {k \in (p + 1)..N : i \in 1..g[k]}
      PROVE  Link(zset, a[p], i) =
               IF ahead = {} THEN [to |-> Null, span |-> N - p]
               ELSE [to |-> Order[Min(ahead)], span |-> Min(ahead) - p]
  <2>1. PICK q : /\ Link(zset, a[p], i) = [to |-> a[q], span |-> Span(N, p, q)]
                 /\ NextUp(g, N, p, i, q)
    <3>1. LinkIs(zset, N, a, g, p, i)
      BY <1>5
    <3>. QED  BY <1>7, <3>1 DEF LinkIs
  <2>2. q \in (p + 1)..(N + 1) /\ (q <= N => g[q] >= i) /\ \A r \in (p + 1)..(q - 1) : g[r] < i
    BY <2>1 DEF NextUp
  <2>3. \A k \in (p + 1)..N : g[k] \in Nat /\ (k \in ahead <=> i <= g[k])
    <3>1. \A k \in (p + 1)..N : k \in 0..N
      BY <1>3
    <3>2. i \in Nat /\ i >= 1
      BY <1>3
    <3>. QED  BY <1>3, <1>7, <3>1, <3>2
  <2>4. \A k \in ahead : k \in (p + 1)..N /\ q <= k
    <3>. SUFFICES ASSUME NEW k \in ahead PROVE k \in (p + 1)..N /\ q <= k
      OBVIOUS
    <3>1. k \in (p + 1)..N
      BY <1>7
    <3>2. i <= g[k] /\ g[k] \in Nat
      BY <2>3, <3>1
    <3>3. k \in (p + 1)..(q - 1) => FALSE
      BY <1>3, <2>2, <3>2
    <3>. QED  BY <1>3, <2>2, <3>1, <3>3
  <2>5. CASE q <= N
    <3>1. q \in ahead
      BY <1>3, <2>2, <2>3, <2>5
    <3>2. ahead \in SUBSET (0..N)
      BY <1>3, <2>4
    <3>3. PICK least : least = Min(ahead)
      OBVIOUS
    <3>4. least \in ahead /\ least <= q
      BY <1>3, <3>1, <3>2, <3>3, LeastNumber
    <3>5. least = q
      BY <1>3, <2>2, <2>4, <3>4
    <3>6. Span(N, p, q) = q - p /\ Order[q] = a[q]
      <4>1. q \in 1..N
        BY <1>3, <2>2, <2>5
      <4>. QED  BY <1>3, <1>4, <2>2, <2>5, <4>1 DEF Span
    <3>. QED  BY <2>1, <3>1, <3>3, <3>5, <3>6
  <2>6. CASE q = N + 1
    <3>1. ahead = {}
      BY <1>3, <2>4, <2>6
    <3>2. Span(N, p, q) = N - p
      BY <1>3, <2>6 DEF Span
    <3>. QED  BY <1>3, <2>1, <2>6, <3>1, <3>2
  <2>. QED  BY <1>3, <2>2, <2>5, <2>6
<1>8. ASSUME NEW n \in DOMAIN zset.node, NEW i \in DOMAIN zset.node[n].next, i <= zset.level,
             NEW ahead, ahead = {k \in (Position(n) + 1)..Len(Order) : i \in DOMAIN zset.node[Order[k]].next}
      PROVE  Link(zset, n, i) =
               IF ahead = {} THEN [to |-> Null, span |-> Len(Order) - Position(n)]
               ELSE [to |-> Order[Min(ahead)], span |-> Min(ahead) - Position(n)]
  <2>1. PICK p \in 0..N : n = a[p]
    BY <1>3
  <2>2. Position(n) = p /\ i \in 1..g[p]
    BY <1>5, <1>6, <2>1
  <2>3. ahead = {k \in (p + 1)..N : i \in 1..g[k]}
    <3>1. \A k \in (p + 1)..N : k \in 0..N /\ k \in 1..N
      BY <1>3
    <3>2. \A k \in (p + 1)..N : DOMAIN zset.node[Order[k]].next = 1..g[k]
      BY <1>4, <1>5, <3>1
    <3>. QED  BY <1>4, <1>8, <2>2, <3>2
  <2>4. Link(zset, a[p], i) =
          IF ahead = {} THEN [to |-> Null, span |-> N - p]
          ELSE [to |-> Order[Min(ahead)], span |-> Min(ahead) - p]
    <3>1. i \in 1..g[p] /\ i <= zset.level
      BY <1>8, <2>2
    <3>. QED  BY <1>7, <2>3, <3>1
  <2>5. Position(n) = p /\ Len(Order) = N
    BY <1>4, <2>2
  <2>. QED  BY <2>1, <2>4, <2>5
<1>. QED  BY <1>8 DEF SpansAreDistances

(***************************************************************************)
(* What is asked of it.                                                    *)
(***************************************************************************)

(* Ranks, indices and ranges of indices.                                   *)
LEMMA ByPosition ==
  ASSUME Inv
  PROVE  RanksArePositions
<1>1. PICK N, a, v, g : Linked(zset, N, a, v, g) /\ zset.length = N /\ zset.map = Scored(zset)
  BY DEF Inv, Whole
<1>2. Linked(zset, N, a, v, g)
  BY <1>1
<1>3. N \in Nat /\ Nodes(zset) = {a[p] : p \in 1..N}
  BY <1>2, LinkedTypes, LinkedNodes
<1>4. /\ Order = Piece(a, 1, N) /\ Len(Order) = N /\ DOMAIN Order = 1..N
      /\ \A p \in 1..N : Order[p] = a[p]
  BY <1>1, NodesInOrder
<1>5. \A m \in Members \ {0} : ZRank(zset, m) = IF Has(zset, m) THEN Position(m) - 1 ELSE Null
  <2>. SUFFICES ASSUME NEW m \in Members \ {0}
                PROVE  ZRank(zset, m) = IF Has(zset, m) THEN Position(m) - 1 ELSE Null
    OBVIOUS
  <2>1. CASE Has(zset, m)
    <3>1. PICK p \in 1..N : m = a[p]
      BY <1>1, <1>3, <2>1 DEF Has, Scored
    <3>2. Position(a[p]) = p
      <4>1. p \in 0..N
        BY <1>3
      <4>. QED  BY <1>1, <4>1, PositionIs
    <3>3. Rank(zset, a[p]) = p - 1
      <4>1. a[p] # 0
        BY <3>1
      <4>. QED  BY <1>1, <4>1, RankIs
    <3>. QED  BY <2>1, <3>1, <3>2, <3>3 DEF ZRank
  <2>2. CASE ~Has(zset, m)
    BY <2>2 DEF ZRank
  <2>. QED  BY <2>1, <2>2
<1>6. \A i \in 1..(Len(Order) - 1) : NodeAt(zset, i) = Order[i + 1]
  <2>. SUFFICES ASSUME NEW i \in 1..(N - 1) PROVE NodeAt(zset, i) = Order[i + 1]
    BY <1>4
  <2>1. i \in 0..(N - 1) /\ i + 1 \in 1..N
    BY <1>3
  <2>2. NodeAt(zset, i) = a[i + 1]
    BY <1>2, <2>1, NodeAtIs
  <2>. QED  BY <1>4, <2>1, <2>2
<1>7. \A x \in Int : \A y : EndsIn(y) => ZRange(zset, x, y) = RangeOf(Order, Len(Order), x, y)
  <2>. SUFFICES ASSUME NEW x \in Int, NEW y, EndsIn(y) PROVE ZRange(zset, x, y) = RangeOf(Order, Len(Order), x, y)
    OBVIOUS
  <2>1. zset.length = N
    BY <1>1
  <2>2. Ranged(zset, N, a, x, y)
    BY <1>2, <2>1, ZRangeIs
  <2>. QED  BY <1>4, <2>2 DEF Ranged
<1>8. \A x \in Indices, y \in {-1} \cup (Indices \cap Nat) :
        LET n == Len(Order)
            from == IF x >= 0 THEN x ELSE IF n + x < 0 THEN 0 ELSE n + x
        IN ZRange(zset, x, y) = SubSeq(Order, from + 1, IF y = -1 \/ y >= n THEN n ELSE y + 1)
  <2>. SUFFICES ASSUME NEW x \in Indices, NEW y \in {-1} \cup (Indices \cap Nat)
                PROVE  ZRange(zset, x, y) = RangeOf(Order, Len(Order), x, y)
    BY DEF RangeOf
  <2>1. x \in Int /\ EndsIn(y)
    BY RangesAssumption DEF EndsIn
  <2>. QED  BY <1>7, <2>1
<1>. QED  BY <1>5, <1>6, <1>8 DEF RanksArePositions

(* Ranges of scores.                                                       *)
LEMMA ByScore ==
  ASSUME Inv
  PROVE  ScoreRangesAreExact
<1>1. Whole(zset)
  BY DEF Inv
<1>2. \A min, max \in Limits : min \in Int /\ max \in Int
  BY RangesAssumption
<1>3. ASSUME NEW min \in Limits, NEW max \in Limits, NEW minEx \in BOOLEAN, NEW maxEx \in BOOLEAN
      PROVE  LET expected == Between(min, max, minEx, maxEx) IN
             /\ ZRangeByScore(zset, min, max, minEx, maxEx, 0, zset.length) = expected
             /\ ZRangeByScore(zset, min, max, minEx, maxEx, 1, -1) = SubSeq(expected, 2, Len(expected))
             /\ ZRangeByScore(zset, min, max, minEx, maxEx, 0, 1) =
                  SubSeq(expected, 1, IF expected = <<>> THEN 0 ELSE 1)
  <2>1. Between(min, max, minEx, maxEx) = BetweenOf(zset, min, max, minEx, maxEx)
    BY Zenon DEF Between, BetweenOf
  <2>2. Exact(zset, min, max, minEx, maxEx)
    BY <1>1, <1>2, ExactIs
  <2>. QED  BY <2>1, <2>2, Zenon DEF Exact
<1>4. ASSUME NEW min \in Limits, NEW max \in Limits
      PROVE  LET n == Len(Between(min, max, FALSE, FALSE)) IN
             n # 1 \/ zset.length = 1 => ZCount(zset, min, max) = n
  <2>1. Between(min, max, FALSE, FALSE) = BetweenOf(zset, min, max, FALSE, FALSE)
    BY Zenon DEF Between, BetweenOf
  <2>2. Counted(zset, min, max)
    BY <1>1, <1>2, CountedIs
  <2>. QED  BY <2>1, <2>2, Zenon DEF Counted
<1>5. ASSUME NEW min \in Limits, NEW max \in Limits, NEW minEx \in BOOLEAN, NEW maxEx \in BOOLEAN
      PROVE  LET expected == Between(min, max, minEx, maxEx) IN
             /\ ZRangeByScore(zset, min, max, minEx, maxEx, 0, zset.length) = expected
             /\ ZRangeByScore(zset, min, max, minEx, maxEx, 1, -1) = SubSeq(expected, 2, Len(expected))
             /\ ZRangeByScore(zset, min, max, minEx, maxEx, 0, 1) =
                  SubSeq(expected, 1, IF expected = <<>> THEN 0 ELSE 1)
             /\ LET n == Len(Between(min, max, FALSE, FALSE)) IN
                n # 1 \/ zset.length = 1 => ZCount(zset, min, max) = n
  BY <1>3, <1>4, ZenonT(40)
<1>. QED  BY <1>5, Zenon DEF ScoreRangesAreExact

(***************************************************************************)
(* The steps: each keeps the invariant and is one of ScoreMap.             *)
(***************************************************************************)

(* The scores of the three: the map, the nodes and the refinement mapping. *)
LEMMA Wholly ==
  ASSUME Inv
  PROVE  /\ Whole(zset) /\ NodeScores = Scored(zset) /\ zset.map = Scored(zset) /\ DOMAIN Scored(zset) = Nodes(zset)
         /\ Scored(zset) \in [Nodes(zset) -> Scores]
<1>1. Whole(zset) /\ InstanceScores(zset)
  BY DEF Inv
<1>2. zset.map = Scored(zset)
  BY <1>1, WholeIs
<1>. QED  BY <1>1, <1>2 DEF InstanceScores, Scored, NodeScores

(* A score is set, members are taken: the two kinds of steps of ScoreMap.  *)
LEMMA ScoreSet ==
  ASSUME Inv, NEW m, NEW s \in Scores, Holds(zset', Mapped(Scored(zset), m, s))
  PROVE  /\ Inv'
         /\ NodeScores' = [n \in DOMAIN NodeScores \cup {m} |-> IF n = m THEN s ELSE NodeScores[n]]
         /\ ScoreOf(zset', m) = s
<1>1. Whole(zset') /\ Scored(zset') = Mapped(Scored(zset), m, s)
  BY DEF Holds
<1>2. DOMAIN Scored(zset') = Nodes(zset')
  BY DEF Scored
<1>3. InstanceScores(zset')
  BY <1>1, <1>2, Wholly DEF InstanceScores, Mapped
<1>4. Inv'
  BY <1>1, <1>3 DEF Inv
<1>5. NodeScores' = Scored(zset') /\ NodeScores = Scored(zset)
  BY Wholly DEF NodeScores, Scored
<1>6. ScoreOf(zset', m) = s
  <2>1. zset'.map = Scored(zset')
    BY <1>1, WholeIs
  <2>. QED  BY <1>1, <2>1 DEF ScoreOf, Has, Mapped
<1>. QED  BY <1>1, <1>4, <1>5, <1>6 DEF Mapped

LEMMA Taken ==
  ASSUME Inv, NEW S, Holds(zset', Promise!Without(Scored(zset), S))
  PROVE  Inv' /\ NodeScores' = Promise!Without(NodeScores, S)
<1>1. Whole(zset') /\ Scored(zset') = Promise!Without(Scored(zset), S)
  BY DEF Holds
<1>2. DOMAIN Scored(zset') = Nodes(zset')
  BY DEF Scored
<1>3. InstanceScores(zset')
  BY <1>1, <1>2, Wholly DEF InstanceScores, Promise!Without
<1>4. Inv'
  BY <1>1, <1>3 DEF Inv
<1>5. NodeScores' = Scored(zset') /\ NodeScores = Scored(zset)
  BY Wholly DEF NodeScores, Scored
<1>. QED  BY <1>1, <1>4, <1>5

(* Each action keeps the invariant and is the step of ScoreMap of that     *)
(* name.                                                                   *)
LEMMA AddStep ==
  ASSUME Inv, NEW m \in Members, NEW s \in Scores, NEW h \in Heights, AddScore(m, s, h)
  PROVE  Inv' /\ Promise!SetScore(m, s, <<"add", m, s>>, Promise!ScoreOf(m))
<1>1. zset' = Add(zset, m, s, h) /\ answer' = [request |-> <<"add", m, s>>, reply |-> ScoreOf(zset, m)]
  BY DEF AddScore, Answer
<1>2. Holds(zset', Mapped(Scored(zset), m, s))
  <2>1. Whole(zset) /\ s \in Int /\ h \in 1..MaxLevel
    BY ScoresAssumption DEF Inv, Heights
  <2>. QED  BY <1>1, <2>1, AddIs
<1>3. Inv' /\ NodeScores' = [n \in DOMAIN NodeScores \cup {m} |-> IF n = m THEN s ELSE NodeScores[n]]
  BY <1>2, ScoreSet
<1>4. ScoreOf(zset, m) = Promise!ScoreOf(m)
  BY Wholly DEF ScoreOf, Has, Promise!ScoreOf
<1>. QED  BY <1>1, <1>3, <1>4 DEF Promise!SetScore, Promise!Answer

LEMMA IncrStep ==
  ASSUME Inv, NEW m \in Members, NEW d \in Scores, NEW h \in Heights, IncrByScore(m, d, h)
  PROVE  Inv' /\ Promise!SetScore(m, Promise!Raised(m, d), <<"incrBy", m, d>>, Promise!Raised(m, d))
<1>1. /\ zset' = IncrBy(zset, d, m, h) /\ answer' = [request |-> <<"incrBy", m, d>>, reply |-> ScoreOf(zset', m)]
      /\ ScoreOf(zset', m) \in Scores
  BY DEF IncrByScore, Answer
<1>2. PICK r : r = IF m \in Nodes(zset) THEN Scored(zset)[m] + d ELSE d
  OBVIOUS
<1>3. Holds(zset', Mapped(Scored(zset), m, r))
  <2>1. Whole(zset) /\ d \in Int /\ h \in 1..MaxLevel
    BY ScoresAssumption DEF Inv, Heights
  <2>. QED  BY <1>1, <1>2, <2>1, IncrByIs
<1>4. r \in Scores
  <2>1. Whole(zset') /\ Scored(zset') = Mapped(Scored(zset), m, r)
    BY <1>3 DEF Holds
  <2>2. zset'.map = Scored(zset')
    BY <2>1, WholeIs
  <2>. QED  BY <1>1, <2>1, <2>2 DEF ScoreOf, Has, Mapped
<1>5. /\ Inv' /\ NodeScores' = [n \in DOMAIN NodeScores \cup {m} |-> IF n = m THEN r ELSE NodeScores[n]]
      /\ ScoreOf(zset', m) = r
  BY <1>3, <1>4, ScoreSet
<1>6. r = Promise!Raised(m, d)
  BY <1>2, Wholly DEF Promise!Raised
<1>. QED  BY <1>1, <1>5, <1>6 DEF Promise!SetScore, Promise!Answer

LEMMA ZIncrStep ==
  ASSUME Inv, NEW m \in Members, NEW d \in Scores, NEW h1 \in Heights, NEW h2 \in Heights,
         ZIncrByCommand(m, d, h1, h2)
  PROVE  Inv' /\ Promise!SetScore(m, Promise!Raised(m, d), <<"zincrby", m, d>>, Promise!Raised(m, d))
<1>1. PICK y : y = IF Has(zset, m) THEN zset ELSE Add(zset, m, 0, h1)
  OBVIOUS
<1>2. /\ zset' = IncrBy(y, d, m, h2) /\ answer' = [request |-> <<"zincrby", m, d>>, reply |-> ScoreOf(zset', m)]
      /\ ScoreOf(zset', m) \in Scores
  BY <1>1 DEF ZIncrByCommand, Answer
<1>3. /\ Whole(zset) /\ d \in Int /\ 0 \in Int /\ h1 \in 1..MaxLevel /\ h2 \in 1..MaxLevel
      /\ (Has(zset, m) <=> m \in Nodes(zset)) /\ DOMAIN Scored(zset) = Nodes(zset)
  BY ScoresAssumption, Wholly DEF Inv, Heights, Has
<1>4. Whole(y) /\ m \in Nodes(y) /\ Scored(y) = (IF Has(zset, m) THEN Scored(zset) ELSE Mapped(Scored(zset), m, 0))
  <2>1. CASE Has(zset, m)
    BY <1>1, <1>3, <2>1
  <2>2. CASE ~Has(zset, m)
    <3>1. y = Add(zset, m, 0, h1)
      BY <1>1, <2>2
    <3>2. Holds(y, Mapped(Scored(zset), m, 0))
      BY <1>3, <3>1, AddIs
    <3>3. DOMAIN Scored(y) = Nodes(y) /\ m \in DOMAIN Mapped(Scored(zset), m, 0)
      BY DEF Scored, Mapped
    <3>. QED  BY <2>2, <3>2, <3>3 DEF Holds
  <2>. QED  BY <2>1, <2>2
<1>5. PICK r : r = IF m \in Nodes(zset) THEN Scored(zset)[m] + d ELSE d
  OBVIOUS
<1>6. Holds(zset', Mapped(Scored(zset), m, r))
  <2>1. Holds(zset', Mapped(Scored(y), m, IF m \in Nodes(y) THEN Scored(y)[m] + d ELSE d))
    BY <1>2, <1>3, <1>4, IncrByIs
  <2>2. Scored(y)[m] + d = r
    BY <1>3, <1>4, <1>5 DEF Mapped
  <2>3. Mapped(Scored(y), m, r) = Mapped(Scored(zset), m, r)
    BY <1>3, <1>4 DEF Mapped
  <2>. QED  BY <1>4, <2>1, <2>2, <2>3
<1>7. r \in Scores
  <2>1. Whole(zset') /\ Scored(zset') = Mapped(Scored(zset), m, r)
    BY <1>6 DEF Holds
  <2>2. zset'.map = Scored(zset')
    BY <2>1, WholeIs
  <2>. QED  BY <1>2, <2>1, <2>2 DEF ScoreOf, Has, Mapped
<1>8. /\ Inv' /\ NodeScores' = [n \in DOMAIN NodeScores \cup {m} |-> IF n = m THEN r ELSE NodeScores[n]]
      /\ ScoreOf(zset', m) = r
  BY <1>6, <1>7, ScoreSet
<1>9. r = Promise!Raised(m, d)
  BY <1>5, Wholly DEF Promise!Raised
<1>. QED  BY <1>2, <1>8, <1>9 DEF Promise!SetScore, Promise!Answer

LEMMA ZAddStep ==
  ASSUME Inv, NEW m \in Members, NEW s \in Scores, ZAddCommand(m, s)
  PROVE  Inv' /\ Promise!ZAdd(m, s)
<1>1. zset' = zset /\ answer' = [request |-> <<"zadd", m, s>>, reply |-> <<"error">>]
  BY DEF ZAddCommand, Answer
<1>2. Inv'
  BY <1>1 DEF Inv
<1>3. NodeScores' = NodeScores
  BY <1>1 DEF NodeScores, Nodes
<1>4. NodeScores = Promise!Without(NodeScores, {})
  BY DEF NodeScores, Promise!Without
<1>5. Promise!Take({}, <<"zadd", m, s>>, <<"error">>)
  BY <1>1, <1>3, <1>4 DEF Promise!Take, Promise!Answer
<1>. QED  BY <1>2, <1>5 DEF Promise!ZAdd

LEMMA RemStep ==
  ASSUME Inv, NEW m \in Members, RemMember(m)
  PROVE  Inv' /\ Promise!Take({m}, <<"rem", m>>, Promise!ScoreOf(m))
<1>1. zset' = Rem(zset, m) /\ answer' = [request |-> <<"rem", m>>, reply |-> ScoreOf(zset, m)]
  BY DEF RemMember, Answer
<1>2. Holds(zset', Promise!Without(Scored(zset), {m}))
  <2>1. Holds(zset', [n \in Nodes(zset) \ {m} |-> Scored(zset)[n]])
    BY <1>1, RemIs DEF Inv
  <2>2. [n \in Nodes(zset) \ {m} |-> Scored(zset)[n]] = Promise!Without(Scored(zset), {m})
    BY Wholly DEF Promise!Without
  <2>. QED  BY <2>1, <2>2
<1>3. Inv' /\ NodeScores' = Promise!Without(NodeScores, {m})
  BY <1>2, Taken
<1>4. ScoreOf(zset, m) = Promise!ScoreOf(m)
  BY Wholly DEF ScoreOf, Has, Promise!ScoreOf
<1>. QED  BY <1>1, <1>3, <1>4 DEF Promise!Take, Promise!Answer

LEMMA EmptyStep ==
  ASSUME Inv, Empty
  PROVE  Inv' /\ Promise!Take(DOMAIN NodeScores, <<"empty">>, Null)
<1>1. zset' = EmptySet /\ answer' = [request |-> <<"empty">>, reply |-> Null]
  BY DEF Empty, Answer
<1>2. Holds(zset', Promise!Without(Scored(zset), DOMAIN NodeScores))
  <2>1. Whole(zset') /\ Nodes(zset') = {}
    BY <1>1, EmptyIs
  <2>2. DOMAIN NodeScores = DOMAIN Scored(zset)
    BY Wholly
  <2>. QED  BY <2>1, <2>2 DEF Holds, Scored, Promise!Without
<1>3. Inv' /\ NodeScores' = Promise!Without(NodeScores, DOMAIN NodeScores)
  BY <1>2, Taken
<1>. QED  BY <1>1, <1>3 DEF Promise!Take, Promise!Answer

(* Whole sets are as long as they have nodes.                              *)
LEMMA Lengths ==
  ASSUME NEW z, Whole(z)
  PROVE  z.length \in Nat /\ IsFiniteSet(Nodes(z)) /\ Cardinality(Nodes(z)) = z.length
<1>1. PICK N, a, v, g : Linked(z, N, a, v, g) /\ z.length = N
  BY DEF Whole
<1>2. N \in Nat /\ Nodes(z) = {a[p] : p \in 1..N}
  BY <1>1, LinkedTypes, LinkedNodes
<1>3. 1 \in Nat \ {0} /\ N <= N
  BY <1>2
<1>4. IsFiniteSet(Nodes(z)) /\ Cardinality(Nodes(z)) = Size(1, N)
  BY <1>1, <1>2, <1>3, PieceSize
<1>5. Size(1, N) = N
  BY <1>2 DEF Size
<1>. QED  BY <1>1, <1>2, <1>4, <1>5

(* The reply of a removal is the number of members that went.              *)
LEMMA RemovedStep ==
  ASSUME Inv, NEW S \in SUBSET DOMAIN NodeScores, Removed(zset', zset, S), NEW request,
         answer' = [request |-> request, reply |-> zset.length - zset'.length]
  PROVE  Inv' /\ Promise!Take(S, request, Promise!Cardinality(S))
<1>1. Inv' /\ NodeScores' = Promise!Without(NodeScores, S)
  BY Taken DEF Removed
<1>2. zset.length - zset'.length = Cardinality(S)
  <2>1. zset.length \in Nat /\ IsFiniteSet(Nodes(zset))
    BY Lengths DEF Inv
  <2>2. S \subseteq Nodes(zset)
    BY DEF NodeScores
  <2>3. IsFiniteSet(S)
    BY <2>1, <2>2, FS_Subset
  <2>4. Cardinality(S) \in Nat
    BY <2>3, FS_CardinalityType
  <2>5. zset'.length = zset.length - Cardinality(S)
    BY DEF Removed
  <2>. QED  BY <2>1, <2>4, <2>5
<1>3. Cardinality(S) = Promise!Cardinality(S)
  BY SameCardinality
<1>. QED  BY <1>1, <1>2, <1>3 DEF Promise!Take, Promise!Answer

(* The two range removals and ZREM, which takes two members one by one.    *)
LEMMA RemScoresStep ==
  ASSUME Inv, NEW min \in Limits, NEW max \in Limits, RemScores(min, max)
  PROVE  LET S == Promise!WithScore(NodeScores, min, max) IN
         Inv' /\ Promise!Take(S, <<"remRangeByScore", min, max>>, Promise!Cardinality(S))
<1>1. /\ zset' = RemRangeByScore(zset, min, max)
      /\ answer' = [request |-> <<"remRangeByScore", min, max>>, reply |-> zset.length - zset'.length]
  BY DEF RemScores, Answer
<1>2. PICK S : S = Promise!WithScore(NodeScores, min, max)
  OBVIOUS
<1>3. Removed(zset', zset, S)
  <2>1. Whole(zset) /\ min \in Int /\ max \in Int /\ S = Promise!WithScore(Scored(zset), min, max)
    BY <1>2, Wholly, RangesAssumption
  <2>. QED  BY <1>1, <2>1, RemRangeByScoreIs
<1>4. S \in SUBSET DOMAIN NodeScores
  BY <1>2 DEF Promise!WithScore
<1>5. PICK request : request = <<"remRangeByScore", min, max>>
  OBVIOUS
<1>6. Inv' /\ Promise!Take(S, request, Promise!Cardinality(S))
  BY <1>1, <1>3, <1>4, <1>5, RemovedStep
<1>. QED  BY <1>2, <1>5, <1>6

LEMMA RemRanksStep ==
  ASSUME Inv, NEW x \in Indices, NEW y \in Indices, RemRanks(x, y)
  PROVE  LET S == Promise!Slice(NodeScores, x, y) IN
         Inv' /\ Promise!Take(S, <<"remRangeByRank", x, y>>, Promise!Cardinality(S))
<1>1. /\ zset' = RemRangeByRank(zset, x, y)
      /\ answer' = [request |-> <<"remRangeByRank", x, y>>, reply |-> zset.length - zset'.length]
  BY DEF RemRanks, Answer
<1>2. PICK S : S = Promise!Slice(NodeScores, x, y)
  OBVIOUS
<1>7. Whole(zset) /\ x \in Int /\ y \in Int /\ S = Promise!Slice(Scored(zset), x, y)
  BY <1>2, Wholly, RangesAssumption
<1>3. Removed(zset', zset, S)
  BY <1>1, <1>7, RemRangeByRankIs
<1>4. S \in SUBSET DOMAIN NodeScores
  <2>1. PICK N, a, v, g : Linked(zset, N, a, v, g) /\ zset.length = N
    BY <1>7 DEF Whole
  <2>2. S = Stretch(a, N, FromStart(zset, x), FromStart(zset, y))
    BY <1>7, <2>1, SliceIs
  <2>3. Nodes(zset) = {a[p] : p \in 1..N}
    BY <2>1, LinkedNodes
  <2>. QED  BY <2>2, <2>3 DEF Stretch, NodeScores
<1>5. PICK request : request = <<"remRangeByRank", x, y>>
  OBVIOUS
<1>6. Inv' /\ Promise!Take(S, request, Promise!Cardinality(S))
  BY <1>1, <1>3, <1>4, <1>5, RemovedStep
<1>. QED  BY <1>2, <1>5, <1>6

LEMMA ZRemStep ==
  ASSUME Inv, NEW m \in Members, NEW n \in Members, ZRemCommand(m, n)
  PROVE  Inv' /\ Promise!Take({m, n}, <<"zrem", m, n>>, Promise!Cardinality({m, n} \cap DOMAIN NodeScores))
<1>1. PICK y : y = Rem(zset, m)
  OBVIOUS
<1>2. PICK z : z = Rem(y, n)
  OBVIOUS
<1>3. PICK R : R = {x \in {m} : Has(zset, x)} \cup {x \in {n} : Has(y, x)}
  OBVIOUS
<1>4. /\ zset' = IF z.length = 0 THEN EmptySet ELSE z
      /\ answer' = [request |-> <<"zrem", m, n>>, reply |-> Cardinality(R)]
  BY <1>1, <1>2, <1>3 DEF ZRemCommand, Answer
<1>5. Holds(y, [x \in Nodes(zset) \ {m} |-> Scored(zset)[x]])
  BY <1>1, RemIs DEF Inv
<1>6. Whole(y) /\ Nodes(y) = Nodes(zset) \ {m} /\ \A x : Has(y, x) <=> x \in Nodes(y)
  <2>1. DOMAIN Scored(y) = Nodes(y)
    BY DEF Scored
  <2>2. Whole(y) /\ Scored(y) = [x \in Nodes(zset) \ {m} |-> Scored(zset)[x]]
    BY <1>5 DEF Holds
  <2>3. DOMAIN y.map = Nodes(y)
    BY <2>2, WholeIs
  <2>. QED  BY <2>1, <2>2, <2>3 DEF Has
<1>7. Holds(z, [x \in Nodes(y) \ {n} |-> Scored(y)[x]])
  BY <1>2, <1>6, RemIs
<1>8. Holds(z, Promise!Without(Scored(zset), {m, n}))
  <2>1. Scored(y) = [x \in Nodes(zset) \ {m} |-> Scored(zset)[x]]
    BY <1>5 DEF Holds
  <2>2. [x \in Nodes(y) \ {n} |-> Scored(y)[x]] = Promise!Without(Scored(zset), {m, n})
    BY <1>6, <2>1, Wholly DEF Promise!Without
  <2>. QED  BY <1>7, <2>2
<1>9. Holds(zset', Promise!Without(Scored(zset), {m, n}))
  <2>1. CASE z.length # 0
    BY <1>4, <1>8, <2>1
  <2>2. CASE z.length = 0
    <3>1. Whole(z)
      BY <1>8 DEF Holds
    <3>2. Nodes(z) = {}
      <4>1. IsFiniteSet(Nodes(z)) /\ Cardinality(Nodes(z)) = 0
        BY <2>2, <3>1, Lengths
      <4>. QED  BY <4>1, FS_EmptySet
    <3>3. Scored(EmptySet) = Scored(z) /\ Whole(EmptySet)
      BY <3>2, EmptyIs DEF Scored
    <3>. QED  BY <1>4, <1>8, <2>2, <3>3 DEF Holds
  <2>. QED  BY <2>1, <2>2
<1>10. Inv' /\ NodeScores' = Promise!Without(NodeScores, {m, n})
  BY <1>9, Taken
<1>11. Cardinality(R) = Promise!Cardinality({m, n} \cap DOMAIN NodeScores)
  <2>1. \A x : Has(zset, x) <=> x \in Nodes(zset)
    BY Wholly DEF Has
  <2>2. R = {m, n} \cap DOMAIN NodeScores
    BY <1>3, <1>6, <2>1 DEF NodeScores
  <2>. QED  BY <2>2, SameCardinality
<1>. QED  BY <1>4, <1>10, <1>11 DEF Promise!Take, Promise!Answer

(* The empty set is the empty map.                                         *)
LEMMA InitIs ==
  ASSUME Init
  PROVE  Inv /\ Promise!Init
<1>1. zset = EmptySet /\ answer = [request |-> <<"none">>, reply |-> Null]
  BY DEF Init
<1>2. Whole(zset) /\ Nodes(zset) = {}
  BY <1>1, EmptyIs
<1>3. NodeScores = <<>>
  BY <1>2 DEF NodeScores
<1>. QED  BY <1>1, <1>2, <1>3 DEF Inv, InstanceScores, Promise!Init

(* Every step.                                                             *)
LEMMA StepIs ==
  ASSUME Inv, Next
  PROVE  Inv' /\ Promise!Next
<1>1. ASSUME NEW m \in Members, NEW s \in Scores, NEW h \in Heights, AddScore(m, s, h)
      PROVE  Inv' /\ Promise!Next
  BY <1>1, AddStep DEF Promise!Next
<1>2. ASSUME NEW m \in Members, NEW s \in Scores, NEW h \in Heights, IncrByScore(m, s, h)
      PROVE  Inv' /\ Promise!Next
  BY <1>2, IncrStep DEF Promise!Next
<1>3. ASSUME NEW m \in Members, NEW s \in Scores, ZAddCommand(m, s)
      PROVE  Inv' /\ Promise!Next
  BY <1>3, ZAddStep DEF Promise!Next
<1>4. ASSUME NEW m \in Members, NEW d \in Scores, NEW h1 \in Heights, NEW h2 \in Heights, ZIncrByCommand(m, d, h1, h2)
      PROVE  Inv' /\ Promise!Next
  BY <1>4, ZIncrStep DEF Promise!Next
<1>5. ASSUME NEW m \in Members, RemMember(m)
      PROVE  Inv' /\ Promise!Next
  BY <1>5, RemStep DEF Promise!Next
<1>6. ASSUME NEW m \in Members, NEW n \in Members, ZRemCommand(m, n)
      PROVE  Inv' /\ Promise!Next
  BY <1>6, ZRemStep DEF Promise!Next
<1>7. ASSUME NEW x \in Indices, NEW y \in Indices, RemRanks(x, y)
      PROVE  Inv' /\ Promise!Next
  BY <1>7, RemRanksStep DEF Promise!Next
<1>8. ASSUME NEW min \in Limits, NEW max \in Limits, RemScores(min, max)
      PROVE  Inv' /\ Promise!Next
  BY <1>8, RemScoresStep DEF Promise!Next
<1>9. ASSUME Empty
      PROVE  Inv' /\ Promise!Next
  BY <1>9, EmptyStep DEF Promise!Next
<1>. QED  BY <1>1, <1>2, <1>3, <1>4, <1>5, <1>6, <1>7, <1>8, <1>9 DEF Next

(* The list of nodes, its links on every level in use, their spans, the    *)
(* links back, tail, level, length and map agree after every request (every*)
(* method and command of SortedSet).                                       *)
THEOREM SetInvariance == Spec => []Inv
<1>1. Init => Inv
  BY InitIs
<1>2. Inv /\ [Next]_vars => Inv'
  <2>1. ASSUME Inv, UNCHANGED vars PROVE Inv'
    BY <2>1 DEF vars, Inv
  <2>. QED  BY StepIs, <2>1
<1>. QED  BY <1>1, <1>2, PTL DEF Spec

(* On the lowest level the list has the members of the map, each once, by  *)
(* score and then by name; prev, tail and length agree with it.            *)
THEOREM SetIsInOrder == Spec => []ListIsInOrder
<1>1. Inv => ListIsInOrder
  BY InOrder
<1>. QED  BY <1>1, SetInvariance, PTL

(* On every level in use a link leads to the next node that is high enough,*)
(* and its span is the way there: what _insert, _removeNode and the loops  *)
(* of the range removals keep up by adding and taking away ones.           *)
THEOREM SetSpans == Spec => []SpansAreDistances
<1>1. Inv => SpansAreDistances
  BY Distances
<1>. QED  BY <1>1, SetInvariance, PTL

(* ZRANK is the position in the order, _get finds the node at an index, and*)
(* ZRANGE is a slice of the order, for the ends RanksArePositions names.   *)
THEOREM SetRanks == Spec => []RanksArePositions
<1>1. Inv => RanksArePositions
  BY ByPosition
<1>. QED  BY <1>1, SetInvariance, PTL

(* ZRANGEBYSCORE gives the members of the range in order, with LIMIT or    *)
(* without, and ZCOUNT their number, for the ranges ScoreRangesAreExact    *)
(* names.                                                                  *)
THEOREM SetScoreRanges == Spec => []ScoreRangesAreExact
<1>1. Inv => ScoreRangesAreExact
  BY ByScore
<1>. QED  BY <1>1, SetInvariance, PTL

(* The skip list is as good as a map: every method and command changes the *)
(* scores that ScoreMap changes and has its reply, the range removals with *)
(* the number of members that went.                                        *)
THEOREM SetImplementsScoreMap == Spec => ImplementsScoreMap
<1>1. Init => Promise!Init
  BY InitIs
<1>2. Inv /\ [Next]_vars => [Promise!Next]_(Promise!vars)
  <2>1. ASSUME Inv, Next PROVE Promise!Next
    BY <2>1, StepIs
  <2>2. ASSUME UNCHANGED vars PROVE UNCHANGED Promise!vars
    BY <2>2 DEF vars, Promise!vars, NodeScores, Nodes
  <2>. QED  BY <2>1, <2>2
<1>. QED  BY <1>1, <1>2, SetInvariance, PTL DEF Spec, ImplementsScoreMap, Promise!Spec
=============================================================================
