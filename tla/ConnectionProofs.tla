-------------------------- MODULE ConnectionProofs ---------------------------
(***************************************************************************)
(* Theorems about Connection, for any sockets, names and bounds.           *)
(*                                                                         *)
(* A stream is a part of what was written to it, in order and with nothing *)
(* missing behind its head: Orderly.  What was cut can thus be told from   *)
(* the head of the stream alone, and what a chunk holds from its first and *)
(* last unit.  The parser and the session go through a chunk step by step; *)
(* what they have done after any number of steps is stated and carried     *)
(* from each step to the next.                                             *)
(***************************************************************************)
EXTENDS Connection, SequenceTheorems, FiniteSetTheorems, WellFoundedInduction, TLAPS

Socket(i) == requests[i].socket

(* Units come in the order of their ids and places; behind one that is not *)
(* the last of its id comes the next of that id, and before one that is    *)
(* not the first and not the head came the one before.                     *)
Orderly(q, n) ==
  /\ \A j, k \in 1..Len(q) : j < k =>
       \/ q[j][1] < q[k][1]
       \/ q[j][1] = q[k][1] /\ q[k][2] - q[j][2] = k - j
  /\ \A j \in 1..Len(q) : q[j][2] < n =>
       j + 1 \in 1..Len(q) /\ q[j + 1] = <<q[j][1], q[j][2] + 1>>
  /\ \A j \in 2..Len(q) : q[j][2] > 1 => q[j - 1] = <<q[j][1], q[j][2] - 1>>

(* Requests come in order, each on its connection and after whatever has   *)
(* arrived there.                                                          *)
RequestStreams ==
  \A s \in Sockets :
    /\ Orderly(toServer[s], RequestUnits)
    /\ \A j \in 1..Len(toServer[s]) :
         LET i == toServer[s][j][1] IN
         /\ s \in connected /\ i \in DOMAIN requests /\ Socket(i) = s /\ i > log.since[s]
         /\ \A k \in Range(handled) \cup log.whole : Socket(k) = s => k < i

(* Replies come in order, to requests that were handled.                   *)
ReplyStreams ==
  \A s \in Sockets :
    /\ Orderly(toClient[s], ReplyUnits)
    /\ \A j \in 1..Len(toClient[s]) :
         LET i == toClient[s][j][1] IN
         s \in connected /\ i \in Range(handled) /\ Socket(i) = s

Bounded ==
  /\ Len(requests) <= MaxRequests
  /\ replies = [i \in Ids |-> replies[i]]
  /\ log.lone \cup log.whole \cup log.cut \subseteq DOMAIN requests
  /\ \A s \in Sockets : log.since[s] <= Len(requests)
  /\ \A i \in Range(handled) : replies[i] # None

(* What was cut has lost its header; a stream that begins inside a request *)
(* begins with the string of one that was cut, or else its socket is torn. *)
CutsAreKnown ==
  \A s \in Sockets :
    /\ \A j \in 1..Len(toServer[s]) : toServer[s][j][2] = 1 => toServer[s][j][1] \notin log.cut
    /\ s \notin log.torn /\ toServer[s] # <<>> =>
         \/ toServer[s][1][2] = 1
         \/ toServer[s][1][2] = 2 /\ toServer[s][1][1] \in log.cut

HandledInOrder ==
  \A m, n \in 1..Len(handled) :
    m < n /\ Socket(handled[m]) = Socket(handled[n]) => handled[m] < handled[n]

HandledIsWhole ==
  \A i \in DOMAIN requests : Socket(i) \notin log.torn =>
    (i \in Range(handled) <=> i \in log.whole /\ i \notin log.cut)

NamesAreLast == clients = [s \in connected |-> LastName(s, Range(handled))]

ListenersAreOwn == \A s \in Sockets : \A i \in listeners[s] : Socket(i) = s

(* A lone request is on its way, or its reply is, or it has its reply.     *)
OnItsWay(i, s) ==
  /\ toServer[s] = Units(i, RequestUnits) /\ toClient[s] = <<>>
  /\ i \in listeners[s] /\ answers[i] = None /\ i \notin Range(handled)

OnItsWayBack(i, s) ==
  /\ toServer[s] = <<>> /\ toClient[s] = Units(i, ReplyUnits)
  /\ i \in listeners[s] /\ answers[i] = None /\ i \in Range(handled)

IsBack(i) == i \in Range(handled) /\ answers[i] = replies[i]

LoneOnes ==
  \A i \in log.lone \ OfKind("wide") :
    OnItsWay(i, Socket(i)) \/ OnItsWayBack(i, Socket(i)) \/ IsBack(i)

Inv ==
  /\ TypeOK /\ Bounded /\ RequestStreams /\ ReplyStreams /\ CutsAreKnown
  /\ HandledInOrder /\ HandledIsWhole /\ NamesAreLast /\ ListenersAreOwn /\ LoneOnes

(***************************************************************************)
(* Numbers up to n, in place of induction, and functions defined along     *)
(* them.                                                                   *)
(***************************************************************************)
LEMMA Reach ==
  ASSUME NEW n \in Nat, NEW G, 0 \in G, \A i \in 1..n : i - 1 \in G => i \in G
  PROVE  \A i \in 0..n : i \in G
<1>. SUFFICES ASSUME NEW m \in 0..n, m \notin G PROVE FALSE
  OBVIOUS
<1>1. PICK N : N = {i \in 0..n : i \notin G}
  OBVIOUS
<1>2. N \in SUBSET Nat /\ N # {}
  BY <1>1
<1>3. PICK R : R = {ss \in Nat \X Nat : ss[1] < ss[2]}
  OBVIOUS
<1>4. IsWellFoundedOn(R, Nat)
  BY <1>3, NatLessThanWellFounded, Zenon DEF OpToRel
<1>5. PICK u \in N : \A v \in N : ~(<<v, u>> \in R)
  BY <1>2, <1>4, WFMin, Zenon
<1>6. u \in 0..n /\ u \notin G
  BY <1>1
<1>7. u # 0 /\ u - 1 \in 0..n /\ u \in 1..n
  BY <1>6
<1>8. u - 1 \notin G
  BY <1>6, <1>7
<1>9. u - 1 \in N /\ <<u - 1, u>> \in R
  BY <1>1, <1>3, <1>6, <1>7, <1>8
<1>. QED  BY <1>5, <1>9

IsIteration(f, S, a, n, g) ==
  /\ f \in [0..n -> S]
  /\ \A i \in 0..n : f[i] = IF i = 0 THEN a ELSE g[<<f[i - 1], i>>]

LEMMA IterationExists ==
  ASSUME NEW S, NEW a \in S, NEW n \in Nat, NEW g \in [S \X (1..n) -> S]
  PROVE  \E f : IsIteration(f, S, a, n, g)
<1>1. PICK G : G = {m \in 0..n : \E f \in [0..m -> S] :
                      \A i \in 0..m : f[i] = IF i = 0 THEN a ELSE g[<<f[i - 1], i>>]}
  OBVIOUS
<1>2. 0 \in G
  <2>1. PICK f : f = [i \in 0..0 |-> a]
    OBVIOUS
  <2>2. f \in [0..0 -> S]
    BY <2>1
  <2>3. \A i \in 0..0 : f[i] = IF i = 0 THEN a ELSE g[<<f[i - 1], i>>]
    BY <2>1
  <2>4. 0 \in 0..n
    OBVIOUS
  <2>. QED  BY <1>1, <2>2, <2>3, <2>4
<1>3. ASSUME NEW u \in 1..n, u - 1 \in G
      PROVE  u \in G
  <2>1. PICK f \in [0..(u - 1) -> S] :
          \A i \in 0..(u - 1) : f[i] = IF i = 0 THEN a ELSE g[<<f[i - 1], i>>]
    BY <1>1, <1>3
  <2>2. PICK x : x = g[<<f[u - 1], u>>]
    OBVIOUS
  <2>3. x \in S
    BY <2>2
  <2>4. PICK h : h = [i \in 0..u |-> IF i = u THEN x ELSE f[i]]
    OBVIOUS
  <2>5. \A i \in 0..(u - 1) : h[i] = f[i] /\ i \in 0..u
    BY <2>4
  <2>6. h \in [0..u -> S]
    BY <2>3, <2>4
  <2>7. ASSUME NEW i \in 0..u
        PROVE  h[i] = IF i = 0 THEN a ELSE g[<<h[i - 1], i>>]
    <3>1. CASE i = u
      <4>1. h[i] = x /\ i # 0 /\ i - 1 \in 0..(u - 1)
        BY <2>4, <3>1
      <4>2. h[i - 1] = f[u - 1]
        BY <2>5, <3>1, <4>1
      <4>. QED  BY <2>2, <3>1, <4>1, <4>2
    <3>2. CASE i # u
      <4>1. i \in 0..(u - 1) /\ (i # 0 => i - 1 \in 0..(u - 1))
        BY <3>2
      <4>2. h[i] = f[i] /\ (i # 0 => h[i - 1] = f[i - 1])
        BY <2>5, <4>1
      <4>. QED  BY <2>1, <4>1, <4>2
    <3>. QED  BY <3>1, <3>2
  <2>. QED  BY <1>1, <2>6, <2>7
<1>4. n \in G
  BY <1>2, <1>3, Reach
<1>. QED  BY <1>1, <1>4 DEF IsIteration

(***************************************************************************)
(* Streams.                                                                *)
(***************************************************************************)
UnitSeq(n) == Seq(Ids \X (1..n))

LEMMA UnitsAreOrderly ==
  ASSUME NEW i \in Ids, NEW n \in Nat
  PROVE  /\ Units(i, n) \in UnitSeq(n) /\ Len(Units(i, n)) = n
         /\ \A j \in 1..n : Units(i, n)[j] = <<i, j>>
         /\ Orderly(Units(i, n), n)
<1>1. Units(i, n) \in UnitSeq(n) /\ Len(Units(i, n)) = n /\ \A j \in 1..n : Units(i, n)[j] = <<i, j>>
  BY DEF Units, UnitSeq
<1>2. PICK u : u = Units(i, n)
  OBVIOUS
<1>. QED  BY <1>1, <1>2 DEF Orderly

LEMMA PartsOf ==
  ASSUME NEW n \in Nat, NEW q \in UnitSeq(n), NEW m \in 0..Len(q)
  PROVE  /\ After(q, m) \in UnitSeq(n) /\ Len(After(q, m)) = Len(q) - m
         /\ \A j \in 1..(Len(q) - m) : After(q, m)[j] = q[m + j]
         /\ SubSeq(q, 1, m) \in UnitSeq(n) /\ Len(SubSeq(q, 1, m)) = m
         /\ \A j \in 1..m : SubSeq(q, 1, m)[j] = q[j]
  BY DEF After, UnitSeq

LEMMA UnitsIn ==
  ASSUME NEW n \in Nat, NEW q \in UnitSeq(n), NEW j \in 1..Len(q)
  PROVE  q[j] = <<q[j][1], q[j][2]>> /\ q[j][1] \in Ids /\ q[j][2] \in 1..n
  BY DEF UnitSeq

(* The three parts of Orderly, of a stream of which the length is known.   *)
Sorted(q, l) ==
  \A j, k \in 1..l : j < k => \/ q[j][1] < q[k][1]
                              \/ q[j][1] = q[k][1] /\ q[k][2] - q[j][2] = k - j

Finished(q, l, n) ==
  \A j \in 1..l : q[j][2] < n => j < l /\ q[j + 1] = <<q[j][1], q[j][2] + 1>>

Begun(q, l) == \A j \in 2..l : q[j][2] > 1 => q[j - 1] = <<q[j][1], q[j][2] - 1>>

LEMMA OrderlyParts ==
  ASSUME NEW n \in Nat, NEW q \in UnitSeq(n), NEW l, l = Len(q)
  PROVE  l \in Nat /\ (Orderly(q, n) <=> Sorted(q, l) /\ Finished(q, l, n) /\ Begun(q, l))
<1>1. l \in Nat
  BY LenProperties DEF UnitSeq
<1>2. Orderly(q, n) => Sorted(q, l) /\ Finished(q, l, n) /\ Begun(q, l)
  BY <1>1 DEF Orderly, Sorted, Finished, Begun
<1>3. ASSUME Sorted(q, l), Finished(q, l, n), Begun(q, l)
      PROVE  Orderly(q, n)
  <2>1. ASSUME NEW j \in 1..l, q[j][2] < n
        PROVE  j + 1 \in 1..l /\ q[j + 1] = <<q[j][1], q[j][2] + 1>>
    BY <1>1, <1>3, <2>1 DEF Finished
  <2>. QED  BY <1>3, <2>1 DEF Orderly, Sorted, Begun
<1>. QED  BY <1>1, <1>2, <1>3

LEMMA AfterIsOrderly ==
  ASSUME NEW n \in Nat, NEW q \in UnitSeq(n), Orderly(q, n), NEW m \in 0..Len(q)
  PROVE  Orderly(After(q, m), n)
<1>1. PICK p : p = After(q, m)
  OBVIOUS
<1>2. PICK l : l = Len(q)
  OBVIOUS
<1>3. PICK k : k = l - m
  OBVIOUS
<1>4. l \in Nat /\ m \in 0..l /\ k \in 0..l
  BY <1>2, <1>3, LenProperties DEF UnitSeq
<1>5. p \in UnitSeq(n) /\ Len(p) = k /\ \A j \in 1..k : p[j] = q[m + j]
  BY <1>1, <1>2, <1>3, PartsOf
<1>6. Sorted(q, l) /\ Finished(q, l, n) /\ Begun(q, l)
  BY <1>2, OrderlyParts
<1>7. Sorted(p, k)
  <2>. SUFFICES ASSUME NEW i \in 1..k, NEW j \in 1..k, i < j
                PROVE  \/ p[i][1] < p[j][1]
                       \/ p[i][1] = p[j][1] /\ p[j][2] - p[i][2] = j - i
    BY DEF Sorted
  <2>1. m + i \in 1..l /\ m + j \in 1..l /\ m + i < m + j /\ (m + j) - (m + i) = j - i
    BY <1>3, <1>4
  <2>2. p[i] = q[m + i] /\ p[j] = q[m + j]
    BY <1>5
  <2>. QED  BY <1>6, <2>1, <2>2 DEF Sorted
<1>8. Finished(p, k, n)
  <2>. SUFFICES ASSUME NEW j \in 1..k, p[j][2] < n
                PROVE  j < k /\ p[j + 1] = <<p[j][1], p[j][2] + 1>>
    BY DEF Finished
  <2>1. m + j \in 1..l /\ (m + j < l => j + 1 \in 1..k /\ j < k) /\ (m + j) + 1 = m + (j + 1)
    BY <1>3, <1>4
  <2>2. p[j] = q[m + j]
    BY <1>5
  <2>3. m + j < l /\ q[(m + j) + 1] = <<p[j][1], p[j][2] + 1>>
    BY <1>6, <2>1, <2>2 DEF Finished
  <2>. QED  BY <1>5, <2>1, <2>3
<1>9. Begun(p, k)
  <2>. SUFFICES ASSUME NEW j \in 2..k, p[j][2] > 1
                PROVE  p[j - 1] = <<p[j][1], p[j][2] - 1>>
    BY DEF Begun
  <2>1. m + j \in 2..l /\ (m + j) - 1 = m + (j - 1) /\ j - 1 \in 1..k /\ j \in 1..k
    BY <1>3, <1>4
  <2>2. p[j] = q[m + j] /\ p[j - 1] = q[m + (j - 1)]
    BY <1>5, <2>1
  <2>. QED  BY <1>6, <2>1, <2>2 DEF Begun
<1>. QED  BY <1>1, <1>5, <1>7, <1>8, <1>9, OrderlyParts

LEMMA JoinIsOrderly ==
  ASSUME NEW n \in Nat, NEW p \in UnitSeq(n), NEW q \in UnitSeq(n), Orderly(p, n), Orderly(q, n),
         \A j \in 1..Len(p), k \in 1..Len(q) : p[j][1] < q[k][1],
         Len(q) > 0 => q[1][2] = 1
  PROVE  p \o q \in UnitSeq(n) /\ Orderly(p \o q, n)
<1>1. PICK r : r = p \o q
  OBVIOUS
<1>2. PICK a : a = Len(p)
  OBVIOUS
<1>3. PICK b : b = Len(q)
  OBVIOUS
<1>4. PICK c : c = a + b
  OBVIOUS
<1>5. a \in Nat /\ b \in Nat /\ c \in Nat
  BY <1>2, <1>3, <1>4, LenProperties DEF UnitSeq
<1>6. r \in UnitSeq(n) /\ Len(r) = c
  BY <1>1, <1>2, <1>3, <1>4, ConcatProperties DEF UnitSeq
<1>7. \A j \in 1..a : r[j] = p[j]
  BY <1>1, <1>2, <1>3, <1>5, ConcatProperties DEF UnitSeq
<1>8. \A j \in 1..b : r[a + j] = q[j]
  <2>. SUFFICES ASSUME NEW j \in 1..b PROVE r[a + j] = q[j]
    OBVIOUS
  <2>1. a + j \in 1..(a + b) /\ ~(a + j <= a) /\ (a + j) - a = j
    BY <1>5
  <2>. QED  BY <1>1, <1>2, <1>3, <2>1, ConcatProperties DEF UnitSeq
<1>9. /\ Sorted(p, a) /\ Finished(p, a, n) /\ Begun(p, a)
      /\ Sorted(q, b) /\ Finished(q, b, n) /\ Begun(q, b)
  BY <1>2, <1>3, OrderlyParts
<1>10. \A j \in 1..c : j \in 1..a \/ (j - a \in 1..b /\ j = a + (j - a) /\ j > a)
  BY <1>4, <1>5
<1>11. Sorted(r, c)
  <2>. SUFFICES ASSUME NEW j \in 1..c, NEW k \in 1..c, j < k
                PROVE  \/ r[j][1] < r[k][1]
                       \/ r[j][1] = r[k][1] /\ r[k][2] - r[j][2] = k - j
    BY DEF Sorted
  <2>1. CASE k \in 1..a
    <3>1. j \in 1..a
      BY <1>5, <2>1
    <3>. QED  BY <1>7, <1>9, <2>1, <3>1 DEF Sorted
  <2>2. CASE j \notin 1..a /\ k \notin 1..a
    <3>1. PICK x \in 1..b : x = j - a
      BY <1>10, <2>2
    <3>2. PICK y \in 1..b : y = k - a
      BY <1>10, <2>2
    <3>3. j = a + x /\ k = a + y /\ x < y /\ y - x = k - j
      BY <1>5, <3>1, <3>2
    <3>4. r[j] = q[x] /\ r[k] = q[y]
      BY <1>8, <3>3
    <3>. QED  BY <1>9, <3>3, <3>4 DEF Sorted
  <2>3. CASE j \in 1..a /\ k \notin 1..a
    <3>1. PICK y \in 1..b : y = k - a
      BY <1>10, <2>3
    <3>2. k = a + y
      BY <1>5, <3>1
    <3>3. r[j] = p[j] /\ r[k] = q[y]
      BY <1>7, <1>8, <2>3, <3>2
    <3>. QED  BY <1>2, <1>3, <2>3, <3>1, <3>3
  <2>. QED  BY <1>5, <2>1, <2>2, <2>3
<1>12. Finished(r, c, n)
  <2>. SUFFICES ASSUME NEW j \in 1..c, r[j][2] < n
                PROVE  j < c /\ r[j + 1] = <<r[j][1], r[j][2] + 1>>
    BY DEF Finished
  <2>1. CASE j \in 1..a
    <3>1. j < a /\ p[j + 1] = <<r[j][1], r[j][2] + 1>>
      BY <1>7, <1>9, <2>1 DEF Finished
    <3>2. j + 1 \in 1..a /\ j < c
      BY <1>4, <1>5, <2>1, <3>1
    <3>. QED  BY <1>7, <3>1, <3>2
  <2>2. CASE j \notin 1..a
    <3>1. PICK x \in 1..b : x = j - a
      BY <1>10, <2>2
    <3>2. j = a + x
      BY <1>5, <3>1
    <3>3. r[j] = q[x]
      BY <1>8, <3>2
    <3>4. x < b /\ q[x + 1] = <<r[j][1], r[j][2] + 1>>
      BY <1>9, <3>3 DEF Finished
    <3>5. x + 1 \in 1..b /\ j < c /\ j + 1 = a + (x + 1)
      BY <1>4, <1>5, <3>2, <3>4
    <3>. QED  BY <1>8, <3>4, <3>5
  <2>. QED  BY <2>1, <2>2
<1>13. Begun(r, c)
  <2>. SUFFICES ASSUME NEW j \in 2..c, r[j][2] > 1
                PROVE  r[j - 1] = <<r[j][1], r[j][2] - 1>>
    BY DEF Begun
  <2>0. j \in 1..c
    BY <1>5
  <2>1. CASE j \in 1..a
    <3>1. j \in 2..a /\ j - 1 \in 1..a
      BY <1>5, <2>1
    <3>. QED  BY <1>7, <1>9, <2>1, <3>1 DEF Begun
  <2>2. CASE j \notin 1..a
    <3>1. PICK x \in 1..b : x = j - a
      BY <1>10, <2>0, <2>2
    <3>2. j = a + x
      BY <1>5, <3>1
    <3>3. r[j] = q[x]
      BY <1>8, <3>2
    <3>4. x # 1
      <4>1. Len(q) > 0
        BY <1>3, <1>5, <3>1
      <4>. QED  BY <3>3, <4>1
    <3>5. x \in 2..b /\ x - 1 \in 1..b /\ j - 1 = a + (x - 1)
      BY <1>5, <3>2, <3>4
    <3>. QED  BY <1>8, <1>9, <3>3, <3>5 DEF Begun
  <2>. QED  BY <2>1, <2>2
<1>. QED  BY <1>1, <1>6, <1>11, <1>12, <1>13, OrderlyParts

(***************************************************************************)
(* Chunks.                                                                 *)
(***************************************************************************)
Increasing(ids) == \A j, k \in 1..Len(ids) : j < k => ids[j] < ids[k]

(* The ids of which a chunk has the first and the last unit.               *)
Full(chunk, n) == {i \in Ids : <<i, 1>> \in Range(chunk) /\ <<i, n>> \in Range(chunk)}

LEMMA InRange ==
  ASSUME NEW S, NEW q \in Seq(S), NEW l, l = Len(q), NEW x
  PROVE  x \in Range(q) <=> \E j \in 1..l : q[j] = x
<1>1. DOMAIN q = 1..l
  BY LenProperties
<1>. QED  BY <1>1, Zenon DEF Range

LEMMA InIds ==
  ASSUME NEW n \in Nat, NEW q \in UnitSeq(n), NEW x
  PROVE  x \in IdsOf(q) <=> \E j \in 1..Len(q) : q[j][1] = x
  BY DEF IdsOf, UnitSeq

(* The parser has gone through the first k units of the chunk.             *)
ReadUpTo(chunk, n, bad, k, ids) ==
  /\ ids \in Seq(Ids) /\ Increasing(ids)
  /\ \A x \in Range(ids) : \E j \in 1..k : Completes(chunk, j, n) /\ x = chunk[j][1]
  /\ IdsOf(chunk) \cap bad = {} =>
       \A j \in 1..k : Completes(chunk, j, n) => chunk[j][1] \in Range(ids)

ReadStep(chunk, n, bad, ids, i) ==
  IF Completes(chunk, i, n) /\ Range(ids) \cap bad = {} THEN Append(ids, chunk[i][1]) ELSE ids

LEMMA ReadOneMore ==
  ASSUME NEW n \in Nat \ {0}, NEW chunk \in UnitSeq(n), Sorted(chunk, Len(chunk)), NEW bad,
         NEW i \in 1..Len(chunk), NEW ids, ReadUpTo(chunk, n, bad, i - 1, ids)
  PROVE  ReadUpTo(chunk, n, bad, i, ReadStep(chunk, n, bad, ids, i))
<1>1. PICK l : l = Len(chunk)
  OBVIOUS
<1>2. l \in Nat /\ i \in 1..l /\ Sorted(chunk, l) /\ i - 1 \in 0..l
  BY <1>1, LenProperties DEF UnitSeq
<1>3. \A j \in 1..i : j \in 1..(i - 1) \/ j = i
  BY <1>2
<1>4. \A j \in 1..(i - 1) : j \in 1..i
  BY <1>2
<1>5. ids \in Seq(Ids) /\ Increasing(ids)
  BY DEF ReadUpTo
<1>6. PICK c : c = chunk[i][1]
  OBVIOUS
<1>7. c \in Ids
  BY <1>6, UnitsIn
<1>8. CASE ~(Completes(chunk, i, n) /\ Range(ids) \cap bad = {})
  <2>1. ReadStep(chunk, n, bad, ids, i) = ids
    BY <1>8 DEF ReadStep
  <2>2. IdsOf(chunk) \cap bad = {} => Range(ids) \cap bad = {}
    <3>1. \A x \in Range(ids) : \E j \in 1..(i - 1) : Completes(chunk, j, n) /\ x = chunk[j][1]
      BY DEF ReadUpTo
    <3>2. \A j \in 1..(i - 1) : j \in 1..Len(chunk)
      BY <1>1, <1>2
    <3>. QED  BY <3>1, <3>2, InIds
  <2>3. IdsOf(chunk) \cap bad = {} => \A j \in 1..i : Completes(chunk, j, n) => chunk[j][1] \in Range(ids)
    BY <1>3, <1>8, <2>2 DEF ReadUpTo
  <2>4. \A x \in Range(ids) : \E j \in 1..i : Completes(chunk, j, n) /\ x = chunk[j][1]
    BY <1>4 DEF ReadUpTo
  <2>. QED  BY <1>5, <2>1, <2>3, <2>4 DEF ReadUpTo
<1>9. CASE Completes(chunk, i, n) /\ Range(ids) \cap bad = {}
  <2>1. PICK new : new = Append(ids, c)
    OBVIOUS
  <2>2. ReadStep(chunk, n, bad, ids, i) = new
    BY <1>6, <1>9, <2>1 DEF ReadStep
  <2>3. PICK m : m = Len(ids)
    OBVIOUS
  <2>4. /\ m \in Nat /\ new \in Seq(Ids) /\ Len(new) = m + 1
        /\ new[m + 1] = c /\ \A j \in 1..m : new[j] = ids[j]
    BY <1>5, <1>7, <2>1, <2>3, AppendProperties, LenProperties
  <2>5. \A x : x \in Range(new) <=> x \in Range(ids) \/ x = c
    <3>. SUFFICES ASSUME NEW x PROVE x \in Range(new) <=> x \in Range(ids) \/ x = c
      OBVIOUS
    <3>1. \A j : j \in 1..(m + 1) <=> j \in 1..m \/ j = m + 1
      BY <2>4
    <3>2. x \in Range(new) <=> \E j \in 1..(m + 1) : new[j] = x
      <4>1. new \in Seq(Ids) /\ m + 1 = Len(new)
        BY <2>4
      <4>. QED  BY <4>1, InRange
    <3>3. x \in Range(ids) <=> \E j \in 1..m : ids[j] = x
      BY <1>5, <2>3, InRange
    <3>. QED  BY <2>4, <3>1, <3>2, <3>3
  <2>6. \A x \in Range(ids) : x \in Ids /\ x < c
    <3>. SUFFICES ASSUME NEW x \in Range(ids) PROVE x \in Ids /\ x < c
      OBVIOUS
    <3>1. PICK j \in 1..(i - 1) : Completes(chunk, j, n) /\ x = chunk[j][1]
      BY DEF ReadUpTo
    <3>2. j \in 1..l /\ j < i
      BY <1>2
    <3>3. chunk[j][2] = n /\ chunk[i][2] = n
      BY <1>9, <3>1 DEF Completes
    <3>4. chunk[i][2] - chunk[j][2] # i - j
      BY <1>2, <3>2, <3>3
    <3>5. x < c
      BY <1>2, <1>6, <3>1, <3>2, <3>4 DEF Sorted
    <3>. QED  BY <1>1, <3>1, <3>2, <3>5, UnitsIn
  <2>7. Increasing(new)
    <3>. SUFFICES ASSUME NEW j \in 1..(m + 1), NEW k \in 1..(m + 1), j < k
                  PROVE  new[j] < new[k]
      BY <2>4 DEF Increasing
    <3>1. CASE k = m + 1
      <4>1. j \in 1..m
        BY <2>4, <3>1
      <4>2. new[j] \in Range(ids)
        <5>1. new[j] = ids[j]
          BY <2>4, <4>1
        <5>. QED  BY <1>5, <2>3, <4>1, <5>1, InRange
      <4>. QED  BY <2>4, <2>6, <3>1, <4>2
    <3>2. CASE k # m + 1
      <4>1. j \in 1..m /\ k \in 1..m
        BY <2>4, <3>2
      <4>. QED  BY <1>5, <2>3, <2>4, <4>1 DEF Increasing
    <3>. QED  BY <3>1, <3>2
  <2>8. \A x \in Range(new) : \E j \in 1..i : Completes(chunk, j, n) /\ x = chunk[j][1]
    <3>1. \A x \in Range(ids) : \E j \in 1..i : Completes(chunk, j, n) /\ x = chunk[j][1]
      BY <1>4 DEF ReadUpTo
    <3>2. i \in 1..i
      BY <1>2
    <3>. QED  BY <1>6, <1>9, <2>5, <3>1, <3>2
  <2>9. IdsOf(chunk) \cap bad = {} => \A j \in 1..i : Completes(chunk, j, n) => chunk[j][1] \in Range(new)
    BY <1>3, <1>6, <2>5 DEF ReadUpTo
  <2>. QED  BY <2>2, <2>4, <2>7, <2>8, <2>9 DEF ReadUpTo
<1>. QED  BY <1>8, <1>9

IsRead(f, chunk, n, bad) ==
  f = [i \in 0..Len(chunk) |->
         IF i = 0 THEN <<>>
         ELSE IF Completes(chunk, i, n) /\ Range(f[i - 1]) \cap bad = {}
         THEN Append(f[i - 1], chunk[i][1])
         ELSE f[i - 1]]

LEMMA ReadExists ==
  ASSUME NEW n \in Nat, NEW chunk \in UnitSeq(n), NEW bad
  PROVE  \E f : IsRead(f, chunk, n, bad)
<1>1. PICK l : l = Len(chunk)
  OBVIOUS
<1>2. l \in Nat
  BY <1>1, LenProperties DEF UnitSeq
<1>3. PICK g : g = [p \in Seq(Ids) \X (1..l) |-> ReadStep(chunk, n, bad, p[1], p[2])]
  OBVIOUS
<1>4. \A p \in Seq(Ids) \X (1..l) : ReadStep(chunk, n, bad, p[1], p[2]) \in Seq(Ids)
  BY <1>1, UnitsIn, AppendProperties DEF ReadStep
<1>5. g \in [Seq(Ids) \X (1..l) -> Seq(Ids)]
  BY <1>3, <1>4
<1>6. <<>> \in Seq(Ids)
  OBVIOUS
<1>7. PICK f : IsIteration(f, Seq(Ids), <<>>, l, g)
  BY <1>2, <1>5, <1>6, IterationExists
<1>8. f \in [0..l -> Seq(Ids)] /\ \A i \in 0..l : f[i] = IF i = 0 THEN <<>> ELSE g[<<f[i - 1], i>>]
  BY <1>7 DEF IsIteration
<1>9. ASSUME NEW i \in 0..l
      PROVE  f[i] = IF i = 0 THEN <<>>
                    ELSE IF Completes(chunk, i, n) /\ Range(f[i - 1]) \cap bad = {}
                    THEN Append(f[i - 1], chunk[i][1])
                    ELSE f[i - 1]
  <2>1. CASE i = 0
    BY <1>8, <2>1
  <2>2. CASE i # 0
    <3>1. i - 1 \in 0..l /\ i \in 1..l
      BY <1>2, <2>2
    <3>2. <<f[i - 1], i>> \in Seq(Ids) \X (1..l)
      BY <1>8, <3>1
    <3>3. f[i] = ReadStep(chunk, n, bad, f[i - 1], i)
      BY <1>3, <1>8, <2>2, <3>2
    <3>. QED  BY <2>2, <3>3 DEF ReadStep
  <2>. QED  BY <2>1, <2>2
<1>10. f = [i \in 0..l |-> f[i]]
  BY <1>8
<1>. QED  BY <1>1, <1>9, <1>10, Zenon DEF IsRead

LEMMA CompleteReads ==
  ASSUME NEW n \in Nat \ {0}, NEW chunk \in UnitSeq(n), Sorted(chunk, Len(chunk)), NEW bad
  PROVE  ReadUpTo(chunk, n, bad, Len(chunk), Complete(chunk, n, bad))
<1>1. PICK l : l = Len(chunk)
  OBVIOUS
<1>2. l \in Nat
  BY <1>1, LenProperties DEF UnitSeq
<1>3. PICK f : f = CHOOSE h : IsRead(h, chunk, n, bad)
  OBVIOUS
<1>4. IsRead(f, chunk, n, bad)
  BY <1>3, ReadExists
<1>5. Complete(chunk, n, bad) = f[l]
  BY <1>1, <1>3 DEF Complete, IsRead
<1>6. f[0] = <<>> /\ \A i \in 1..l : f[i] = ReadStep(chunk, n, bad, f[i - 1], i)
  <2>1. \A i \in 1..l : i # 0 /\ i \in 0..l
    OBVIOUS
  <2>2. f = [i \in 0..l |->
               IF i = 0 THEN <<>>
               ELSE IF Completes(chunk, i, n) /\ Range(f[i - 1]) \cap bad = {}
               THEN Append(f[i - 1], chunk[i][1])
               ELSE f[i - 1]]
    BY <1>1, <1>4, Zenon DEF IsRead
  <2>3. f[0] = <<>>
    BY <1>2, <2>2
  <2>4. ASSUME NEW i \in 1..l
        PROVE  f[i] = ReadStep(chunk, n, bad, f[i - 1], i)
    <3>1. f[i] = IF Completes(chunk, i, n) /\ Range(f[i - 1]) \cap bad = {}
                 THEN Append(f[i - 1], chunk[i][1])
                 ELSE f[i - 1]
      BY <2>1, <2>2, Zenon
    <3>. QED  BY <3>1, Zenon DEF ReadStep
  <2>. QED  BY <2>3, <2>4
<1>7. PICK G : G = {i \in 0..l : ReadUpTo(chunk, n, bad, i, f[i])}
  OBVIOUS
<1>8. 0 \in G
  <2>1. <<>> \in Seq(Ids) /\ Increasing(<<>>) /\ Range(<<>>) = {}
    BY DEF Increasing, Range
  <2>2. 1..0 = {}
    OBVIOUS
  <2>3. ReadUpTo(chunk, n, bad, 0, <<>>)
    BY <2>1, <2>2 DEF ReadUpTo
  <2>. QED  BY <1>2, <1>6, <1>7, <2>3
<1>9. ASSUME NEW i \in 1..l, i - 1 \in G
      PROVE  i \in G
  <2>1. ReadUpTo(chunk, n, bad, i - 1, f[i - 1])
    BY <1>7, <1>9
  <2>2. ReadUpTo(chunk, n, bad, i, f[i])
    BY <1>1, <1>6, <2>1, ReadOneMore
  <2>. QED  BY <1>2, <1>7, <2>2
<1>10. \A i \in 0..l : i \in G
  BY <1>2, <1>8, <1>9, Reach, Zenon
<1>11. l \in 0..l
  BY <1>2
<1>. QED  BY <1>1, <1>5, <1>7, <1>10, <1>11

LEMMA CompleteIs ==
  ASSUME NEW n \in Nat \ {0}, NEW chunk \in UnitSeq(n), Sorted(chunk, Len(chunk)), NEW bad
  PROVE  /\ Complete(chunk, n, bad) \in Seq(Ids) /\ Increasing(Complete(chunk, n, bad))
         /\ Range(Complete(chunk, n, bad)) \subseteq Full(chunk, n)
         /\ IdsOf(chunk) \cap bad = {} => Range(Complete(chunk, n, bad)) = Full(chunk, n)
<1>1. PICK ids : ids = Complete(chunk, n, bad)
  OBVIOUS
<1>2. ReadUpTo(chunk, n, bad, Len(chunk), ids)
  BY <1>1, CompleteReads
<1>3. ASSUME NEW x
      PROVE  x \in Full(chunk, n) <=> \E j \in 1..Len(chunk) : Completes(chunk, j, n) /\ x = chunk[j][1]
  <2>1. ASSUME x \in Full(chunk, n)
        PROVE  \E j \in 1..Len(chunk) : Completes(chunk, j, n) /\ x = chunk[j][1]
    <3>1. PICK j \in 1..Len(chunk) : chunk[j] = <<x, n>>
      BY <2>1, InRange DEF Full, UnitSeq
    <3>2. chunk[j][1] = x /\ chunk[j][2] = n /\ <<x, 1>> \in Range(chunk)
      BY <2>1, <3>1 DEF Full
    <3>. QED  BY <3>2, Zenon DEF Completes
  <2>2. ASSUME NEW j \in 1..Len(chunk), Completes(chunk, j, n), x = chunk[j][1]
        PROVE  x \in Full(chunk, n)
    <3>1. x \in Ids /\ chunk[j] = <<x, n>> /\ <<x, 1>> \in Range(chunk)
      BY <2>2, UnitsIn DEF Completes
    <3>2. <<x, n>> \in Range(chunk)
      BY <3>1, InRange DEF UnitSeq
    <3>. QED  BY <3>1, <3>2 DEF Full
  <2>. QED  BY <2>1, <2>2
<1>4. ids \in Seq(Ids) /\ Increasing(ids)
  BY <1>2 DEF ReadUpTo
<1>5. Range(ids) \subseteq Full(chunk, n)
  BY <1>2, <1>3, Zenon DEF ReadUpTo
<1>6. ASSUME IdsOf(chunk) \cap bad = {}, NEW x \in Full(chunk, n)
      PROVE  x \in Range(ids)
  <2>1. PICK j \in 1..Len(chunk) : Completes(chunk, j, n) /\ x = chunk[j][1]
    BY <1>3, Zenon
  <2>. QED  BY <1>2, <1>6, <2>1 DEF ReadUpTo
<1>. QED  BY <1>1, <1>4, <1>5, <1>6

(***************************************************************************)
(* Names.                                                                  *)
(***************************************************************************)
(* The names that connections have once the requests of H were handled.    *)
NamesAfter(H) == [x \in connected |-> LastName(x, H)]

SetsOf(x, H) == {j \in H \cap OfKind("setname") : Socket(j) = x /\ j > log.since[x]}

NameOfLast(sets) ==
  IF sets = {} THEN None ELSE requests[CHOOSE j \in sets : \A k \in sets : k <= j].name

LEMMA LastNameOf ==
  ASSUME NEW x, NEW H
  PROVE  LastName(x, H) = NameOfLast(SetsOf(x, H))
  BY Zenon DEF LastName, NameOfLast, SetsOf, Socket

LEMMA RequestIds ==
  ASSUME TypeOK, Bounded
  PROVE  /\ Len(requests) \in Nat /\ DOMAIN requests = 1..Len(requests)
         /\ DOMAIN requests \subseteq Nat /\ DOMAIN requests \subseteq Ids
<1>1. PICK R : requests \in Seq(R)
  BY DEF TypeOK
<1>2. Len(requests) \in Nat /\ DOMAIN requests = 1..Len(requests)
  BY <1>1, LenProperties
<1>3. PICK l \in Nat : l = Len(requests)
  BY <1>2
<1>4. l <= MaxRequests
  BY <1>3 DEF Bounded
<1>. QED  BY <1>2, <1>3, <1>4, BoundsAssumption DEF Ids

LEMMA OneMoreName ==
  ASSUME TypeOK, Bounded, NEW s \in connected, NEW H, H \subseteq DOMAIN requests,
         NEW i \in DOMAIN requests, Socket(i) = s, i > log.since[s],
         \A k \in H : Socket(k) = s => k < i
  PROVE  NamesAfter(H \cup {i}) = SetName(NamesAfter(H), s, requests[i])
<1>1. PICK K : K = H \cup {i}
  OBVIOUS
<1>2. DOMAIN requests \subseteq Nat
  BY RequestIds
<1>3. CASE requests[i].kind = "setname"
  <2>1. ASSUME NEW x \in connected, x # s
        PROVE  LastName(x, K) = LastName(x, H)
    <3>1. SetsOf(x, K) = SetsOf(x, H)
      BY <1>1, <2>1 DEF SetsOf
    <3>. QED  BY <3>1, LastNameOf
  <2>2. LastName(s, K) = requests[i].name
    <3>1. i \in SetsOf(s, K)
      BY <1>1, <1>3 DEF SetsOf, OfKind
    <3>2. \A k \in SetsOf(s, K) : k \in Nat /\ k <= i
      BY <1>1, <1>2 DEF SetsOf
    <3>3. PICK j : j = CHOOSE h \in SetsOf(s, K) : \A k \in SetsOf(s, K) : k <= h
      OBVIOUS
    <3>4. j \in SetsOf(s, K) /\ \A k \in SetsOf(s, K) : k <= j
      BY <3>1, <3>2, <3>3, Zenon
    <3>5. j = i
      BY <1>2, <3>1, <3>2, <3>4
    <3>6. LastName(s, K) = requests[j].name
      BY <3>1, <3>3, LastNameOf DEF NameOfLast
    <3>. QED  BY <3>5, <3>6
  <2>. QED  BY <1>1, <1>3, <2>1, <2>2 DEF NamesAfter, SetName
<1>4. CASE requests[i].kind # "setname"
  <2>1. ASSUME NEW x \in connected
        PROVE  LastName(x, K) = LastName(x, H)
    <3>1. SetsOf(x, K) = SetsOf(x, H)
      BY <1>1, <1>4 DEF SetsOf, OfKind
    <3>. QED  BY <3>1, LastNameOf
  <2>. QED  BY <1>1, <1>4, <2>1 DEF NamesAfter, SetName
<1>. QED  BY <1>3, <1>4

(***************************************************************************)
(* The session runs the requests of a chunk.                               *)
(***************************************************************************)
NameMaps == [connected -> Names \cup {None}]

Replied == {Ok, Error} \cup {Bulk(v) : v \in Names \cup {None} \cup AllKinds} \cup
           {Bulk(names) : names \in NameMaps} \cup {replies[i] : i \in Ids}

States == [names : NameMaps, replies : [Ids -> Replied], units : UnitSeq(ReplyUnits)]

Start == [names |-> clients, replies |-> replies, units |-> <<>>]

Earlier(ids, n) == {ids[j] : j \in 1..n}

LEMMA RepliesAreReplies ==
  ASSUME NEW names \in NameMaps, NEW s \in connected, NEW r \in [socket : Sockets, kind : Kinds, name : Names],
         connected \subseteq Sockets
  PROVE  Reply(names, s, r) \in Replied /\ Reply(names, s, r) # None
<1>1. r.kind \in AllKinds
  BY KindsAssumption
<1>2. names[s] \in Names \cup {None}
  BY DEF NameMaps
<1>3. CASE r.kind = "setname"
  BY <1>3, NoneAssumption DEF Reply, Replied
<1>4. CASE r.kind = "spaced"
  BY <1>4, NoneAssumption DEF Reply, Replied
<1>5. CASE r.kind = "getname"
  BY <1>2, <1>5, NoneAssumption DEF Reply, Replied
<1>6. CASE r.kind = "list"
  <2>1. Reply(names, s, r) = Bulk(names)
    BY <1>6 DEF Reply
  <2>. QED  BY <2>1, NoneAssumption DEF Replied, NameMaps
<1>7. CASE r.kind \notin {"setname", "spaced", "getname", "list"}
  <2>1. Reply(names, s, r) = Bulk(r.kind)
    BY <1>7 DEF Reply
  <2>. QED  BY <1>1, <2>1, NoneAssumption DEF Replied
<1>. QED  BY <1>3, <1>4, <1>5, <1>6, <1>7

LEMMA RunIsState ==
  ASSUME TypeOK, Bounded, NEW was \in States, NEW s \in connected, NEW i \in DOMAIN requests
  PROVE  Run(was, s, i) \in States /\ i \in Ids
<1>1. requests[i] \in [socket : Sockets, kind : Kinds, name : Names] /\ connected \subseteq Sockets
  <2>1. requests \in Seq([socket : Sockets, kind : Kinds, name : Names])
    BY DEF TypeOK
  <2>2. i \in 1..Len(requests)
    BY <2>1, LenProperties
  <2>. QED  BY <2>1, <2>2, ElementOfSeq DEF TypeOK
<1>2. i \in Ids
  BY RequestIds
<1>3. was.names \in NameMaps /\ was.replies \in [Ids -> Replied] /\ was.units \in UnitSeq(ReplyUnits)
  BY DEF States
<1>4. SetName(was.names, s, requests[i]) \in NameMaps
  BY <1>1, <1>3 DEF SetName, NameMaps
<1>5. [was.replies EXCEPT ![i] = Reply(was.names, s, requests[i])] \in [Ids -> Replied]
  <2>1. Reply(was.names, s, requests[i]) \in Replied
    BY <1>1, <1>3, RepliesAreReplies
  <2>. QED  BY <1>3, <2>1
<1>6. was.units \o Units(i, ReplyUnits) \in UnitSeq(ReplyUnits)
  <2>1. Units(i, ReplyUnits) \in UnitSeq(ReplyUnits)
    BY <1>2, UnitsAreOrderly DEF ReplyUnits
  <2>. QED  BY <1>3, <2>1, ConcatProperties DEF UnitSeq
<1>. QED  BY <1>2, <1>4, <1>5, <1>6 DEF Run, States

IsRun(f, s, ids) ==
  f = [n \in 0..Len(ids) |->
         IF n = 0 THEN [names |-> clients, replies |-> replies, units |-> <<>>]
         ELSE Run(f[n - 1], s, ids[n])]

LEMMA StartIsState ==
  ASSUME TypeOK, Bounded
  PROVE  Start \in States
<1>1. clients \in NameMaps
  BY DEF TypeOK, NameMaps
<1>2. replies \in [Ids -> Replied]
  <2>1. \A i \in Ids : replies[i] \in Replied
    BY DEF Replied
  <2>. QED  BY <2>1 DEF Bounded
<1>3. <<>> \in UnitSeq(ReplyUnits)
  BY DEF UnitSeq
<1>. QED  BY <1>1, <1>2, <1>3 DEF Start, States

LEMMA RunExists ==
  ASSUME TypeOK, Bounded, NEW s \in connected, NEW ids \in Seq(DOMAIN requests)
  PROVE  \E f : IsRun(f, s, ids) /\ f \in [0..Len(ids) -> States]
<1>1. PICK l : l = Len(ids)
  OBVIOUS
<1>2. l \in Nat /\ \A j \in 1..l : ids[j] \in DOMAIN requests
  BY <1>1, LenProperties, ElementOfSeq
<1>3. PICK g : g = [p \in States \X (1..l) |-> Run(p[1], s, ids[p[2]])]
  OBVIOUS
<1>4. g \in [States \X (1..l) -> States]
  BY <1>2, <1>3, RunIsState
<1>5. PICK f : IsIteration(f, States, Start, l, g)
  BY <1>2, <1>4, StartIsState, IterationExists
<1>6. f \in [0..l -> States] /\ \A n \in 0..l : f[n] = IF n = 0 THEN Start ELSE g[<<f[n - 1], n>>]
  BY <1>5 DEF IsIteration
<1>7. ASSUME NEW n \in 0..l
      PROVE  f[n] = IF n = 0 THEN [names |-> clients, replies |-> replies, units |-> <<>>]
                    ELSE Run(f[n - 1], s, ids[n])
  <2>1. CASE n = 0
    BY <1>6, <2>1 DEF Start
  <2>2. CASE n # 0
    <3>1. n - 1 \in 0..l /\ n \in 1..l
      BY <1>2, <2>2
    <3>2. <<f[n - 1], n>> \in States \X (1..l)
      BY <1>6, <3>1
    <3>. QED  BY <1>3, <1>6, <2>2, <3>2
  <2>. QED  BY <2>1, <2>2
<1>8. f = [n \in 0..l |-> f[n]]
  BY <1>6
<1>. QED  BY <1>1, <1>6, <1>7, <1>8, Zenon DEF IsRun

(* The requests of a chunk are new, and come in order.                     *)
Due(s, ids) ==
  /\ ids \in Seq(DOMAIN requests) /\ Increasing(ids)
  /\ \A j \in 1..Len(ids) :
       /\ Socket(ids[j]) = s /\ ids[j] > log.since[s]
       /\ \A k \in Range(handled) : Socket(k) = s => k < ids[j]

(* The first n of them have run.                                           *)
Ran(s, ids, n, st) ==
  /\ st \in States
  /\ st.names = NamesAfter(Range(handled) \cup Earlier(ids, n))
  /\ \A i \in Ids \ Earlier(ids, n) : st.replies[i] = replies[i]
  /\ \A j \in 1..n :
       /\ st.replies[ids[j]] = Reply(NamesAfter(Range(handled) \cup Earlier(ids, j - 1)), s, requests[ids[j]])
       /\ st.replies[ids[j]] # None
  /\ Orderly(st.units, ReplyUnits)
  /\ \A j \in 1..Len(st.units) : st.units[j][1] \in Earlier(ids, n)
  /\ st.units # <<>> => st.units[1][2] = 1
  /\ n = 0 => st.units = <<>>
  /\ n = 1 => st.units = Units(ids[1], ReplyUnits)

LEMMA RanNothing ==
  ASSUME TypeOK, Bounded, NamesAreLast, NEW s, NEW ids
  PROVE  Ran(s, ids, 0, Start)
<1>1. Earlier(ids, 0) = {} /\ 1..0 = {}
  BY DEF Earlier
<1>2. Start.names = NamesAfter(Range(handled) \cup Earlier(ids, 0))
  BY <1>1 DEF Start, NamesAreLast, NamesAfter
<1>3. Start.units = <<>> /\ Len(<<>>) = 0 /\ Orderly(<<>>, ReplyUnits)
  BY DEF Start, Orderly
<1>4. Start.replies = replies /\ Start \in States
  BY StartIsState DEF Start
<1>. QED  BY <1>1, <1>2, <1>3, <1>4 DEF Ran

LEMMA RanOneMore ==
  ASSUME TypeOK, Bounded, NEW s \in connected, NEW ids, Due(s, ids),
         NEW n \in 1..Len(ids), NEW was, Ran(s, ids, n - 1, was)
  PROVE  Ran(s, ids, n, Run(was, s, ids[n]))
<1>1. PICK i : i = ids[n]
  OBVIOUS
<1>2. PICK st : st = Run(was, s, i)
  OBVIOUS
<1>3. PICK l : l = Len(ids)
  OBVIOUS
<1>4. /\ l \in Nat /\ n \in 1..l /\ n - 1 \in 0..l /\ \A j \in 1..n : j \in 1..(n - 1) \/ j = n
      /\ \A j \in 1..(n - 1) : j \in 1..l /\ j < n
  BY <1>3, LenProperties DEF Due
<1>5. \A j \in 1..l : ids[j] \in DOMAIN requests /\ Socket(ids[j]) = s
  BY <1>3, ElementOfSeq DEF Due
<1>6. i \in DOMAIN requests /\ i \in Ids /\ st \in States /\ was \in States
  BY <1>1, <1>2, <1>4, <1>5, RunIsState DEF Ran
<1>7. /\ was.names \in NameMaps /\ was.replies \in [Ids -> Replied]
      /\ was.units \in UnitSeq(ReplyUnits)
  BY <1>6 DEF States
<1>8. /\ st.names = SetName(was.names, s, requests[i])
      /\ st.replies = [was.replies EXCEPT ![i] = Reply(was.names, s, requests[i])]
      /\ st.units = was.units \o Units(i, ReplyUnits)
  BY <1>2 DEF Run
<1>9. PICK E : E = Earlier(ids, n - 1)
  OBVIOUS
<1>10. Earlier(ids, n) = E \cup {i} /\ \A x \in E : x < i /\ x \in DOMAIN requests /\ x \in Ids
  <2>1. Earlier(ids, n) = E \cup {i}
    BY <1>1, <1>4, <1>9 DEF Earlier
  <2>2. \A x \in E : x < i /\ x \in DOMAIN requests
    BY <1>1, <1>3, <1>4, <1>5, <1>9 DEF Earlier, Due, Increasing
  <2>3. \A x \in E : x \in Ids
    BY <1>6, <2>2, RunIsState
  <2>. QED  BY <2>1, <2>2, <2>3
<1>11. DOMAIN requests \subseteq Nat /\ Range(handled) \subseteq DOMAIN requests
  <2>1. handled \in Seq(DOMAIN requests)
    BY DEF TypeOK
  <2>2. Range(handled) \subseteq DOMAIN requests
    BY <2>1, RangeOfSeq
  <2>. QED  BY <2>2, RequestIds
<1>12. i \notin E
  BY <1>6, <1>10, <1>11
<1>13. was.names = NamesAfter(Range(handled) \cup E)
  BY <1>9 DEF Ran
<1>14. st.names = NamesAfter(Range(handled) \cup Earlier(ids, n))
  <2>1. PICK H : H = Range(handled) \cup E
    OBVIOUS
  <2>2. Socket(i) = s /\ i > log.since[s] /\ \A k \in Range(handled) : Socket(k) = s => k < i
    BY <1>1, <1>3, <1>4 DEF Due
  <2>3. H \subseteq DOMAIN requests /\ \A k \in H : Socket(k) = s => k < i
    BY <1>10, <1>11, <2>1, <2>2
  <2>4. NamesAfter(H \cup {i}) = SetName(NamesAfter(H), s, requests[i])
    BY <1>6, <2>2, <2>3, OneMoreName
  <2>5. H \cup {i} = Range(handled) \cup Earlier(ids, n)
    BY <1>10, <2>1
  <2>. QED  BY <1>8, <1>13, <2>1, <2>4, <2>5
<1>15. \A x \in Ids \ Earlier(ids, n) : st.replies[x] = replies[x]
  BY <1>6, <1>7, <1>8, <1>9, <1>10 DEF Ran
<1>16. ASSUME NEW j \in 1..n
       PROVE  /\ st.replies[ids[j]] =
                   Reply(NamesAfter(Range(handled) \cup Earlier(ids, j - 1)), s, requests[ids[j]])
              /\ st.replies[ids[j]] # None
  <2>1. CASE j = n
    <3>1. st.replies[i] = Reply(was.names, s, requests[i])
      BY <1>6, <1>7, <1>8
    <3>2. requests[i] \in [socket : Sockets, kind : Kinds, name : Names] /\ connected \subseteq Sockets
      BY <1>6, LenProperties, ElementOfSeq DEF TypeOK
    <3>3. Reply(was.names, s, requests[i]) # None
      BY <1>7, <3>2, RepliesAreReplies
    <3>. QED  BY <1>1, <1>9, <1>13, <2>1, <3>1, <3>3
  <2>2. CASE j # n
    <3>1. j \in 1..(n - 1)
      BY <1>4, <2>2
    <3>2. ids[j] \in E
      BY <1>9, <3>1 DEF Earlier
    <3>3. st.replies[ids[j]] = was.replies[ids[j]]
      BY <1>7, <1>8, <1>10, <1>12, <3>2
    <3>. QED  BY <3>1, <3>3 DEF Ran
  <2>. QED  BY <2>1, <2>2
<1>17. PICK u : u = Units(i, ReplyUnits)
  OBVIOUS
<1>18. /\ u \in UnitSeq(ReplyUnits) /\ Len(u) = ReplyUnits /\ Orderly(u, ReplyUnits)
       /\ \A j \in 1..ReplyUnits : u[j] = <<i, j>>
  BY <1>6, <1>17, UnitsAreOrderly DEF ReplyUnits
<1>19. Orderly(st.units, ReplyUnits)
  <2>1. \A j \in 1..Len(was.units) : was.units[j][1] \in E
    BY <1>9 DEF Ran
  <2>2. \A j \in 1..Len(was.units), k \in 1..Len(u) : was.units[j][1] < u[k][1]
    BY <1>10, <1>18, <2>1
  <2>3. u[1][2] = 1
    BY <1>18 DEF ReplyUnits
  <2>4. Orderly(was.units, ReplyUnits) /\ ReplyUnits \in Nat
    BY DEF Ran, ReplyUnits
  <2>5. Orderly(was.units \o u, ReplyUnits)
    BY <1>7, <1>18, <2>2, <2>3, <2>4, JoinIsOrderly
  <2>. QED  BY <1>8, <1>17, <2>5
<1>20. \A j \in 1..Len(st.units) : st.units[j][1] \in Earlier(ids, n)
  <2>. SUFFICES ASSUME NEW j \in 1..Len(st.units) PROVE st.units[j][1] \in Earlier(ids, n)
    OBVIOUS
  <2>1. PICK a \in Nat : a = Len(was.units)
    BY <1>7, LenProperties DEF UnitSeq
  <2>2. PICK b \in Nat : b = Len(u)
    BY <1>18 DEF ReplyUnits
  <2>3. Len(st.units) = a + b
    <3>1. st.units = was.units \o u
      BY <1>8, <1>17
    <3>2. was.units \in Seq(Ids \X (1..ReplyUnits)) /\ u \in Seq(Ids \X (1..ReplyUnits))
      BY <1>7, <1>18 DEF UnitSeq
    <3>. QED  BY <2>1, <2>2, <3>1, <3>2, ConcatProperties
  <2>4. CASE j \in 1..a
    <3>1. st.units[j] = was.units[j]
      BY <1>7, <1>8, <1>17, <1>18, <2>1, <2>4, ConcatProperties DEF UnitSeq
    <3>. QED  BY <1>9, <1>10, <2>1, <2>4, <3>1 DEF Ran
  <2>5. CASE j \notin 1..a
    <3>1. j \in 1..(a + b) /\ ~(j <= a) /\ j - a \in 1..b
      BY <2>1, <2>2, <2>3, <2>5
    <3>2. st.units[j] = u[j - a]
      BY <1>7, <1>8, <1>17, <1>18, <2>1, <2>2, <3>1, ConcatProperties DEF UnitSeq
    <3>. QED  BY <1>10, <1>18, <2>2, <3>1, <3>2
  <2>. QED  BY <2>4, <2>5
<1>21. n # 0 /\ (n = 1 => st.units = Units(ids[1], ReplyUnits))
  <2>1. n = 1 => was.units = <<>>
    BY <1>4 DEF Ran
  <2>2. <<>> \o u = u
    BY <1>18, ConcatEmptySeq DEF UnitSeq
  <2>3. st.units = was.units \o u
    BY <1>8, <1>17
  <2>4. n = 1 => st.units = u
    BY <2>1, <2>2, <2>3
  <2>. QED  BY <1>1, <1>4, <1>17, <2>4
<1>22. st.units # <<>> => st.units[1][2] = 1
  <2>1. was.units \in Seq(Ids \X (1..ReplyUnits)) /\ u \in Seq(Ids \X (1..ReplyUnits)) /\ st.units = was.units \o u
    BY <1>7, <1>8, <1>17, <1>18 DEF UnitSeq
  <2>2. u[1][2] = 1 /\ Len(u) = 2
    BY <1>18 DEF ReplyUnits
  <2>3. CASE was.units = <<>>
    BY <2>1, <2>2, <2>3, ConcatEmptySeq
  <2>4. CASE was.units # <<>>
    <3>1. was.units[1][2] = 1
      BY <2>4 DEF Ran
    <3>2. Len(was.units) \in Nat /\ Len(was.units) > 0
      BY <2>1, <2>4, EmptySeq, LenProperties
    <3>3. st.units[1] = was.units[1]
      BY <2>1, <2>2, <3>2, ConcatProperties
    <3>. QED  BY <3>1, <3>3
  <2>. QED  BY <2>3, <2>4
<1>. QED  BY <1>1, <1>2, <1>6, <1>14, <1>15, <1>16, <1>19, <1>20, <1>21, <1>22 DEF Ran

LEMMA AllHaveRun ==
  ASSUME TypeOK, Bounded, NamesAreLast, NEW s \in connected, NEW ids, Due(s, ids)
  PROVE  Ran(s, ids, Len(ids), RunAll(s, ids))
<1>0. ids \in Seq(DOMAIN requests)
  BY DEF Due
<1>1. PICK l : l = Len(ids)
  OBVIOUS
<1>2. l \in Nat
  BY <1>0, <1>1, LenProperties
<1>3. PICK f : f = CHOOSE h : IsRun(h, s, ids)
  OBVIOUS
<1>4. IsRun(f, s, ids)
  BY <1>0, <1>3, RunExists
<1>5. RunAll(s, ids) = f[l]
  BY <1>1, <1>3 DEF RunAll, IsRun
<1>6. f[0] = Start /\ \A n \in 1..l : f[n] = Run(f[n - 1], s, ids[n])
  <2>1. \A n \in 1..l : n # 0 /\ n \in 0..l
    OBVIOUS
  <2>2. f = [n \in 0..l |->
               IF n = 0 THEN [names |-> clients, replies |-> replies, units |-> <<>>]
               ELSE Run(f[n - 1], s, ids[n])]
    BY <1>1, <1>4, Zenon DEF IsRun
  <2>3. f[0] = Start
    BY <1>2, <2>2 DEF Start
  <2>4. ASSUME NEW n \in 1..l
        PROVE  f[n] = Run(f[n - 1], s, ids[n])
    BY <2>1, <2>2, Zenon
  <2>. QED  BY <2>3, <2>4
<1>7. PICK G : G = {n \in 0..l : Ran(s, ids, n, f[n])}
  OBVIOUS
<1>8. 0 \in G
  BY <1>2, <1>6, <1>7, RanNothing
<1>9. ASSUME NEW n \in 1..l, n - 1 \in G
      PROVE  n \in G
  <2>1. Ran(s, ids, n - 1, f[n - 1])
    BY <1>7, <1>9
  <2>2. Ran(s, ids, n, f[n])
    BY <1>1, <1>6, <2>1, RanOneMore
  <2>. QED  BY <1>2, <1>7, <2>2
<1>10. l \in G
  BY <1>2, <1>8, <1>9, Reach
<1>. QED  BY <1>1, <1>5, <1>7, <1>10

(***************************************************************************)
(* What Receive does.                                                      *)
(***************************************************************************)
LEMMA FirstIsInChunk ==
  ASSUME NEW n \in {2, 3}, NEW chunk \in UnitSeq(n), Begun(chunk, Len(chunk)), NEW j \in 1..Len(chunk)
  PROVE  \/ <<chunk[j][1], 1>> \in Range(chunk)
         \/ chunk[1][1] = chunk[j][1] /\ chunk[1][2] > 1
<1>1. PICK l : l = Len(chunk)
  OBVIOUS
<1>2. PICK i : i = chunk[j][1]
  OBVIOUS
<1>3. l \in Nat /\ j \in 1..l
  BY <1>1, LenProperties DEF UnitSeq
<1>4. \A k \in 1..l : chunk[k] = <<chunk[k][1], chunk[k][2]>> /\ chunk[k][2] \in 1..n
  BY <1>1, UnitsIn
<1>5. \A k \in 1..l : chunk[k] = <<i, 1>> => <<i, 1>> \in Range(chunk)
  BY <1>1, InRange DEF UnitSeq
<1>6. \A k \in 1..l : chunk[k][1] = i =>
        \/ chunk[k] = <<i, 1>>
        \/ chunk[k][2] > 1 /\ k = 1
        \/ chunk[k][2] > 1 /\ k - 1 \in 1..l /\ chunk[k - 1] = <<i, chunk[k][2] - 1>>
  <2>. SUFFICES ASSUME NEW k \in 1..l, chunk[k][1] = i, chunk[k] # <<i, 1>>, k # 1
                PROVE  chunk[k][2] > 1 /\ k - 1 \in 1..l /\ chunk[k - 1] = <<i, chunk[k][2] - 1>>
    BY <1>4
  <2>1. chunk[k][2] > 1
    BY <1>4
  <2>2. k \in 2..l /\ k - 1 \in 1..l
    BY <1>3
  <2>. QED  BY <1>1, <2>1, <2>2 DEF Begun
<1>7. CASE chunk[j] = <<i, 1>>
  BY <1>2, <1>3, <1>5, <1>7
<1>8. CASE j = 1 /\ chunk[j][2] > 1
  BY <1>2, <1>8
<1>9. CASE chunk[j][2] > 1 /\ j - 1 \in 1..l /\ chunk[j - 1] = <<i, chunk[j][2] - 1>>
  <2>1. PICK k \in 1..l : k = j - 1
    BY <1>9
  <2>2. chunk[k] = <<i, chunk[j][2] - 1>> /\ chunk[j][2] \in 2..n
    BY <1>3, <1>4, <1>9, <2>1
  <2>3. chunk[k][1] = i /\ chunk[k][2] = chunk[j][2] - 1
    BY <2>2
  <2>4. CASE chunk[k] = <<i, 1>>
    BY <1>2, <1>5, <2>4
  <2>5. CASE k = 1 /\ chunk[k][2] > 1
    BY <1>2, <2>3, <2>5
  <2>6. CASE chunk[k][2] > 1 /\ k - 1 \in 1..l /\ chunk[k - 1] = <<i, chunk[k][2] - 1>>
    <3>1. chunk[j][2] = 3
      BY <2>2, <2>3, <2>6
    <3>2. chunk[k - 1] = <<i, 1>>
      BY <2>3, <2>6, <3>1
    <3>. QED  BY <1>2, <1>5, <2>6, <3>2
  <2>. QED  BY <1>6, <2>3, <2>4, <2>5, <2>6
<1>. QED  BY <1>2, <1>3, <1>6, <1>7, <1>8, <1>9

LEMMA ChunkOf ==
  ASSUME NEW n \in Nat, NEW q \in UnitSeq(n), Orderly(q, n), NEW m \in 1..Len(q)
  PROVE  /\ SubSeq(q, 1, m) \in UnitSeq(n) /\ Len(SubSeq(q, 1, m)) = m
         /\ \A j \in 1..m : SubSeq(q, 1, m)[j] = q[j] /\ j \in 1..Len(q)
         /\ Sorted(SubSeq(q, 1, m), m) /\ Begun(SubSeq(q, 1, m), m)
<1>1. PICK l : l = Len(q)
  OBVIOUS
<1>2. PICK c : c = SubSeq(q, 1, m)
  OBVIOUS
<1>3. l \in Nat /\ m \in 1..l /\ m \in 0..l /\ Sorted(q, l) /\ Begun(q, l)
  BY <1>1, OrderlyParts
<1>4. c \in UnitSeq(n) /\ Len(c) = m /\ \A j \in 1..m : c[j] = q[j]
  BY <1>1, <1>2, <1>3, PartsOf
<1>5. \A j \in 1..m : j \in 1..l
  BY <1>3
<1>6. Sorted(c, m)
  BY <1>3, <1>4, <1>5 DEF Sorted
<1>7. Begun(c, m)
  <2>1. \A j \in 2..m : j \in 2..l /\ j - 1 \in 1..m /\ j \in 1..m
    BY <1>3
  <2>. QED  BY <1>3, <1>4, <2>1 DEF Begun
<1>. QED  BY <1>1, <1>2, <1>4, <1>5, <1>6, <1>7

LEMMA RequestsAre ==
  ASSUME NEW chunk \in UnitSeq(3), Sorted(chunk, Len(chunk))
  PROVE  /\ RequestsIn(chunk) \in Seq(Ids) /\ Increasing(RequestsIn(chunk))
         /\ Range(RequestsIn(chunk)) \subseteq Full(chunk, 3)
         /\ chunk[1][2] # 3 /\ IdsOf(chunk) \cap OfKind("wide") = {} /\ Len(chunk) > 0 =>
              Range(RequestsIn(chunk)) = Full(chunk, 3)
<1>1. PICK ids : ids = Complete(chunk, 3, OfKind("wide"))
  OBVIOUS
<1>2. /\ ids \in Seq(Ids) /\ Increasing(ids) /\ Range(ids) \subseteq Full(chunk, 3)
      /\ IdsOf(chunk) \cap OfKind("wide") = {} => Range(ids) = Full(chunk, 3)
  BY <1>1, CompleteIs
<1>3. <<>> \in Seq(Ids) /\ Increasing(<<>>) /\ Range(<<>>) = {}
  BY DEF Increasing, Range
<1>4. CASE chunk[1][2] = 3 \/ (chunk[1][2] = 2 /\ chunk[1][1] \in OfKind("wide"))
  <2>1. RequestsIn(chunk) = <<>>
    BY <1>4 DEF RequestsIn
  <2>2. Len(chunk) > 0 => chunk[1][1] \in IdsOf(chunk)
    <3>1. Len(chunk) \in Nat
      BY LenProperties DEF UnitSeq
    <3>2. Len(chunk) > 0 => 1 \in 1..Len(chunk)
      BY <3>1
    <3>. QED  BY <3>2, InIds
  <2>. QED  BY <1>3, <1>4, <2>1, <2>2
<1>5. CASE ~(chunk[1][2] = 3 \/ (chunk[1][2] = 2 /\ chunk[1][1] \in OfKind("wide")))
  <2>1. RequestsIn(chunk) = ids
    BY <1>1, <1>5 DEF RequestsIn, RequestUnits
  <2>. QED  BY <1>2, <2>1
<1>. QED  BY <1>4, <1>5

(* A chunk of n units arrives: its requests run, and the state after them  *)
(* is st.                                                                  *)
Arrives(s, n, chunk, ids, st) ==
  /\ s \in connected /\ n \in 1..Len(toServer[s]) /\ n \in Nat
  /\ chunk = SubSeq(toServer[s], 1, n) /\ ids = RequestsIn(chunk)
  /\ chunk \in UnitSeq(3) /\ Len(chunk) = n
  /\ \A j \in 1..n : chunk[j] = toServer[s][j] /\ j \in 1..Len(toServer[s])
  /\ Sorted(chunk, n) /\ Begun(chunk, n)
  /\ Due(s, ids) /\ Range(ids) \subseteq Full(chunk, 3)
  /\ Ran(s, ids, Len(ids), st)
  /\ clients' = st.names /\ replies' = st.replies /\ handled' = handled \o ids
  /\ toClient' = [toClient EXCEPT ![s] = @ \o st.units]
  /\ toServer' = [toServer EXCEPT ![s] = After(@, n)]

LEMMA ReceiveDoes ==
  ASSUME Inv, NEW s \in Sockets, NEW n, Receive(s, n)
  PROVE  \E chunk, ids, st : Arrives(s, n, chunk, ids, st)
<1>1. PICK q : q = toServer[s]
  OBVIOUS
<1>2. PICK chunk : chunk = SubSeq(q, 1, n)
  OBVIOUS
<1>3. PICK ids : ids = RequestsIn(chunk)
  OBVIOUS
<1>4. PICK st : st = RunAll(s, ids)
  OBVIOUS
<1>5. q \in UnitSeq(3) /\ Orderly(q, 3)
  BY <1>1 DEF Inv, TypeOK, RequestStreams, UnitSeq, RequestUnits
<1>6. n \in 1..Len(q) /\ n \in Nat
  BY <1>1 DEF Receive
<1>7. /\ chunk \in UnitSeq(3) /\ Len(chunk) = n
      /\ \A j \in 1..n : chunk[j] = q[j] /\ j \in 1..Len(q)
      /\ Sorted(chunk, n) /\ Begun(chunk, n)
  BY <1>2, <1>5, <1>6, ChunkOf
<1>8. /\ ids \in Seq(Ids) /\ Increasing(ids) /\ Range(ids) \subseteq Full(chunk, 3)
  BY <1>3, <1>7, RequestsAre
<1>9. \A x \in Full(chunk, 3) : \E j \in 1..Len(q) : q[j][1] = x
  <2>. SUFFICES ASSUME NEW x \in Full(chunk, 3) PROVE \E j \in 1..Len(q) : q[j][1] = x
    OBVIOUS
  <2>1. PICK j \in 1..n : chunk[j] = <<x, 3>>
    <3>1. <<x, 3>> \in Range(chunk)
      BY DEF Full
    <3>2. chunk \in Seq(Ids \X (1..3)) /\ n = Len(chunk)
      BY <1>7 DEF UnitSeq
    <3>. QED  BY <3>1, <3>2, InRange
  <2>. QED  BY <1>7, <2>1
<1>10. \A j \in 1..Len(q) : LET i == q[j][1] IN
         /\ s \in connected /\ i \in DOMAIN requests /\ Socket(i) = s /\ i > log.since[s]
         /\ \A k \in Range(handled) \cup log.whole : Socket(k) = s => k < i
  BY <1>1 DEF Inv, RequestStreams
<1>11. s \in connected
  BY <1>6, <1>10
<1>12. Due(s, ids)
  <2>1. \A j \in 1..Len(ids) : ids[j] \in Range(ids)
    BY <1>8, InRange
  <2>2. \A j \in 1..Len(ids) : \E k \in 1..Len(q) : q[k][1] = ids[j]
    BY <1>8, <1>9, <2>1
  <2>3. \A j \in 1..Len(ids) :
          /\ ids[j] \in DOMAIN requests /\ Socket(ids[j]) = s /\ ids[j] > log.since[s]
          /\ \A k \in Range(handled) : Socket(k) = s => k < ids[j]
    BY <1>10, <2>2
  <2>4. ids \in Seq(DOMAIN requests)
    <3>1. ids = [j \in 1..Len(ids) |-> ids[j]] /\ Len(ids) \in Nat
      BY <1>8
    <3>. QED  BY <2>3, <3>1, SeqDef
  <2>. QED  BY <1>8, <2>3, <2>4 DEF Due
<1>13. Ran(s, ids, Len(ids), st)
  BY <1>4, <1>11, <1>12, AllHaveRun DEF Inv
<1>14. /\ clients' = st.names /\ replies' = st.replies /\ handled' = handled \o ids
       /\ toClient' = [toClient EXCEPT ![s] = @ \o st.units]
       /\ toServer' = [toServer EXCEPT ![s] = After(@, n)]
  BY <1>1, <1>2, <1>3, <1>4 DEF Receive, Handle, Write
<1>15. Arrives(s, n, chunk, ids, st)
  BY <1>1, <1>2, <1>3, <1>6, <1>7, <1>8, <1>11, <1>12, <1>13, <1>14 DEF Arrives
<1>. QED  BY <1>15

LEMMA Numbers ==
  ASSUME Inv
  PROVE  /\ Len(requests) \in Nat /\ DOMAIN requests = 1..Len(requests)
         /\ DOMAIN requests \subseteq Ids /\ DOMAIN requests \subseteq Nat
         /\ handled \in Seq(DOMAIN requests) /\ Range(handled) \subseteq DOMAIN requests
         /\ \A i \in DOMAIN requests : requests[i] \in [socket : Sockets, kind : Kinds, name : Names]
<1>1. requests \in Seq([socket : Sockets, kind : Kinds, name : Names]) /\ handled \in Seq(DOMAIN requests)
  BY DEF Inv, TypeOK
<1>2. Len(requests) \in Nat /\ DOMAIN requests = 1..Len(requests) /\ Len(requests) <= MaxRequests
  BY <1>1, LenProperties DEF Inv, Bounded
<1>3. DOMAIN requests \subseteq Ids /\ DOMAIN requests \subseteq Nat
  BY <1>2, BoundsAssumption DEF Ids
<1>4. Range(handled) \subseteq DOMAIN requests
  BY <1>1, RangeOfSeq
<1>. QED  BY <1>1, <1>2, <1>3, <1>4, ElementOfSeq

(* What is told of the requests by those that a chunk runs.                *)
LEMMA NewlyHandled ==
  ASSUME Inv, NEW s \in Sockets, NEW n, NEW chunk, NEW ids, NEW st, Arrives(s, n, chunk, ids, st)
  PROVE  /\ handled' \in Seq(DOMAIN requests) /\ Range(handled') = Range(handled) \cup Range(ids)
         /\ Earlier(ids, Len(ids)) = Range(ids)
         /\ \A i \in Range(ids) :
              /\ i \in DOMAIN requests /\ Socket(i) = s /\ i > log.since[s] /\ i \notin Range(handled)
              /\ \A k \in Range(handled) : Socket(k) = s => k < i
         /\ \A i \in Ids \ Range(ids) : replies'[i] = replies[i]
         /\ \A i \in Range(ids) : replies'[i] # None
<1>1. ids \in Seq(DOMAIN requests) /\ handled \in Seq(DOMAIN requests) /\ handled' = handled \o ids
  BY Numbers DEF Arrives, Due
<1>2. handled' \in Seq(DOMAIN requests) /\ Range(handled') = Range(handled) \cup Range(ids)
  BY <1>1, RangeConcatenation, ConcatProperties
<1>3. \A i \in Range(ids) : \E j \in 1..Len(ids) : ids[j] = i
  BY <1>1, InRange
<1>4. Earlier(ids, Len(ids)) = Range(ids)
  <2>1. DOMAIN ids = 1..Len(ids)
    BY <1>1, LenProperties
  <2>. QED  BY <2>1 DEF Earlier, Range
<1>5. ASSUME NEW i \in Range(ids)
      PROVE  /\ i \in DOMAIN requests /\ Socket(i) = s /\ i > log.since[s] /\ i \notin Range(handled)
             /\ \A k \in Range(handled) : Socket(k) = s => k < i
  <2>1. i \in DOMAIN requests /\ i \in Nat
    BY <1>1, <1>3, ElementOfSeq, Numbers
  <2>2. Socket(i) = s /\ i > log.since[s] /\ \A k \in Range(handled) : Socket(k) = s => k < i
    BY <1>3 DEF Arrives, Due
  <2>. QED  BY <2>1, <2>2
<1>6. replies' = st.replies /\ Ran(s, ids, Len(ids), st)
  BY DEF Arrives
<1>7. \A i \in Ids \ Range(ids) : replies'[i] = replies[i]
  BY <1>4, <1>6 DEF Ran
<1>8. \A i \in Range(ids) : replies'[i] # None
  BY <1>3, <1>6 DEF Ran
<1>. QED  BY <1>2, <1>4, <1>5, <1>7, <1>8

(* What is looked back at, of a chunk.                                     *)
Marks(s, n, chunk) ==
  /\ \E cut \in SUBSET Ids :
       /\ log'.lone = log.lone \ cut /\ log'.cut = log.cut \cup cut
       /\ \A i \in cut : n < Len(toServer[s]) /\ toServer[s][n][2] < 3 /\ i = toServer[s][n][1]
       /\ n < Len(toServer[s]) /\ toServer[s][n][2] < 3 => toServer[s][n][1] \in cut
  /\ log'.whole = log.whole \cup {i \in Ids : <<i, 3>> \in Range(chunk)}
  /\ log'.torn \in {log.torn, log.torn \cup {s}}
  /\ s \notin log'.torn => ~CutsPart(toServer[s], n) /\ IdsOf(chunk) \cap OfKind("wide") = {}
  /\ log'.since = log.since /\ log' \in Log

LEMMA ReceiveMarks ==
  ASSUME Inv, NEW s \in Sockets, NEW n, Receive(s, n),
         NEW chunk, NEW ids, NEW st, Arrives(s, n, chunk, ids, st)
  PROVE  Marks(s, n, chunk)
<1>1. PICK q : q = toServer[s]
  OBVIOUS
<1>2. PICK cut : cut = IF CutsRequest(q, n) THEN {q[n][1]} ELSE {}
  OBVIOUS
<1>3. PICK bad : bad = (CutsPart(q, n) \/ IdsOf(chunk) \cap OfKind("wide") # {})
  OBVIOUS
<1>4. chunk = SubSeq(q, 1, n) /\ chunk \in UnitSeq(3) /\ q \in UnitSeq(3) /\ n \in 1..Len(q)
  BY <1>1 DEF Arrives, Inv, TypeOK, UnitSeq, RequestUnits
<1>5. PICK more : more = {i \in IdsOf(chunk) : <<i, RequestUnits>> \in Range(chunk)}
  OBVIOUS
<1>6. log' = [log EXCEPT !.lone = @ \ cut, !.whole = @ \cup more, !.cut = @ \cup cut,
                         !.torn = IF bad THEN @ \cup {s} ELSE @]
  BY <1>1, <1>2, <1>3, <1>4, <1>5, Zenon DEF Receive, LogChunk
<1>7. log \in Log
  BY DEF Inv, TypeOK
<1>8. /\ log'.lone = log.lone \ cut /\ log'.whole = log.whole \cup more /\ log'.cut = log.cut \cup cut
      /\ log'.torn = (IF bad THEN log.torn \cup {s} ELSE log.torn) /\ log'.since = log.since
  BY <1>6, <1>7 DEF Log
<1>9. cut \in SUBSET Ids
  BY <1>2, <1>4, UnitsIn
<1>10. more = {i \in Ids : <<i, 3>> \in Range(chunk)}
  <2>1. ASSUME NEW i, <<i, 3>> \in Range(chunk)
        PROVE  i \in Ids /\ i \in IdsOf(chunk)
    <3>1. PICK j \in 1..Len(chunk) : chunk[j] = <<i, 3>>
      <4>1. PICK S : chunk \in Seq(S)
        BY <1>4 DEF UnitSeq
      <4>. QED  BY <2>1, <4>1, InRange
    <3>2. chunk[j][1] = i /\ chunk[j][1] \in Ids
      BY <1>4, <3>1, UnitsIn
    <3>. QED  BY <1>4, <3>1, <3>2, InIds
  <2>. QED  BY <1>5, <2>1 DEF RequestUnits
<1>11. log' \in Log
  <2>1. more \in SUBSET Ids
    BY <1>10
  <2>. QED  BY <1>6, <1>7, <1>9, <2>1 DEF Log
<1>12. /\ \A i \in cut : n < Len(q) /\ q[n][2] < 3 /\ i = q[n][1]
       /\ n < Len(q) /\ q[n][2] < 3 => q[n][1] \in cut
  BY <1>2 DEF CutsRequest, RequestUnits
<1>13. log'.torn \in {log.torn, log.torn \cup {s}}
  BY <1>8
<1>14. s \notin log'.torn => ~CutsPart(q, n) /\ IdsOf(chunk) \cap OfKind("wide") = {}
  BY <1>3, <1>8
<1>. QED  BY <1>1, <1>8, <1>9, <1>10, <1>11, <1>12, <1>13, <1>14 DEF Marks

(***************************************************************************)
(* Receive keeps the invariant.                                            *)
(***************************************************************************)
(* A receipt, with all that is known of it.                                *)
Receipt(s, n, chunk, ids, st) ==
  /\ Inv /\ s \in Sockets /\ Arrives(s, n, chunk, ids, st) /\ Marks(s, n, chunk)
  /\ UNCHANGED <<requests, listeners, previous, answers, connected, closes>>

LEMMA ReceiptOf ==
  ASSUME Inv, NEW s \in Sockets, NEW n, Receive(s, n)
  PROVE  \E chunk, ids, st : Receipt(s, n, chunk, ids, st)
<1>1. PICK chunk, ids, st : Arrives(s, n, chunk, ids, st)
  BY ReceiveDoes
<1>2. Marks(s, n, chunk)
  BY <1>1, ReceiveMarks
<1>3. UNCHANGED <<requests, listeners, previous, answers, connected, closes>>
  BY DEF Receive
<1>. QED  BY <1>1, <1>2, <1>3 DEF Receipt

(* The units of a stream behind a chunk.                                   *)
LEMMA BehindChunk ==
  ASSUME NEW s, NEW n, NEW chunk, NEW ids, NEW st, Receipt(s, n, chunk, ids, st)
  PROVE  /\ toServer[s] \in UnitSeq(3) /\ toServer'[s] \in UnitSeq(3) /\ Orderly(toServer'[s], 3)
         /\ Len(toServer'[s]) = Len(toServer[s]) - n
         /\ \A j \in 1..Len(toServer'[s]) :
              toServer'[s][j] = toServer[s][n + j] /\ n + j \in 1..Len(toServer[s]) /\ n + j > n
         /\ \A x \in Sockets \ {s} : toServer'[x] = toServer[x]
         /\ DOMAIN toServer' = Sockets
<1>1. /\ toServer[s] \in UnitSeq(3) /\ Orderly(toServer[s], 3)
      /\ DOMAIN toServer = Sockets /\ s \in Sockets
  BY DEF Receipt, Inv, TypeOK, RequestStreams, UnitSeq, RequestUnits
<1>2. n \in 1..Len(toServer[s]) /\ toServer' = [toServer EXCEPT ![s] = After(@, n)] /\ n \in Nat
  BY DEF Receipt, Arrives
<1>3. PICK q : q = toServer[s]
  OBVIOUS
<1>4. PICK l : l = Len(q)
  OBVIOUS
<1>5. l \in Nat /\ n \in 0..l /\ n \in 1..l
  BY <1>1, <1>2, <1>3, <1>4, LenProperties DEF UnitSeq
<1>6. toServer'[s] = After(q, n)
  BY <1>1, <1>2, <1>3
<1>7. /\ After(q, n) \in UnitSeq(3) /\ Len(After(q, n)) = l - n
      /\ \A j \in 1..(l - n) : After(q, n)[j] = q[n + j]
  BY <1>1, <1>3, <1>4, <1>5, PartsOf
<1>8. Orderly(After(q, n), 3)
  BY <1>1, <1>3, <1>4, <1>5, AfterIsOrderly
<1>9. \A j \in 1..(l - n) : n + j \in 1..l /\ n + j > n
  BY <1>5
<1>10. (\A x \in Sockets \ {s} : toServer'[x] = toServer[x]) /\ DOMAIN toServer' = Sockets
  BY <1>1, <1>2
<1>. QED  BY <1>1, <1>3, <1>4, <1>6, <1>7, <1>8, <1>9, <1>10

(* And the replies behind what was there.                                  *)
LEMMA RepliesWritten ==
  ASSUME NEW s, NEW n, NEW chunk, NEW ids, NEW st, Receipt(s, n, chunk, ids, st)
  PROVE  /\ toClient[s] \in UnitSeq(2) /\ st.units \in UnitSeq(2)
         /\ toClient'[s] = toClient[s] \o st.units
         /\ toClient'[s] \in UnitSeq(2) /\ Orderly(toClient'[s], 2)
         /\ \A j \in 1..Len(toClient'[s]) :
              toClient'[s][j][1] \in Range(handled') /\ Socket(toClient'[s][j][1]) = s
         /\ \A x \in Sockets \ {s} : toClient'[x] = toClient[x]
         /\ DOMAIN toClient' = Sockets
<1>1. Inv /\ s \in Sockets /\ Arrives(s, n, chunk, ids, st)
  BY DEF Receipt
<1>2. toClient \in [Sockets -> UnitSeq(2)]
  BY <1>1 DEF Inv, TypeOK, UnitSeq, ReplyUnits
<1>3. toClient' = [toClient EXCEPT ![s] = @ \o st.units] /\ Ran(s, ids, Len(ids), st)
  BY <1>1 DEF Arrives
<1>4. st.units \in UnitSeq(2)
  BY <1>3 DEF Ran, States, ReplyUnits
<1>5. PICK p : p = toClient[s]
  OBVIOUS
<1>6. PICK u : u = st.units
  OBVIOUS
<1>7. p \in UnitSeq(2) /\ u \in UnitSeq(2) /\ toClient'[s] = p \o u
  BY <1>1, <1>2, <1>3, <1>4, <1>5, <1>6
<1>8. \A j \in 1..Len(p) : p[j][1] \in Range(handled) /\ Socket(p[j][1]) = s
  BY <1>1, <1>5 DEF Inv, ReplyStreams
<1>9. \A j \in 1..Len(u) : u[j][1] \in Range(ids) /\ u[j][1] \in DOMAIN requests
  <2>1. Earlier(ids, Len(ids)) = Range(ids) /\ Range(ids) \subseteq DOMAIN requests
    BY <1>1, NewlyHandled
  <2>. QED  BY <1>3, <1>6, <2>1 DEF Ran
<1>10. Orderly(p, 2) /\ Orderly(u, 2) /\ (u # <<>> => u[1][2] = 1)
  BY <1>1, <1>3, <1>5, <1>6 DEF Inv, ReplyStreams, Ran, ReplyUnits
<1>11. \A j \in 1..Len(p), k \in 1..Len(u) : p[j][1] < u[k][1]
  BY <1>1, <1>8, <1>9, NewlyHandled
<1>12. Len(u) > 0 => u # <<>>
  BY <1>7, EmptySeq DEF UnitSeq
<1>13. (p \o u) \in UnitSeq(2) /\ Orderly(p \o u, 2)
  BY <1>7, <1>10, <1>11, <1>12, JoinIsOrderly
<1>14. ASSUME NEW j \in 1..Len(p \o u)
       PROVE  (p \o u)[j][1] \in Range(handled') /\ Socket((p \o u)[j][1]) = s
  <2>1. Range(handled') = Range(handled) \cup Range(ids) /\ \A i \in Range(ids) : Socket(i) = s
    BY <1>1, NewlyHandled
  <2>2. Range(p \o u) = Range(p) \cup Range(u)
    BY <1>7, RangeConcatenation DEF UnitSeq
  <2>3. (p \o u)[j] \in Range(p \o u)
    BY <1>13, InRange DEF UnitSeq
  <2>4. \A x \in Range(p) : x[1] \in Range(handled) /\ Socket(x[1]) = s
    BY <1>7, <1>8, InRange DEF UnitSeq
  <2>5. \A x \in Range(u) : x[1] \in Range(ids)
    <3>1. \A x \in Range(u) : \E k \in 1..Len(u) : u[k] = x
      BY <1>7, InRange DEF UnitSeq
    <3>. QED  BY <1>9, <3>1, Zenon
  <2>. QED  BY <2>1, <2>2, <2>3, <2>4, <2>5
<1>15. (\A x \in Sockets \ {s} : toClient'[x] = toClient[x]) /\ DOMAIN toClient' = Sockets
  BY <1>1, <1>2, <1>3
<1>. QED  BY <1>4, <1>5, <1>6, <1>7, <1>13, <1>14, <1>15

LEMMA ReceiveKeepsTypes ==
  ASSUME NEW s, NEW n, NEW chunk, NEW ids, NEW st, Receipt(s, n, chunk, ids, st)
  PROVE  TypeOK' /\ Bounded' /\ ListenersAreOwn'
<1>1. /\ Inv /\ s \in Sockets /\ Arrives(s, n, chunk, ids, st) /\ Marks(s, n, chunk)
      /\ UNCHANGED <<requests, listeners, previous, answers, connected, closes>>
  BY DEF Receipt
<1>2. toServer' \in [Sockets -> Seq(Ids \X (1..RequestUnits))]
  <2>1. \A x \in Sockets : toServer'[x] \in Seq(Ids \X (1..3))
    BY <1>1, BehindChunk DEF Inv, TypeOK, UnitSeq, RequestUnits
  <2>2. DOMAIN toServer' = Sockets /\ toServer' = [x \in DOMAIN toServer' |-> toServer'[x]]
    <3>1. toServer' = [toServer EXCEPT ![s] = After(@, n)]
      BY <1>1 DEF Arrives
    <3>. QED  BY <3>1, BehindChunk
  <2>. QED  BY <2>1, <2>2 DEF RequestUnits
<1>3. toClient' \in [Sockets -> Seq(Ids \X (1..ReplyUnits))]
  <2>1. \A x \in Sockets : toClient'[x] \in Seq(Ids \X (1..2))
    BY <1>1, RepliesWritten DEF Inv, TypeOK, UnitSeq, ReplyUnits
  <2>2. DOMAIN toClient' = Sockets /\ toClient' = [x \in DOMAIN toClient' |-> toClient'[x]]
    <3>1. toClient' = [toClient EXCEPT ![s] = @ \o st.units]
      BY <1>1 DEF Arrives
    <3>. QED  BY <3>1, RepliesWritten
  <2>. QED  BY <2>1, <2>2 DEF ReplyUnits
<1>4. clients' \in NameMaps /\ replies' \in [Ids -> Replied]
  BY <1>1 DEF Arrives, Ran, States
<1>5. handled' \in Seq(DOMAIN requests) /\ Range(handled') = Range(handled) \cup Range(ids)
  BY <1>1, NewlyHandled
<1>6. \A i \in Ids : replies'[i] # None => i \in Range(handled')
  BY <1>1, <1>5, NewlyHandled DEF Inv, TypeOK
<1>7. log' \in Log /\ log'.since = log.since
  BY <1>1 DEF Marks
<1>8. TypeOK'
  BY <1>1, <1>2, <1>3, <1>4, <1>5, <1>6, <1>7 DEF Inv, TypeOK, NameMaps
<1>9. \A i \in Range(handled') : replies'[i] # None
  <2>1. ASSUME NEW i \in Range(handled)
        PROVE  replies'[i] # None
    <3>1. replies[i] # None /\ i \in Ids
      BY <1>1, Numbers DEF Inv, Bounded
    <3>. QED  BY <1>1, <3>1, NewlyHandled
  <2>. QED  BY <1>1, <1>5, <2>1, NewlyHandled
<1>10. (log.lone \cup log.whole \cup log.cut)' \subseteq DOMAIN requests
  <2>1. \A j \in 1..Len(toServer[s]) : toServer[s][j][1] \in DOMAIN requests
    BY <1>1 DEF Inv, RequestStreams
  <2>2. log.lone \cup log.whole \cup log.cut \subseteq DOMAIN requests
    BY <1>1 DEF Inv, Bounded
  <2>3. \A i \in Ids : <<i, 3>> \in Range(chunk) => i \in DOMAIN requests
    <3>. SUFFICES ASSUME NEW i \in Ids, <<i, 3>> \in Range(chunk) PROVE i \in DOMAIN requests
      OBVIOUS
    <3>1. chunk \in Seq(Ids \X (1..3)) /\ n = Len(chunk)
      BY <1>1 DEF Arrives, UnitSeq
    <3>2. PICK j \in 1..n : chunk[j] = <<i, 3>>
      BY <3>1, InRange
    <3>3. chunk[j] = toServer[s][j] /\ j \in 1..Len(toServer[s])
      BY <1>1 DEF Arrives
    <3>4. toServer[s][j][1] = i
      BY <3>2, <3>3
    <3>. QED  BY <2>1, <3>3, <3>4
  <2>4. log'.whole \subseteq DOMAIN requests
    BY <1>1, <2>2, <2>3 DEF Marks
  <2>5. n \in 1..Len(toServer[s])
    BY <1>1 DEF Arrives
  <2>6. log'.lone \subseteq DOMAIN requests /\ log'.cut \subseteq DOMAIN requests
    BY <1>1, <2>1, <2>2, <2>5 DEF Marks
  <2>. QED  BY <2>4, <2>6
<1>11. Bounded'
  <2>1. replies' = [i \in Ids |-> replies'[i]]
    BY <1>4
  <2>2. Len(requests) <= MaxRequests /\ \A x \in Sockets : log'.since[x] <= Len(requests)
    BY <1>1, <1>7 DEF Inv, Bounded
  <2>. QED  BY <1>1, <1>9, <1>10, <2>1, <2>2 DEF Bounded
<1>12. ListenersAreOwn'
  BY <1>1 DEF Inv, ListenersAreOwn, Socket
<1>. QED  BY <1>8, <1>11, <1>12

LEMMA ReceiveKeepsRequests ==
  ASSUME NEW s, NEW n, NEW chunk, NEW ids, NEW st, Receipt(s, n, chunk, ids, st)
  PROVE  RequestStreams'
<1>1. /\ Inv /\ s \in Sockets /\ Arrives(s, n, chunk, ids, st) /\ Marks(s, n, chunk)
      /\ UNCHANGED <<requests, listeners, previous, answers, connected, closes>>
  BY DEF Receipt
<1>2. PICK q : q = toServer[s]
  OBVIOUS
<1>3. n \in 1..Len(q) /\ n \in Nat /\ chunk \in Seq(Ids \X (1..3)) /\ Len(chunk) = n
  BY <1>1, <1>2 DEF Arrives, UnitSeq
<1>4. \A j \in 1..n : chunk[j] = q[j] /\ j \in 1..Len(q)
  BY <1>1, <1>2 DEF Arrives
<1>5. \A j \in 1..Len(q) : q[j][1] \in DOMAIN requests /\ Socket(q[j][1]) = s
  BY <1>1, <1>2 DEF Inv, RequestStreams
(* Whatever has arrived whole or is handled now.                           *)
<1>6. \A i : i \in Range(handled') \cup log'.whole =>
        i \in Range(handled) \cup log.whole \/ <<i, 3>> \in Range(chunk)
  <2>1. log'.whole = log.whole \cup {i \in Ids : <<i, 3>> \in Range(chunk)}
    BY <1>1 DEF Marks
  <2>2. Range(handled') = Range(handled) \cup Range(ids) /\ Range(ids) \subseteq Full(chunk, 3)
    <3>1. Range(ids) \subseteq Full(chunk, 3)
      BY <1>1 DEF Arrives
    <3>. QED  BY <1>1, <3>1, NewlyHandled
  <2>. QED  BY <2>1, <2>2 DEF Full
<1>7. ASSUME NEW i, <<i, 3>> \in Range(chunk)
      PROVE  \E k \in 1..n : q[k] = <<i, 3>>
  <2>1. PICK k \in 1..n : chunk[k] = <<i, 3>>
    <3>1. PICK S : chunk \in Seq(S)
      BY <1>3
    <3>. QED  BY <1>3, <1>7, <3>1, InRange
  <2>. QED  BY <1>4, <2>1
<1>8. log'.since = log.since
  BY <1>1 DEF Marks
<1>9. ASSUME NEW x \in Sockets
      PROVE  /\ Orderly(toServer'[x], 3)
             /\ \A j \in 1..Len(toServer'[x]) :
                  /\ x \in connected /\ toServer'[x][j][1] \in DOMAIN requests
                  /\ Socket(toServer'[x][j][1]) = x /\ toServer'[x][j][1] > log.since[x]
                  /\ \A k \in Range(handled') \cup log'.whole : Socket(k) = x => k < toServer'[x][j][1]
  <2>1. CASE x # s
    <3>1. toServer'[x] = toServer[x]
      BY <2>1, BehindChunk
    <3>2. \A i : <<i, 3>> \in Range(chunk) => Socket(i) # x
      <4>. SUFFICES ASSUME NEW i, <<i, 3>> \in Range(chunk) PROVE Socket(i) = s
        BY <2>1
      <4>1. PICK k \in 1..n : q[k] = <<i, 3>>
        BY <1>7
      <4>2. k \in 1..Len(q) /\ q[k][1] = i
        BY <1>4, <4>1
      <4>. QED  BY <1>5, <4>2
    <3>3. \A i \in Range(handled') \cup log'.whole : Socket(i) = x => i \in Range(handled) \cup log.whole
      BY <1>6, <3>2
    <3>4. Orderly(toServer[x], 3) /\ \A j \in 1..Len(toServer[x]) :
            /\ x \in connected /\ toServer[x][j][1] \in DOMAIN requests
            /\ Socket(toServer[x][j][1]) = x /\ toServer[x][j][1] > log.since[x]
            /\ \A k \in Range(handled) \cup log.whole : Socket(k) = x => k < toServer[x][j][1]
      BY <1>1 DEF Inv, RequestStreams, RequestUnits
    <3>. QED  BY <3>1, <3>3, <3>4
  <2>2. CASE x = s
    <3>1. PICK p : p = toServer'[s]
      OBVIOUS
    <3>2. Orderly(p, 3) /\ \A j \in 1..Len(p) : p[j] = q[n + j] /\ n + j \in 1..Len(q) /\ n + j > n
      BY <1>1, <1>2, <3>1, BehindChunk
    <3>3. ASSUME NEW j \in 1..Len(p)
          PROVE  /\ s \in connected /\ p[j][1] \in DOMAIN requests /\ Socket(p[j][1]) = s
                 /\ p[j][1] > log.since[s]
                 /\ \A k \in Range(handled) \cup log.whole : Socket(k) = s => k < p[j][1]
                 /\ \A i : <<i, 3>> \in Range(chunk) => i < p[j][1]
      <4>1. PICK m \in 1..Len(q) : m = n + j /\ p[j] = q[m] /\ m > n
        BY <3>2
      <4>2. /\ s \in connected /\ q[m][1] \in DOMAIN requests /\ Socket(q[m][1]) = s
            /\ q[m][1] > log.since[s]
            /\ \A k \in Range(handled) \cup log.whole : Socket(k) = s => k < q[m][1]
        BY <1>1, <1>2 DEF Inv, RequestStreams
      <4>3. ASSUME NEW i, <<i, 3>> \in Range(chunk)
            PROVE  i < q[m][1]
        <5>1. PICK k \in 1..n : q[k] = <<i, 3>>
          BY <1>7, <4>3
        <5>2. k < m /\ k \in 1..Len(q) /\ m - k \in Nat \ {0}
          BY <1>3, <1>4, <4>1
        <5>3. q[k][1] = i /\ q[k][2] = 3
          BY <5>1
        <5>4. q \in UnitSeq(3) /\ Orderly(q, 3)
          BY <1>1, <1>2, BehindChunk DEF Inv, RequestStreams, RequestUnits, Receipt
        <5>5. q[m][2] \in 1..3
          BY <5>4, UnitsIn
        <5>6. q[k][1] < q[m][1] \/ q[m][2] - q[k][2] = m - k
          BY <5>2, <5>4 DEF Orderly
        <5>. QED  BY <5>2, <5>3, <5>5, <5>6
      <4>. QED  BY <4>1, <4>2, <4>3
    <3>. QED  BY <1>6, <2>2, <3>1, <3>2, <3>3
  <2>. QED  BY <2>1, <2>2
<1>. QED  BY <1>1, <1>8, <1>9 DEF RequestStreams, RequestUnits, Socket

LEMMA ReceiveKeepsReplies ==
  ASSUME NEW s, NEW n, NEW chunk, NEW ids, NEW st, Receipt(s, n, chunk, ids, st)
  PROVE  ReplyStreams'
<1>1. /\ Inv /\ s \in Sockets /\ Arrives(s, n, chunk, ids, st)
      /\ UNCHANGED <<requests, listeners, previous, answers, connected, closes>>
  BY DEF Receipt
<1>3. ASSUME NEW x \in Sockets
      PROVE  /\ Orderly(toClient'[x], 2)
             /\ \A j \in 1..Len(toClient'[x]) :
                  /\ x \in connected /\ toClient'[x][j][1] \in Range(handled')
                  /\ Socket(toClient'[x][j][1]) = x
  <2>1. CASE x # s
    <3>1. toClient'[x] = toClient[x]
      BY <2>1, RepliesWritten
    <3>2. Range(handled) \subseteq Range(handled')
      BY <1>1, NewlyHandled
    <3>3. /\ Orderly(toClient[x], 2)
          /\ \A j \in 1..Len(toClient[x]) :
               /\ x \in connected /\ toClient[x][j][1] \in Range(handled) /\ Socket(toClient[x][j][1]) = x
      BY <1>1 DEF Inv, ReplyStreams, ReplyUnits
    <3>. QED  BY <3>1, <3>2, <3>3
  <2>2. CASE x = s
    <3>1. s \in connected
      BY <1>1 DEF Arrives
    <3>. QED  BY <2>2, <3>1, RepliesWritten
  <2>. QED  BY <2>1, <2>2
<1>. QED  BY <1>1, <1>3 DEF ReplyStreams, ReplyUnits, Socket

LEMMA ReceiveKeepsCuts ==
  ASSUME NEW s, NEW n, NEW chunk, NEW ids, NEW st, Receipt(s, n, chunk, ids, st)
  PROVE  CutsAreKnown'
<1>1. /\ Inv /\ s \in Sockets /\ Arrives(s, n, chunk, ids, st) /\ Marks(s, n, chunk)
  BY DEF Receipt
<1>2. PICK q : q = toServer[s]
  OBVIOUS
<1>3. PICK p : p = toServer'[s]
  OBVIOUS
<1>4. /\ q \in UnitSeq(3) /\ Orderly(q, 3)
      /\ n \in 1..Len(q) /\ n \in Nat
  BY <1>1, <1>2, BehindChunk DEF Inv, RequestStreams, RequestUnits, Arrives
<1>5. /\ p \in UnitSeq(3) /\ Len(p) = Len(q) - n
      /\ \A j \in 1..Len(p) : p[j] = q[n + j] /\ n + j \in 1..Len(q) /\ n + j > n
  BY <1>2, <1>3, BehindChunk
<1>6. PICK cut \in SUBSET Ids :
        /\ log'.cut = log.cut \cup cut
        /\ \A i \in cut : n < Len(q) /\ q[n][2] < 3 /\ i = q[n][1]
        /\ n < Len(q) /\ q[n][2] < 3 => q[n][1] \in cut
  BY <1>1, <1>2 DEF Marks
<1>7. ASSUME NEW x \in Sockets, NEW j \in 1..Len(toServer'[x]), toServer'[x][j][2] = 1
      PROVE  toServer'[x][j][1] \notin log'.cut
  <2>1. CASE x # s
    <3>1. toServer'[x] = toServer[x]
      BY <2>1, BehindChunk
    <3>2. toServer[x][j][1] \notin log.cut /\ Socket(toServer[x][j][1]) = x
      BY <1>1, <1>7, <3>1 DEF Inv, CutsAreKnown, RequestStreams
    <3>3. Socket(q[n][1]) = s
      BY <1>1, <1>2, <1>4 DEF Inv, RequestStreams
    <3>. QED  BY <1>6, <2>1, <3>1, <3>2, <3>3
  <2>2. CASE x = s
    <3>1. PICK m \in 1..Len(q) : m = n + j /\ p[j] = q[m] /\ m > n
      BY <1>3, <1>5, <2>2
    <3>2. q[m][2] = 1 /\ q[m][1] \notin log.cut
      BY <1>1, <1>2, <1>3, <1>7, <2>2, <3>1 DEF Inv, CutsAreKnown
    <3>3. q[n][1] < q[m][1] \/ (q[n][1] = q[m][1] /\ q[m][2] - q[n][2] = m - n)
      BY <1>4, <3>1 DEF Orderly
    <3>4. q[n][2] \in 1..3 /\ q[n][1] \in Ids /\ q[m][1] \in Ids /\ Ids \subseteq Int
      BY <1>4, UnitsIn DEF Ids
    <3>5. q[n][1] # q[m][1]
      <4>1. PICK a \in Int : a = q[n][1]
        BY <3>4
      <4>2. PICK d \in 1..3 : d = q[n][2]
        BY <3>4
      <4>3. q[m][1] = a => ~(a < a)
        BY <4>1
      <4>4. q[m][1] = a => 1 - d = m - n
        BY <3>2, <3>3, <4>1, <4>2, <4>3
      <4>5. m \in Nat /\ n \in Nat /\ m > n
        BY <1>4, <3>1
      <4>6. 1 - d # m - n
        BY <4>2, <4>5
      <4>. QED  BY <4>1, <4>4, <4>6
    <3>. QED  BY <1>3, <1>6, <2>2, <3>1, <3>2, <3>5
  <2>. QED  BY <2>1, <2>2
<1>8. ASSUME NEW x \in Sockets, x \notin log'.torn, toServer'[x] # <<>>
      PROVE  \/ toServer'[x][1][2] = 1
             \/ toServer'[x][1][2] = 2 /\ toServer'[x][1][1] \in log'.cut
  <2>1. CASE x # s
    <3>1. toServer'[x] = toServer[x] /\ x \notin log.torn
      BY <1>1, <1>8, <2>1, BehindChunk DEF Marks
    <3>. QED  BY <1>1, <1>6, <1>8, <3>1 DEF Inv, CutsAreKnown
  <2>2. CASE x = s
    <3>1. PICK l \in Nat : l = Len(q)
      BY <1>4, LenProperties DEF UnitSeq
    <3>2. Len(p) \in Nat /\ Len(p) # 0
      BY <1>3, <1>5, <1>8, <2>2, EmptySeq, LenProperties DEF UnitSeq
    <3>3. n < l /\ n + 1 \in 1..l /\ n + 1 \in 2..l /\ p[1] = q[n + 1]
      BY <1>4, <1>5, <3>1, <3>2
    <3>4. ~CutsPart(q, n)
      BY <1>1, <1>2, <1>8, <2>2 DEF Marks
    <3>5. q[n][2] \in {1, 3}
      <4>1. q[n][2] \in 1..3
        BY <1>4, UnitsIn
      <4>2. q[n][2] # 2
        BY <3>1, <3>3, <3>4 DEF CutsPart
      <4>. QED  BY <4>1, <4>2
    <3>6. CASE q[n][2] = 1
      <4>1. q[n + 1] = <<q[n][1], 2>> /\ q[n][1] \in cut
        BY <1>4, <1>6, <3>1, <3>3, <3>6 DEF Orderly
      <4>. QED  BY <1>3, <1>6, <2>2, <3>3, <4>1
    <3>7. CASE q[n][2] = 3
      <4>1. q[n + 1][2] \in 1..3
        BY <1>4, <3>1, <3>3, UnitsIn
      <4>2. q[n + 1][2] > 1 => q[(n + 1) - 1] = <<q[n + 1][1], q[n + 1][2] - 1>>
        BY <1>4, <3>1, <3>3 DEF Orderly
      <4>3. (n + 1) - 1 = n
        BY <1>4
      <4>4. q[n + 1][2] = 1
        BY <3>7, <4>1, <4>2, <4>3
      <4>. QED  BY <1>3, <2>2, <3>3, <4>4
    <3>. QED  BY <3>5, <3>6, <3>7
  <2>. QED  BY <2>1, <2>2
<1>. QED  BY <1>7, <1>8 DEF CutsAreKnown

LEMMA ReceiveKeepsOrder ==
  ASSUME NEW s, NEW n, NEW chunk, NEW ids, NEW st, Receipt(s, n, chunk, ids, st)
  PROVE  HandledInOrder'
<1>1. /\ Inv /\ s \in Sockets /\ Arrives(s, n, chunk, ids, st)
      /\ UNCHANGED <<requests, listeners, previous, answers, connected, closes>>
  BY DEF Receipt
<1>2. handled \in Seq(Ids) /\ ids \in Seq(Ids) /\ handled' = handled \o ids /\ Increasing(ids)
  <2>1. handled \in Seq(DOMAIN requests) /\ ids \in Seq(DOMAIN requests) /\ DOMAIN requests \subseteq Ids
    BY <1>1, Numbers DEF Arrives, Due
  <2>. QED  BY <1>1, <2>1 DEF Arrives, Due
<1>3. PICK a \in Nat : a = Len(handled)
  BY <1>2, LenProperties
<1>4. PICK b \in Nat : b = Len(ids)
  BY <1>2, LenProperties
<1>5. PICK h : h = handled'
  OBVIOUS
<1>6. Len(h) = a + b /\ \A j \in 1..(a + b) : h[j] = IF j <= a THEN handled[j] ELSE ids[j - a]
  BY <1>2, <1>3, <1>4, <1>5, ConcatProperties
<1>7. ASSUME NEW j \in 1..(a + b), NEW k \in 1..(a + b), j < k, Socket(h[j]) = Socket(h[k])
      PROVE  h[j] < h[k]
  <2>1. CASE k <= a
    <3>1. j \in 1..a /\ k \in 1..a
      BY <1>7, <2>1
    <3>. QED  BY <1>1, <1>3, <1>6, <1>7, <2>1, <3>1 DEF Inv, HandledInOrder
  <2>2. CASE j > a
    <3>1. j - a \in 1..b /\ k - a \in 1..b /\ j - a < k - a
      BY <1>7, <2>2
    <3>2. h[j] = ids[j - a] /\ h[k] = ids[k - a]
      BY <1>6, <1>7, <2>2
    <3>. QED  BY <1>2, <1>4, <3>1, <3>2 DEF Increasing
  <2>3. CASE j <= a /\ k > a
    <3>1. j \in 1..a /\ k - a \in 1..b
      BY <1>7, <2>3
    <3>2. h[j] = handled[j] /\ h[k] = ids[k - a]
      BY <1>6, <2>3
    <3>3. h[j] \in Range(handled) /\ h[k] \in Range(ids)
      BY <1>2, <1>3, <1>4, <3>1, <3>2, InRange
    <3>. QED  BY <1>1, <1>7, <3>3, NewlyHandled
  <2>. QED  BY <2>1, <2>2, <2>3
<1>. QED  BY <1>1, <1>5, <1>6, <1>7 DEF HandledInOrder, Socket

(* Of what a chunk completes, that is run of which the chunk has the       *)
(* header; the one of which it has not was cut.                            *)
LEMMA ReceiveKeepsWhole ==
  ASSUME NEW s, NEW n, NEW chunk, NEW ids, NEW st, Receipt(s, n, chunk, ids, st)
  PROVE  HandledIsWhole'
<1>1. /\ Inv /\ s \in Sockets /\ Arrives(s, n, chunk, ids, st) /\ Marks(s, n, chunk)
      /\ UNCHANGED <<requests, listeners, previous, answers, connected, closes>>
  BY DEF Receipt
<1>2. PICK q : q = toServer[s]
  OBVIOUS
<1>3. /\ q \in UnitSeq(3) /\ Orderly(q, 3) /\ n \in 1..Len(q) /\ n \in Nat
      /\ chunk \in UnitSeq(3) /\ Len(chunk) = n /\ Sorted(chunk, n) /\ Begun(chunk, n)
      /\ \A j \in 1..n : chunk[j] = q[j] /\ j \in 1..Len(q)
  BY <1>1, <1>2, BehindChunk DEF Inv, RequestStreams, RequestUnits, Arrives
<1>4. \A j \in 1..Len(q) : /\ Socket(q[j][1]) = s
                           /\ \A k \in Range(handled) \cup log.whole : Socket(k) = s => k < q[j][1]
  BY <1>1, <1>2 DEF Inv, RequestStreams
<1>5. PICK cut \in SUBSET Ids :
        /\ log'.cut = log.cut \cup cut
        /\ \A i \in cut : n < Len(q) /\ q[n][2] < 3 /\ i = q[n][1]
        /\ n < Len(q) /\ q[n][2] < 3 => q[n][1] \in cut
  BY <1>1, <1>2 DEF Marks
<1>6. /\ Range(handled') = Range(handled) \cup Range(ids)
      /\ log'.whole = log.whole \cup {i \in Ids : <<i, 3>> \in Range(chunk)}
      /\ Range(ids) \subseteq Full(chunk, 3)
  <2>1. Range(handled') = Range(handled) \cup Range(ids)
    BY <1>1, NewlyHandled
  <2>2. log'.whole = log.whole \cup {i \in Ids : <<i, 3>> \in Range(chunk)}
    BY <1>1 DEF Marks
  <2>3. Range(ids) \subseteq Full(chunk, 3)
    BY <1>1 DEF Arrives
  <2>. QED  BY <2>1, <2>2, <2>3
<1>7. \A i \in Ids : <<i, 3>> \in Range(chunk) => \E k \in 1..n : q[k] = <<i, 3>>
  <2>. SUFFICES ASSUME NEW i \in Ids, <<i, 3>> \in Range(chunk) PROVE \E k \in 1..n : q[k] = <<i, 3>>
    OBVIOUS
  <2>1. chunk \in Seq(Ids \X (1..3)) /\ n = Len(chunk)
    BY <1>3 DEF UnitSeq
  <2>2. PICK k \in 1..n : chunk[k] = <<i, 3>>
    BY <2>1, InRange
  <2>. QED  BY <1>3, <2>2
<1>8. ASSUME NEW i \in Ids, <<i, 3>> \in Range(chunk)
      PROVE  i \notin cut
  <2>1. PICK k \in 1..n : q[k] = <<i, 3>>
    BY <1>7, <1>8
  <2>. SUFFICES ASSUME q[n][1] = i, q[n][2] < 3
                PROVE  FALSE
    BY <1>5
  <2>2. k # n /\ k < n /\ k \in 1..Len(q)
    BY <1>3, <2>1
  <2>3. i < i \/ q[n][2] - 3 = n - k
    BY <1>3, <2>1, <2>2 DEF Orderly
  <2>4. q[n][2] \in 1..3 /\ i \in Int
    BY <1>3, UnitsIn DEF Ids
  <2>. QED  BY <1>3, <2>2, <2>3, <2>4
<1>9. ASSUME NEW x \in DOMAIN requests, Socket(x) \notin log'.torn
      PROVE  x \in Range(handled') <=> x \in log'.whole /\ x \notin log'.cut
  <2>1. x \in Range(handled) <=> x \in log.whole /\ x \notin log.cut
    BY <1>1, <1>9 DEF Inv, HandledIsWhole, Marks
  <2>2. x \in Ids
    BY <1>1, Numbers
  <2>3. CASE Socket(x) # s
    <3>1. \A j \in 1..Len(q) : q[j][1] # x
      BY <1>4, <2>3
    <3>2. x \notin cut
      BY <1>3, <1>5, <3>1
    <3>3. <<x, 3>> \notin Range(chunk)
      <4>. SUFFICES ASSUME <<x, 3>> \in Range(chunk) PROVE FALSE
        OBVIOUS
      <4>1. PICK k \in 1..n : q[k] = <<x, 3>>
        BY <1>7, <2>2
      <4>2. k \in 1..Len(q) /\ q[k][1] = x
        BY <1>3, <4>1
      <4>. QED  BY <3>1, <4>2
    <3>. QED  BY <1>5, <1>6, <2>1, <3>2, <3>3 DEF Full
  <2>4. CASE Socket(x) = s
    <3>1. s \notin log'.torn /\ s \notin log.torn
      BY <1>1, <1>9, <2>4 DEF Marks
    <3>2. IdsOf(chunk) \cap OfKind("wide") = {}
      BY <1>1, <3>1 DEF Marks
    <3>3. 1 \in 1..n /\ q # <<>> /\ chunk[1] = q[1]
      BY <1>3, EmptySeq DEF UnitSeq
    <3>4. q[1][2] = 1 \/ (q[1][2] = 2 /\ q[1][1] \in log.cut)
      BY <1>1, <1>2, <3>1, <3>3 DEF Inv, CutsAreKnown
    <3>5. ids = RequestsIn(chunk)
      BY <1>1 DEF Arrives
    <3>6. Range(ids) = Full(chunk, 3)
      <4>1. chunk[1][2] # 3 /\ Len(chunk) > 0
        BY <1>3, <3>3, <3>4
      <4>. QED  BY <1>3, <3>2, <3>5, <4>1, RequestsAre
    <3>7. CASE <<x, 3>> \notin Range(chunk)
      <4>1. x \in Range(handled') <=> x \in Range(handled)
        BY <1>6, <3>7 DEF Full
      <4>2. x \in log'.whole <=> x \in log.whole
        BY <1>6, <3>7
      <4>3. x \in log.whole => x \notin cut
        <5>1. x \in log.whole => x < q[n][1]
          BY <1>3, <1>4, <2>4
        <5>. QED  BY <1>5, <2>2, <5>1 DEF Ids
      <4>. QED  BY <1>5, <2>1, <4>1, <4>2, <4>3
    <3>8. CASE <<x, 3>> \in Range(chunk)
      <4>1. PICK k \in 1..n : q[k] = <<x, 3>> /\ chunk[k] = <<x, 3>> /\ k \in 1..Len(q)
        BY <1>3, <1>7, <2>2, <3>8
      <4>2. x \notin Range(handled) /\ x \notin cut
        <5>1. x \in Range(handled) => x < q[k][1]
          BY <1>4, <2>4, <4>1
        <5>. QED  BY <1>8, <2>2, <3>8, <4>1, <5>1 DEF Ids
      <4>3. x \in log'.whole /\ (x \in log'.cut <=> x \in log.cut)
        BY <1>5, <1>6, <2>2, <3>8, <4>2
      <4>4. x \in Range(handled') <=> <<x, 1>> \in Range(chunk)
        BY <1>6, <2>2, <3>6, <3>8, <4>2 DEF Full
      <4>5. <<x, 1>> \in Range(chunk) => x \notin log.cut
        <5>. SUFFICES ASSUME <<x, 1>> \in Range(chunk) PROVE x \notin log.cut
          OBVIOUS
        <5>1. PICK j \in 1..n : chunk[j] = <<x, 1>>
          BY <1>3, InRange DEF UnitSeq
        <5>2. j \in 1..Len(q) /\ q[j][2] = 1 /\ q[j][1] = x
          BY <1>3, <5>1
        <5>. QED  BY <1>1, <1>2, <5>2 DEF Inv, CutsAreKnown
      <4>6. <<x, 1>> \notin Range(chunk) => x \in log.cut
        <5>1. chunk[k][1] = x
          BY <4>1
        <5>2. <<x, 1>> \notin Range(chunk) => chunk[1][1] = x /\ chunk[1][2] > 1
          BY <1>3, <5>1, FirstIsInChunk
        <5>. QED  BY <3>3, <3>4, <5>2
      <4>. QED  BY <4>3, <4>4, <4>5, <4>6
    <3>. QED  BY <3>7, <3>8
  <2>. QED  BY <2>3, <2>4
<1>. QED  BY <1>1, <1>9 DEF HandledIsWhole, Socket

LEMMA ReceiveKeepsNames ==
  ASSUME NEW s, NEW n, NEW chunk, NEW ids, NEW st, Receipt(s, n, chunk, ids, st)
  PROVE  NamesAreLast'
<1>1. /\ Inv /\ s \in Sockets /\ Arrives(s, n, chunk, ids, st) /\ Marks(s, n, chunk)
      /\ UNCHANGED <<requests, listeners, previous, answers, connected, closes>>
  BY DEF Receipt
<1>2. Range(handled') = Range(handled) \cup Earlier(ids, Len(ids))
  BY <1>1, NewlyHandled
<1>3. clients' = NamesAfter(Range(handled'))
  BY <1>1, <1>2 DEF Arrives, Ran
<1>4. log'.since = log.since
  BY <1>1 DEF Marks
<1>5. PICK H : H = Range(handled')
  OBVIOUS
<1>6. clients' = [x \in connected |-> LastName(x, H)]
  BY <1>3, <1>5 DEF NamesAfter
<1>7. NamesAreLast' <=> clients' = [x \in connected' |-> LastName(x, H)']
  BY <1>5 DEF NamesAreLast, LastName, OfKind
<1>8. \A x : LastName(x, H)' = LastName(x, H)
  BY <1>1, <1>4 DEF LastName, OfKind
<1>. QED  BY <1>1, <1>6, <1>7, <1>8

LEMMA OnlyOne ==
  ASSUME NEW ids \in Seq(Ids), Increasing(ids), NEW i, Range(ids) = {i}
  PROVE  Len(ids) = 1 /\ ids[1] = i
<1>1. PICK l \in Nat : l = Len(ids)
  BY LenProperties
<1>2. \A x : x \in Range(ids) <=> \E j \in 1..l : ids[j] = x
  BY <1>1, InRange
<1>3. \A j \in 1..l : ids[j] = i
  BY <1>2
<1>4. PICK j \in 1..l : ids[j] = i
  BY <1>2
<1>5. i \in Ids /\ Ids \subseteq Int
  <2>1. j \in 1..Len(ids)
    BY <1>1
  <2>2. ids[j] \in Ids
    BY <2>1, ElementOfSeq
  <2>. QED  BY <1>4, <2>2 DEF Ids
<1>6. l < 2
  <2>. SUFFICES ASSUME ~(l < 2) PROVE FALSE
    OBVIOUS
  <2>1. 1 \in 1..l /\ 2 \in 1..l /\ 1 < 2
    BY <1>1
  <2>2. ids[1] < ids[2]
    BY <1>1, <2>1 DEF Increasing
  <2>. QED  BY <1>3, <1>5, <2>1, <2>2
<1>. QED  BY <1>1, <1>3, <1>4, <1>6

(* The ids of all units of one request or reply.                           *)
LEMMA FullUnits ==
  ASSUME NEW n \in {2, 3}, NEW i \in Ids, NEW chunk, chunk = Units(i, n)
  PROVE  Full(chunk, n) = {i} /\ IdsOf(chunk) = {i}
<1>1. chunk \in UnitSeq(n) /\ Len(chunk) = n /\ \A j \in 1..n : chunk[j] = <<i, j>>
  BY UnitsAreOrderly
<1>2. \A x : x \in Range(chunk) <=> \E j \in 1..n : chunk[j] = x
  BY <1>1, InRange DEF UnitSeq
<1>3. Full(chunk, n) = {i}
  <2>1. <<i, 1>> \in Range(chunk) /\ <<i, n>> \in Range(chunk)
    BY <1>1, <1>2
  <2>2. \A x : <<x, 1>> \in Range(chunk) => x = i
    BY <1>1, <1>2
  <2>. QED  BY <2>1, <2>2 DEF Full
<1>4. IdsOf(chunk) = {i}
  <2>1. \A x : x \in IdsOf(chunk) <=> \E j \in 1..n : chunk[j][1] = x
    BY <1>1, InIds
  <2>2. \A j \in 1..n : chunk[j][1] = i
    BY <1>1
  <2>3. 1 \in 1..n
    OBVIOUS
  <2>. QED  BY <2>1, <2>2, <2>3
<1>. QED  BY <1>3, <1>4

LEMMA WholeUnits ==
  ASSUME NEW n \in {2, 3}, NEW i \in Ids, NEW q, q = Units(i, n)
  PROVE  SubSeq(q, 1, n) = q /\ After(q, n) = <<>> /\ Len(q) = n /\ n \in Nat
<1>1. q \in UnitSeq(n) /\ Len(q) = n /\ n \in 0..Len(q)
  BY UnitsAreOrderly
<1>2. PICK c : c = SubSeq(q, 1, n)
  OBVIOUS
<1>3. c \in UnitSeq(n) /\ Len(c) = n /\ \A j \in 1..n : c[j] = q[j]
  BY <1>1, <1>2, PartsOf
<1>4. c = q
  BY <1>1, <1>3, SeqEqual DEF UnitSeq
<1>5. After(q, n) = <<>>
  <2>1. PICK a : a = After(q, n)
    OBVIOUS
  <2>2. a \in UnitSeq(n) /\ Len(a) = n - n
    BY <1>1, <2>1, PartsOf
  <2>. QED  BY <2>1, <2>2, EmptySeq DEF UnitSeq
<1>. QED  BY <1>1, <1>2, <1>4, <1>5

LEMMA ReceiveKeepsLone ==
  ASSUME NEW s, NEW n, NEW chunk, NEW ids, NEW st, Receipt(s, n, chunk, ids, st)
  PROVE  LoneOnes'
<1>1. /\ Inv /\ s \in Sockets /\ Arrives(s, n, chunk, ids, st) /\ Marks(s, n, chunk)
      /\ UNCHANGED <<requests, listeners, previous, answers, connected, closes>>
  BY DEF Receipt
<1>2. /\ \A i : i \in log'.lone => i \in log.lone
      /\ log'.lone \subseteq log.lone
  BY <1>1 DEF Marks
<1>3. ASSUME NEW i \in log'.lone, i \notin OfKind("wide")
      PROVE  \/ /\ toServer'[Socket(i)] = Units(i, RequestUnits) /\ toClient'[Socket(i)] = <<>>
                /\ i \in listeners[Socket(i)] /\ answers[i] = None /\ i \notin Range(handled')
             \/ /\ toServer'[Socket(i)] = <<>> /\ toClient'[Socket(i)] = Units(i, ReplyUnits)
                /\ i \in listeners[Socket(i)] /\ answers[i] = None /\ i \in Range(handled')
             \/ i \in Range(handled') /\ answers[i] = replies'[i]
  <2>1. PICK x : x = Socket(i)
    OBVIOUS
  <2>2. OnItsWay(i, x) \/ OnItsWayBack(i, x) \/ IsBack(i)
    BY <1>1, <1>2, <1>3, <2>1 DEF Inv, LoneOnes
  <2>3. i \in DOMAIN requests /\ i \in Ids /\ x \in Sockets
    <3>1. i \in DOMAIN requests
      BY <1>1, <1>2 DEF Inv, Bounded
    <3>. QED  BY <1>1, <2>1, <3>1, Numbers DEF Socket
  <2>4. Range(handled') = Range(handled) \cup Range(ids) /\ \A k \in Range(ids) : Socket(k) = s
    BY <1>1, NewlyHandled
  <2>5. CASE IsBack(i)
    <3>1. i \in Range(handled) /\ answers[i] = replies[i]
      BY <2>5 DEF IsBack
    <3>2. i \notin Range(ids)
      BY <1>1, <3>1, NewlyHandled
    <3>3. replies'[i] = replies[i]
      BY <1>1, <2>3, <3>2, NewlyHandled
    <3>. QED  BY <2>4, <3>1, <3>3
  <2>6. CASE x # s /\ (OnItsWay(i, x) \/ OnItsWayBack(i, x))
    <3>1. toServer'[x] = toServer[x] /\ toClient'[x] = toClient[x]
      <4>1. \A y \in Sockets \ {s} : toServer'[y] = toServer[y]
        BY BehindChunk
      <4>2. \A y \in Sockets \ {s} : toClient'[y] = toClient[y]
        BY RepliesWritten
      <4>. QED  BY <2>3, <2>6, <4>1, <4>2
    <3>2. i \in Range(handled') <=> i \in Range(handled)
      BY <2>1, <2>4, <2>6
    <3>. QED  BY <2>1, <2>6, <3>1, <3>2 DEF OnItsWay, OnItsWayBack
  <2>7. CASE x = s /\ OnItsWayBack(i, x)
    <3>1. toServer[s] = <<>> /\ n \in 1..Len(toServer[s])
      BY <1>1, <2>7 DEF OnItsWayBack, Arrives
    <3>2. FALSE
      BY <3>1
    <3>. QED  BY <3>2
  <2>8. CASE x = s /\ OnItsWay(i, x)
    <3>1. PICK q : q = toServer[s]
      OBVIOUS
    <3>2. q = Units(i, 3) /\ toClient[s] = <<>>
      BY <2>8, <3>1 DEF OnItsWay, RequestUnits
    <3>3. Len(q) = 3 /\ \A j \in 1..3 : q[j] = <<i, j>>
      BY <2>3, <3>2, UnitsAreOrderly
    <3>4. n \in 1..3
      BY <1>1, <3>1, <3>3 DEF Arrives
    <3>5. n = 3
      <4>. SUFFICES ASSUME n # 3 PROVE FALSE
        OBVIOUS
      <4>1. n < Len(q) /\ q[n][2] < 3 /\ q[n][1] = i
        BY <3>3, <3>4
      <4>2. i \notin log'.lone
        BY <1>1, <3>1, <4>1 DEF Marks
      <4>. QED  BY <1>3, <4>2
    <3>6. chunk = q /\ After(q, 3) = <<>>
      BY <1>1, <2>3, <3>1, <3>2, <3>5, WholeUnits DEF Arrives
    <3>7. Full(chunk, 3) = {i} /\ IdsOf(chunk) = {i}
      BY <2>3, <3>2, <3>6, FullUnits
    <3>8. /\ ids = RequestsIn(chunk) /\ chunk \in UnitSeq(3) /\ Sorted(chunk, n) /\ Len(chunk) = n
      BY <1>1 DEF Arrives
    <3>9. chunk[1][2] # 3 /\ Len(chunk) > 0 /\ IdsOf(chunk) \cap OfKind("wide") = {}
      BY <1>3, <3>3, <3>5, <3>6, <3>7
    <3>10. Range(ids) = {i} /\ ids \in Seq(Ids) /\ Increasing(ids)
      BY <3>7, <3>8, <3>9, RequestsAre
    <3>11. Len(ids) = 1 /\ ids[1] = i
      BY <3>10, OnlyOne
    <3>12. st.units = Units(i, ReplyUnits)
      BY <1>1, <3>11 DEF Arrives, Ran
    <3>13. toClient'[s] = Units(i, ReplyUnits)
      <4>1. toClient'[s] = <<>> \o st.units /\ st.units \in UnitSeq(2)
        <5>1. toClient'[s] = toClient[s] \o st.units
          <6>1. toClient' = [toClient EXCEPT ![s] = @ \o st.units] /\ DOMAIN toClient = Sockets
            BY <1>1 DEF Arrives, Inv, TypeOK
          <6>. QED  BY <1>1, <6>1
        <5>2. st.units \in UnitSeq(2)
          BY RepliesWritten
        <5>. QED  BY <3>2, <5>1, <5>2
      <4>. QED  BY <3>12, <4>1, ConcatEmptySeq DEF UnitSeq
    <3>14. toServer'[s] = <<>>
      <4>1. toServer' = [toServer EXCEPT ![s] = After(@, n)] /\ DOMAIN toServer = Sockets
        BY <1>1 DEF Arrives, Inv, TypeOK
      <4>. QED  BY <1>1, <3>1, <3>5, <3>6, <4>1
    <3>15. i \in Range(handled')
      BY <2>4, <3>10
    <3>. QED  BY <2>1, <2>8, <3>13, <3>14, <3>15 DEF OnItsWay
  <2>. QED  BY <2>2, <2>5, <2>6, <2>7, <2>8
<1>4. OfKind("wide")' = OfKind("wide")
  BY <1>1 DEF OfKind
<1>. QED  BY <1>1, <1>3, <1>4 DEF LoneOnes, OnItsWay, OnItsWayBack, IsBack, Socket

LEMMA ReceiveKeeps ==
  ASSUME Inv, NEW s \in Sockets, NEW n, Receive(s, n)
  PROVE  Inv'
<1>1. PICK chunk, ids, st : Receipt(s, n, chunk, ids, st)
  BY ReceiptOf
<1>. QED  BY <1>1, ReceiveKeepsTypes, ReceiveKeepsRequests, ReceiveKeepsReplies, ReceiveKeepsCuts,
             ReceiveKeepsOrder, ReceiveKeepsWhole, ReceiveKeepsNames, ReceiveKeepsLone DEF Inv

(***************************************************************************)
(* The other actions keep it, too.                                         *)
(***************************************************************************)
LEMMA FirstOfReply ==
  ASSUME Inv, NEW i \in DOMAIN requests, i \notin OfKind("wide"), NEW q, q = Units(i, 2)
  PROVE  FirstOf(q) = replies[i]
<1>1. i \in Ids
  BY Numbers
<1>2. q \in UnitSeq(2) /\ Len(q) = 2 /\ Orderly(q, 2) /\ \A j \in 1..2 : q[j] = <<i, j>>
  BY <1>1, UnitsAreOrderly
<1>3. Sorted(q, Len(q))
  BY <1>2, OrderlyParts
<1>4. PICK ids : ids = Complete(q, 2, {})
  OBVIOUS
<1>5. ids \in Seq(Ids) /\ Increasing(ids) /\ Range(ids) = Full(q, 2)
  <2>1. IdsOf(q) \cap {} = {}
    OBVIOUS
  <2>. QED  BY <1>2, <1>3, <1>4, <2>1, CompleteIs
<1>6. Full(q, 2) = {i}
  BY <1>1, FullUnits
<1>7. Len(ids) = 1 /\ ids[1] = i
  BY <1>5, <1>6, OnlyOne
<1>8. q[1][2] # 2 /\ ids # <<>>
  <2>1. q[1] = <<i, 1>>
    BY <1>2
  <2>2. Len(<<>>) = 0
    OBVIOUS
  <2>. QED  BY <1>7, <2>1, <2>2
<1>9. FirstOf(q) = Received(i)
  BY <1>4, <1>7, <1>8 DEF FirstOf, ReplyUnits
<1>10. requests[i].kind # "wide"
  BY DEF OfKind
<1>. QED  BY <1>9, <1>10 DEF Received

LEMMA DeliverKeeps ==
  ASSUME Inv, NEW s \in Sockets, NEW n, Deliver(s, n)
  PROVE  Inv'
<1>1. PICK q : q = toClient[s]
  OBVIOUS
<1>2. PICK first : first = FirstOf(SubSeq(q, 1, n))
  OBVIOUS
<1>3. PICK cut : cut = IF q[n][2] < ReplyUnits THEN {q[n][1]} ELSE {}
  OBVIOUS
<1>4. /\ n \in 1..Len(q)
      /\ answers' = [i \in Ids |-> IF i \in listeners[s] /\ answers[i] = None THEN first ELSE answers[i]]
      /\ toClient' = [toClient EXCEPT ![s] = After(q, n)]
      /\ log' = [log EXCEPT !.lone = @ \ cut]
      /\ UNCHANGED <<requests, toServer, listeners, previous, connected, clients, handled, replies, closes>>
  BY <1>1, <1>2, <1>3 DEF Deliver
<1>5. toClient \in [Sockets -> UnitSeq(2)] /\ log \in Log
  BY DEF Inv, TypeOK, UnitSeq, ReplyUnits
<1>6. /\ log' \in Log /\ log'.lone = log.lone \ cut /\ log'.whole = log.whole /\ log'.cut = log.cut
      /\ log'.torn = log.torn /\ log'.since = log.since
  BY <1>4, <1>5 DEF Log
<1>7. q \in UnitSeq(2) /\ Orderly(q, 2) /\ n \in 0..Len(q) /\ n \in Nat
  BY <1>1, <1>4, <1>5 DEF Inv, ReplyStreams, ReplyUnits
<1>8. PICK p : p = After(q, n)
  OBVIOUS
<1>9. p \in UnitSeq(2) /\ Orderly(p, 2) /\ \A j \in 1..Len(p) : \E k \in 1..Len(q) : p[j] = q[k]
  <2>1. PICK l \in Nat : l = Len(q)
    BY <1>7, LenProperties DEF UnitSeq
  <2>2. p \in UnitSeq(2) /\ Len(p) = l - n /\ \A j \in 1..(l - n) : p[j] = q[n + j]
    <3>1. /\ After(q, n) \in UnitSeq(2) /\ Len(After(q, n)) = Len(q) - n
          /\ \A j \in 1..(Len(q) - n) : After(q, n)[j] = q[n + j]
      BY <1>7, PartsOf
    <3>. QED  BY <1>8, <2>1, <3>1
  <2>3. \A j \in 1..(l - n) : n + j \in 1..l
    BY <1>7, <2>1
  <2>. QED  BY <1>7, <1>8, <2>1, <2>2, <2>3, AfterIsOrderly
<1>10. toClient' \in [Sockets -> UnitSeq(2)] /\ \A x \in Sockets : toClient'[x] = IF x = s THEN p ELSE toClient[x]
  BY <1>4, <1>5, <1>8, <1>9
<1>11. TypeOK'
  <2>1. \A i \in Ids : answers'[i] # None => i \in DOMAIN requests
    BY <1>4 DEF Inv, TypeOK
  <2>2. toClient' \in [Sockets -> Seq(Ids \X (1..ReplyUnits))]
    BY <1>10 DEF UnitSeq, ReplyUnits
  <2>. QED  BY <1>4, <1>6, <2>1, <2>2 DEF Inv, TypeOK
<1>12. Bounded'
  <2>1. (log.lone \cup log.whole \cup log.cut)' \subseteq DOMAIN requests
    BY <1>6 DEF Inv, Bounded
  <2>. QED  BY <1>4, <1>6, <2>1 DEF Inv, Bounded
<1>13. RequestStreams'
  BY <1>4, <1>6 DEF Inv, RequestStreams, Socket
<1>14. ReplyStreams'
  <2>1. ASSUME NEW x \in Sockets
        PROVE  /\ Orderly(toClient'[x], 2)
               /\ \A j \in 1..Len(toClient'[x]) :
                    /\ x \in connected /\ toClient'[x][j][1] \in Range(handled)
                    /\ Socket(toClient'[x][j][1]) = x
    <3>1. /\ Orderly(toClient[x], 2)
          /\ \A j \in 1..Len(toClient[x]) :
               /\ x \in connected /\ toClient[x][j][1] \in Range(handled) /\ Socket(toClient[x][j][1]) = x
      BY DEF Inv, ReplyStreams, ReplyUnits
    <3>2. CASE x = s
      <4>1. toClient'[x] = p /\ toClient[x] = q
        BY <1>1, <1>10, <3>2
      <4>2. \A j \in 1..Len(p) : \E k \in 1..Len(q) : p[j] = q[k]
        BY <1>9
      <4>. QED  BY <1>9, <3>1, <4>1, <4>2
    <3>3. CASE x # s
      BY <1>10, <3>1, <3>3
    <3>. QED  BY <3>2, <3>3
  <2>. QED  BY <1>4, <2>1 DEF ReplyStreams, ReplyUnits, Socket
<1>15. CutsAreKnown' /\ HandledInOrder' /\ HandledIsWhole' /\ ListenersAreOwn'
  BY <1>4, <1>6 DEF Inv, CutsAreKnown, HandledInOrder, HandledIsWhole, ListenersAreOwn, Socket
<1>16. NamesAreLast'
  BY <1>4, <1>6 DEF Inv, NamesAreLast, LastName, OfKind
<1>17. ASSUME NEW i \in log'.lone, i \notin OfKind("wide")
       PROVE  \/ /\ toServer[Socket(i)] = Units(i, RequestUnits) /\ toClient'[Socket(i)] = <<>>
                 /\ i \in listeners[Socket(i)] /\ answers'[i] = None /\ i \notin Range(handled)
              \/ /\ toServer[Socket(i)] = <<>> /\ toClient'[Socket(i)] = Units(i, ReplyUnits)
                 /\ i \in listeners[Socket(i)] /\ answers'[i] = None /\ i \in Range(handled)
              \/ i \in Range(handled) /\ answers'[i] = replies[i]
  <2>1. PICK x : x = Socket(i)
    OBVIOUS
  <2>2. i \in log.lone /\ (OnItsWay(i, x) \/ OnItsWayBack(i, x) \/ IsBack(i))
    BY <1>6, <1>17, <2>1 DEF Inv, LoneOnes
  <2>3. i \in DOMAIN requests /\ i \in Ids /\ x \in Sockets
    <3>1. i \in DOMAIN requests
      BY <2>2 DEF Inv, Bounded
    <3>. QED  BY <2>1, <3>1, Numbers DEF Socket
  <2>4. CASE IsBack(i)
    <3>1. i \in Range(handled) /\ answers[i] = replies[i] /\ replies[i] # None
      BY <2>4 DEF IsBack, Inv, Bounded
    <3>. QED  BY <1>4, <2>3, <3>1
  <2>5. CASE x # s /\ (OnItsWay(i, x) \/ OnItsWayBack(i, x))
    <3>1. toClient'[x] = toClient[x]
      BY <1>10, <2>3, <2>5
    <3>2. i \notin listeners[s]
      BY <2>1, <2>5 DEF Inv, ListenersAreOwn
    <3>3. answers'[i] = answers[i]
      BY <1>4, <2>3, <3>2
    <3>. QED  BY <2>1, <2>5, <3>1, <3>3 DEF OnItsWay, OnItsWayBack
  <2>6. CASE x = s /\ OnItsWay(i, x)
    <3>1. q = <<>> /\ n \in 1..Len(q)
      BY <1>1, <1>4, <2>6 DEF OnItsWay
    <3>2. FALSE
      BY <3>1
    <3>. QED  BY <3>2
  <2>7. CASE x = s /\ OnItsWayBack(i, x)
    <3>1. q = Units(i, 2) /\ i \in listeners[s] /\ answers[i] = None /\ i \in Range(handled)
      BY <1>1, <2>7 DEF OnItsWayBack, ReplyUnits
    <3>2. Len(q) = 2 /\ \A j \in 1..2 : q[j] = <<i, j>>
      BY <2>3, <3>1, UnitsAreOrderly
    <3>3. n = 2
      <4>. SUFFICES ASSUME n # 2 PROVE FALSE
        OBVIOUS
      <4>1. q[n][2] < 2 /\ q[n][1] = i
        BY <1>4, <3>2
      <4>2. i \notin log'.lone
        BY <1>3, <1>6, <4>1 DEF ReplyUnits
      <4>. QED  BY <1>17, <4>2
    <3>4. first = FirstOf(q)
      BY <1>2, <2>3, <3>1, <3>3, WholeUnits
    <3>5. first = replies[i]
      BY <1>17, <2>3, <3>1, <3>4, FirstOfReply
    <3>6. answers'[i] = first
      BY <1>4, <2>3, <3>1
    <3>. QED  BY <3>1, <3>5, <3>6
  <2>. QED  BY <2>2, <2>4, <2>5, <2>6, <2>7
<1>18. LoneOnes'
  <2>1. OfKind("wide")' = OfKind("wide")
    BY <1>4 DEF OfKind
  <2>. QED  BY <1>4, <1>17, <2>1 DEF LoneOnes, OnItsWay, OnItsWayBack, IsBack, Socket
<1>. QED  BY <1>11, <1>12, <1>13, <1>14, <1>15, <1>16, <1>18 DEF Inv

LEMMA CloseKeeps ==
  ASSUME Inv, NEW s \in Sockets, Close(s)
  PROVE  Inv'
<1>1. PICK open : open = Unanswered(s)
  OBVIOUS
<1>2. /\ s \in connected /\ closes < MaxCloses /\ closes' = closes + 1
      /\ connected' = connected \ {s} /\ clients' = Without(clients, s)
      /\ toServer' = [toServer EXCEPT ![s] = <<>>] /\ toClient' = [toClient EXCEPT ![s] = <<>>]
      /\ log' = [log EXCEPT !.lone = @ \ open, !.cut = @ \cup (open \ log.whole)]
      /\ UNCHANGED <<requests, listeners, previous, answers, handled, replies>>
  BY <1>1 DEF Close
<1>3. /\ toServer \in [Sockets -> UnitSeq(3)] /\ toClient \in [Sockets -> UnitSeq(2)] /\ log \in Log
      /\ clients \in [connected -> Names \cup {None}]
  BY DEF Inv, TypeOK, UnitSeq, RequestUnits, ReplyUnits
<1>4. open \in SUBSET Ids /\ open \subseteq DOMAIN requests
      /\ \A i \in open : Socket(i) = s /\ answers[i] = None
  BY <1>1, Numbers DEF Unanswered, Socket
<1>5. /\ log' \in Log /\ log'.lone = log.lone \ open /\ log'.whole = log.whole
      /\ log'.cut = log.cut \cup (open \ log.whole)
      /\ log'.torn = log.torn /\ log'.since = log.since
  BY <1>2, <1>3, <1>4 DEF Log
<1>6. /\ toServer' \in [Sockets -> UnitSeq(3)] /\ toClient' \in [Sockets -> UnitSeq(2)]
      /\ \A x \in Sockets : x # s => toServer'[x] = toServer[x] /\ toClient'[x] = toClient[x]
      /\ toServer'[s] = <<>> /\ toClient'[s] = <<>>
  <2>1. <<>> \in UnitSeq(3) /\ <<>> \in UnitSeq(2)
    BY DEF UnitSeq
  <2>. QED  BY <1>2, <1>3, <2>1
<1>7. TypeOK'
  <2>1. clients' \in [connected' -> Names \cup {None}]
    BY <1>2, <1>3 DEF Without
  <2>2. closes' \in 0..MaxCloses
    <3>1. closes \in 0..MaxCloses /\ closes' = closes + 1 /\ closes < MaxCloses
      BY <1>2 DEF Inv, TypeOK
    <3>. QED  BY <3>1, BoundsAssumption
  <2>3. /\ toServer' \in [Sockets -> Seq(Ids \X (1..RequestUnits))]
        /\ toClient' \in [Sockets -> Seq(Ids \X (1..ReplyUnits))]
    BY <1>6 DEF UnitSeq, RequestUnits, ReplyUnits
  <2>. QED  BY <1>2, <1>5, <2>1, <2>2, <2>3 DEF Inv, TypeOK
<1>8. Bounded'
  <2>1. (log.lone \cup log.whole \cup log.cut)' \subseteq DOMAIN requests
    BY <1>4, <1>5 DEF Inv, Bounded
  <2>. QED  BY <1>2, <1>5, <2>1 DEF Inv, Bounded
<1>9. \A n \in {2, 3} : Orderly(<<>>, n)
  BY DEF Orderly
<1>10. \A j : j \notin 1..Len(<<>>)
  OBVIOUS
<1>11. RequestStreams'
  <2>1. ASSUME NEW x \in Sockets
        PROVE  /\ Orderly(toServer'[x], 3)
               /\ \A j \in 1..Len(toServer'[x]) :
                    /\ x \in connected' /\ toServer'[x][j][1] \in DOMAIN requests
                    /\ Socket(toServer'[x][j][1]) = x /\ toServer'[x][j][1] > log.since[x]
                    /\ \A k \in Range(handled) \cup log.whole : Socket(k) = x => k < toServer'[x][j][1]
    <3>1. CASE x = s
      BY <1>6, <1>9, <1>10, <3>1
    <3>2. CASE x # s
      <4>1. /\ Orderly(toServer[x], 3)
            /\ \A j \in 1..Len(toServer[x]) :
                 /\ x \in connected /\ toServer[x][j][1] \in DOMAIN requests
                 /\ Socket(toServer[x][j][1]) = x /\ toServer[x][j][1] > log.since[x]
                 /\ \A k \in Range(handled) \cup log.whole : Socket(k) = x => k < toServer[x][j][1]
        BY DEF Inv, RequestStreams, RequestUnits
      <4>. QED  BY <1>2, <1>6, <3>2, <4>1
    <3>. QED  BY <3>1, <3>2
  <2>. QED  BY <1>2, <1>5, <2>1 DEF RequestStreams, RequestUnits, Socket
<1>12. ReplyStreams'
  <2>1. ASSUME NEW x \in Sockets
        PROVE  /\ Orderly(toClient'[x], 2)
               /\ \A j \in 1..Len(toClient'[x]) :
                    /\ x \in connected' /\ toClient'[x][j][1] \in Range(handled)
                    /\ Socket(toClient'[x][j][1]) = x
    <3>1. CASE x = s
      BY <1>6, <1>9, <1>10, <3>1
    <3>2. CASE x # s
      <4>1. /\ Orderly(toClient[x], 2)
            /\ \A j \in 1..Len(toClient[x]) :
                 /\ x \in connected /\ toClient[x][j][1] \in Range(handled) /\ Socket(toClient[x][j][1]) = x
        BY DEF Inv, ReplyStreams, ReplyUnits
      <4>. QED  BY <1>2, <1>6, <3>2, <4>1
    <3>. QED  BY <3>1, <3>2
  <2>. QED  BY <1>2, <2>1 DEF ReplyStreams, ReplyUnits, Socket
<1>13. CutsAreKnown'
  <2>1. ASSUME NEW x \in Sockets, NEW j \in 1..Len(toServer'[x]), toServer'[x][j][2] = 1
        PROVE  toServer'[x][j][1] \notin log'.cut
    <3>1. x # s
      BY <1>6, <1>10, <2>1
    <3>2. toServer[x][j][1] \notin log.cut /\ Socket(toServer[x][j][1]) = x /\ toServer'[x] = toServer[x]
      BY <1>6, <2>1, <3>1 DEF Inv, CutsAreKnown, RequestStreams
    <3>3. toServer[x][j][1] \notin open
      BY <1>4, <3>1, <3>2
    <3>. QED  BY <1>5, <3>2, <3>3
  <2>2. ASSUME NEW x \in Sockets, x \notin log'.torn, toServer'[x] # <<>>
        PROVE  \/ toServer'[x][1][2] = 1
               \/ toServer'[x][1][2] = 2 /\ toServer'[x][1][1] \in log'.cut
    <3>1. toServer'[x] = toServer[x] /\ x \notin log.torn
      BY <1>5, <1>6, <2>2
    <3>. QED  BY <1>5, <2>2, <3>1 DEF Inv, CutsAreKnown
  <2>. QED  BY <2>1, <2>2 DEF CutsAreKnown
<1>14. HandledInOrder'
  BY <1>2 DEF Inv, HandledInOrder, Socket
<1>15. HandledIsWhole'
  BY <1>2, <1>5 DEF Inv, HandledIsWhole, Socket
<1>16. NamesAreLast'
  <2>1. clients = [x \in connected |-> LastName(x, Range(handled))]
    BY DEF Inv, NamesAreLast
  <2>2. clients' = [x \in connected \ {s} |-> LastName(x, Range(handled))]
    BY <1>2, <2>1 DEF Without
  <2>3. PICK H : H = Range(handled)
    OBVIOUS
  <2>4. \A x : LastName(x, H)' = LastName(x, H)
    BY <1>2, <1>5 DEF LastName, OfKind
  <2>5. NamesAreLast' <=> clients' = [x \in connected' |-> LastName(x, H)']
    BY <1>2, <2>3 DEF NamesAreLast, LastName, OfKind
  <2>. QED  BY <1>2, <2>2, <2>3, <2>4, <2>5
<1>17. ListenersAreOwn'
  BY <1>2 DEF Inv, ListenersAreOwn, Socket
<1>18. ASSUME NEW i \in log'.lone, i \notin OfKind("wide")
       PROVE  \/ /\ toServer'[Socket(i)] = Units(i, RequestUnits) /\ toClient'[Socket(i)] = <<>>
                 /\ i \in listeners[Socket(i)] /\ answers[i] = None /\ i \notin Range(handled)
              \/ /\ toServer'[Socket(i)] = <<>> /\ toClient'[Socket(i)] = Units(i, ReplyUnits)
                 /\ i \in listeners[Socket(i)] /\ answers[i] = None /\ i \in Range(handled)
              \/ i \in Range(handled) /\ answers[i] = replies[i]
  <2>1. PICK x : x = Socket(i)
    OBVIOUS
  <2>2. i \in log.lone /\ i \notin open /\ (OnItsWay(i, x) \/ OnItsWayBack(i, x) \/ IsBack(i))
    BY <1>5, <1>18, <2>1 DEF Inv, LoneOnes
  <2>3. i \in DOMAIN requests /\ x \in Sockets
    <3>1. i \in DOMAIN requests
      BY <2>2 DEF Inv, Bounded
    <3>. QED  BY <2>1, <3>1, Numbers DEF Socket
  <2>4. CASE IsBack(i)
    BY <2>4 DEF IsBack
  <2>5. CASE OnItsWay(i, x) \/ OnItsWayBack(i, x)
    <3>1. answers[i] = None
      BY <2>5 DEF OnItsWay, OnItsWayBack
    <3>2. x # s
      BY <1>1, <2>1, <2>2, <2>3, <3>1 DEF Unanswered, Socket
    <3>3. toServer'[x] = toServer[x] /\ toClient'[x] = toClient[x]
      BY <1>6, <2>3, <3>2
    <3>. QED  BY <2>1, <2>5, <3>3 DEF OnItsWay, OnItsWayBack
  <2>. QED  BY <2>2, <2>4, <2>5
<1>19. LoneOnes'
  <2>1. OfKind("wide")' = OfKind("wide")
    BY <1>2 DEF OfKind
  <2>. QED  BY <1>2, <1>18, <2>1 DEF LoneOnes, OnItsWay, OnItsWayBack, IsBack, Socket
<1>. QED  BY <1>7, <1>8, <1>11, <1>12, <1>13, <1>14, <1>15, <1>16, <1>17, <1>19 DEF Inv

LEMMA Largest ==
  ASSUME NEW n \in Nat, NEW S \in SUBSET (1..n), S # {}
  PROVE  \E j \in S : \A k \in S : k <= j
<1>1. PICK R : R = {ss \in Nat \X Nat : ss[1] < ss[2]}
  OBVIOUS
<1>2. IsWellFoundedOn(R, Nat)
  BY <1>1, NatLessThanWellFounded, Zenon DEF OpToRel
<1>3. PICK D : D = {n - j : j \in S}
  OBVIOUS
<1>4. D \in SUBSET Nat /\ D # {}
  <2>1. \A j \in S : n - j \in Nat /\ n - j \in D
    BY <1>3
  <2>2. PICK j : j \in S
    OBVIOUS
  <2>3. n - j \in D
    BY <2>1, <2>2
  <2>. QED  BY <1>3, <2>1, <2>3
<1>5. PICK u \in D : \A v \in D : ~(<<v, u>> \in R)
  BY <1>2, <1>4, WFMin, Zenon
<1>6. PICK j \in S : u = n - j
  BY <1>3
<1>7. ASSUME NEW k \in S
      PROVE  k <= j
  <2>1. n - k \in D /\ n - k \in Nat /\ u \in Nat
    BY <1>3, <1>4
  <2>2. ~(n - k < u)
    BY <1>1, <1>5, <2>1
  <2>. QED  BY <1>6, <2>2
<1>. QED  BY <1>7

(* What a name is taken from is a request.                                 *)
LEMMA NameIsOfRequest ==
  ASSUME Inv, NEW sets, sets \subseteq DOMAIN requests, sets # {}
  PROVE  (CHOOSE j \in sets : \A k \in sets : k <= j) \in DOMAIN requests
<1>1. PICK n \in Nat : DOMAIN requests = 1..n
  BY Numbers
<1>2. \E j \in sets : \A k \in sets : k <= j
  BY <1>1, Largest
<1>3. (CHOOSE j \in sets : \A k \in sets : k <= j) \in sets
  BY <1>2, Zenon
<1>. QED  BY <1>3

(* A request is sent; what it changes.                                     *)
Sends(s, id, R, open) ==
  /\ id \in Ids /\ id = Len(requests) + 1 /\ id \notin DOMAIN requests
  /\ \A i \in DOMAIN requests : i < id
  /\ R = requests' /\ R \in Seq([socket : Sockets, kind : Kinds, name : Names])
  /\ Len(R) = id /\ DOMAIN R = DOMAIN requests \cup {id}
  /\ \A i \in DOMAIN requests : R[i] = requests[i]
  /\ R[id].socket = s
  /\ open = Unanswered(s)
  /\ log' \in Log
  /\ log'.lone = (log.lone \ open) \cup IF Quiet(s) THEN {id} ELSE {}
  /\ log'.whole = log.whole /\ log'.cut = log.cut /\ log'.torn = log.torn
  /\ \A x \in Sockets :
       log'.since[x] = IF x = s /\ s \notin connected THEN Len(requests) ELSE log.since[x]
  /\ toServer' = [toServer EXCEPT ![s] = @ \o Units(id, RequestUnits)]
  /\ connected' = connected \cup {s}
  /\ clients' = IF s \in connected THEN clients
                ELSE [x \in DOMAIN clients \cup {s} |-> IF x = s THEN None ELSE clients[x]]
  /\ listeners' = [listeners EXCEPT ![s] = (@ \ {previous}) \cup {id}]
  /\ previous' = id
  /\ UNCHANGED <<toClient, answers, handled, replies, closes>>

LEMMA SendDoes ==
  ASSUME Inv, NEW s \in Sockets, NEW kind \in Kinds, NEW name \in Names, Send(s, kind, name)
  PROVE  \E id, R, open : Sends(s, id, R, open)
<1>1. PICK m \in Nat : m = Len(requests)
  <2>1. Len(requests) \in Nat
    BY Numbers
  <2>. QED  BY <2>1
<1>2. PICK id : id = m + 1
  OBVIOUS
<1>3. PICK open : open = Unanswered(s)
  OBVIOUS
<1>4. PICK r : r = [socket |-> s, kind |-> kind, name |-> name]
  OBVIOUS
<1>5. PICK R : R = Append(requests, r)
  OBVIOUS
<1>6. /\ id <= MaxRequests /\ requests' = R /\ Listen(s, id)
      /\ toServer' = [toServer EXCEPT ![s] = @ \o Units(id, RequestUnits)]
      /\ connected' = connected \cup {s}
      /\ clients' = (IF s \in connected THEN clients
                     ELSE [x \in DOMAIN clients \cup {s} |-> IF x = s THEN None ELSE clients[x]])
      /\ log' = [log EXCEPT !.lone = (@ \ open) \cup IF Quiet(s) THEN {id} ELSE {},
                            !.since[s] = IF s \in connected THEN @ ELSE m]
      /\ UNCHANGED <<toClient, answers, handled, replies, closes>>
  BY <1>1, <1>2, <1>3, <1>4, <1>5, Zenon DEF Send
<1>7. id \in Ids /\ m \in 0..MaxRequests
  BY <1>2, <1>6, BoundsAssumption DEF Ids
<1>8. DOMAIN requests = 1..m /\ requests \in Seq([socket : Sockets, kind : Kinds, name : Names])
  BY <1>1, Numbers DEF Inv, TypeOK
<1>9. r \in [socket : Sockets, kind : Kinds, name : Names]
  BY <1>4
<1>10. /\ R \in Seq([socket : Sockets, kind : Kinds, name : Names]) /\ Len(R) = id
       /\ \A i \in 1..m : R[i] = requests[i]
       /\ R[id] = r
  BY <1>1, <1>2, <1>5, <1>8, <1>9, AppendProperties
<1>11. DOMAIN R = 1..m \cup {id} /\ id \notin 1..m /\ \A i \in 1..m : i < id
  <2>1. DOMAIN R = 1..id
    BY <1>10, LenProperties
  <2>. QED  BY <1>2, <2>1
<1>12. log \in Log
  BY DEF Inv, TypeOK
<1>13. PICK lone : lone = (log.lone \ open) \cup IF Quiet(s) THEN {id} ELSE {}
  OBVIOUS
<1>14. lone \in SUBSET Ids
  BY <1>7, <1>12, <1>13 DEF Log
<1>15. PICK f : f = [log.since EXCEPT ![s] = IF s \in connected THEN @ ELSE m]
  OBVIOUS
<1>16. f \in [Sockets -> 0..MaxRequests]
       /\ \A x \in Sockets : f[x] = IF x = s /\ s \notin connected THEN m ELSE log.since[x]
  BY <1>7, <1>12, <1>15 DEF Log
<1>17. log' = [log EXCEPT !.lone = lone, !.since = f]
  BY <1>6, <1>13, <1>15, <1>12 DEF Log
<1>18. /\ log' \in Log /\ log'.lone = lone /\ log'.whole = log.whole /\ log'.cut = log.cut
       /\ log'.torn = log.torn /\ log'.since = f
  BY <1>12, <1>14, <1>16, <1>17 DEF Log
<1>19. R[id].socket = s
  BY <1>4, <1>10
<1>20. /\ listeners' = [listeners EXCEPT ![s] = (@ \ {previous}) \cup {id}]
       /\ previous' = id
  BY <1>6 DEF Listen
<1>21. Sends(s, id, R, open)
  BY <1>1, <1>2, <1>3, <1>6, <1>7, <1>8, <1>10, <1>11, <1>13, <1>16, <1>18, <1>19, <1>20 DEF Sends
<1>. QED  BY <1>21

(* The stream to the server, with the units that were written.             *)
LEMMA SentUnits ==
  ASSUME Inv, NEW s \in Sockets, NEW id, NEW R, NEW open, Sends(s, id, R, open)
  PROVE  /\ toServer' \in [Sockets -> UnitSeq(3)]
         /\ \A x \in Sockets : x # s => toServer'[x] = toServer[x]
         /\ toServer'[s] = toServer[s] \o Units(id, 3)
         /\ Orderly(toServer'[s], 3)
         /\ \A j \in 1..Len(toServer'[s]) :
              \/ j \in 1..Len(toServer[s]) /\ toServer'[s][j] = toServer[s][j]
              \/ toServer'[s][j][1] = id
         /\ toServer[s] = <<>> => toServer'[s] = Units(id, 3) /\ toServer'[s][1] = <<id, 1>>
         /\ toServer[s] # <<>> => toServer'[s][1] = toServer[s][1]
<1>1. PICK p : p = toServer[s]
  OBVIOUS
<1>2. PICK u : u = Units(id, 3)
  OBVIOUS
<1>3. PICK q : q = p \o u
  OBVIOUS
<1>4. id \in Ids /\ \A i \in DOMAIN requests : i < id
  BY DEF Sends
<1>5. u \in UnitSeq(3) /\ Len(u) = 3 /\ (\A j \in 1..3 : u[j] = <<id, j>>) /\ Orderly(u, 3)
  BY <1>2, <1>4, UnitsAreOrderly
<1>6. toServer \in [Sockets -> UnitSeq(3)]
  BY DEF Inv, TypeOK, UnitSeq, RequestUnits
<1>7. p \in UnitSeq(3) /\ Orderly(p, 3) /\ \A j \in 1..Len(p) : p[j][1] \in DOMAIN requests
  BY <1>1, <1>6 DEF Inv, RequestStreams, RequestUnits
<1>8. q \in UnitSeq(3) /\ Orderly(q, 3)
  <2>1. \A j \in 1..Len(p), k \in 1..Len(u) : p[j][1] < u[k][1]
    BY <1>4, <1>5, <1>7
  <2>2. Len(u) > 0 => u[1][2] = 1
    BY <1>5
  <2>. QED  BY <1>3, <1>5, <1>7, <2>1, <2>2, JoinIsOrderly
<1>9. toServer' = [toServer EXCEPT ![s] = q]
  BY <1>1, <1>2, <1>3 DEF Sends, RequestUnits
<1>10. toServer' \in [Sockets -> UnitSeq(3)] /\ toServer'[s] = q
       /\ \A x \in Sockets : x # s => toServer'[x] = toServer[x]
  BY <1>6, <1>8, <1>9
<1>11. PICK a \in Nat : a = Len(p)
  <2>1. Len(p) \in Nat
    BY <1>7, LenProperties DEF UnitSeq
  <2>. QED  BY <2>1
<1>12. Len(q) = a + 3 /\ \A j \in 1..(a + 3) : q[j] = IF j <= a THEN p[j] ELSE u[j - a]
  <2>1. PICK S : S = Ids \X (1..3)
    OBVIOUS
  <2>2. p \in Seq(S) /\ u \in Seq(S)
    BY <1>5, <1>7, <2>1 DEF UnitSeq
  <2>3. /\ Len(q) = Len(p) + Len(u)
        /\ \A j \in 1..(Len(p) + Len(u)) : q[j] = IF j <= Len(p) THEN p[j] ELSE u[j - Len(p)]
    BY <1>3, <2>2
  <2>4. Len(p) = a /\ Len(u) = 3
    BY <1>5, <1>11
  <2>. QED  BY <2>3, <2>4
<1>13. ASSUME NEW j \in 1..Len(q)
       PROVE  (j \in 1..Len(p) /\ q[j] = p[j]) \/ q[j][1] = id
  <2>1. CASE j <= a
    BY <1>11, <1>12, <2>1
  <2>2. CASE ~(j <= a)
    <3>1. j - a \in 1..3 /\ q[j] = u[j - a]
      BY <1>12, <2>2
    <3>. QED  BY <1>5, <3>1
  <2>. QED  BY <2>1, <2>2
<1>14. p = <<>> => q = u /\ q[1] = <<id, 1>>
  BY <1>3, <1>5, ConcatEmptySeq DEF UnitSeq
<1>15. p # <<>> => q[1] = p[1]
  <2>. SUFFICES ASSUME p # <<>> PROVE q[1] = p[1]
    OBVIOUS
  <2>1. a # 0
    BY <1>7, <1>11, EmptySeq DEF UnitSeq
  <2>2. 1 \in 1..(a + 3) /\ 1 <= a
    BY <2>1
  <2>. QED  BY <1>12, <2>2
<1>. QED  BY <1>1, <1>2, <1>3, <1>8, <1>10, <1>13, <1>14, <1>15

LEMMA SendKeepsTypes ==
  ASSUME Inv, NEW s \in Sockets, NEW id, NEW R, NEW open, Sends(s, id, R, open)
  PROVE  TypeOK' /\ Bounded' /\ open \subseteq DOMAIN requests
<1>1. open \subseteq DOMAIN requests
  BY DEF Sends, Unanswered
<1>2. toServer' \in [Sockets -> Seq(Ids \X (1..RequestUnits))]
  BY SentUnits DEF UnitSeq, RequestUnits
<1>3. listeners \in [Sockets -> SUBSET DOMAIN requests]
  BY DEF Inv, TypeOK
<1>4. listeners' \in [Sockets -> SUBSET DOMAIN requests']
  BY <1>3 DEF Sends
<1>5. clients' \in [connected' -> Names \cup {None}] /\ connected' \subseteq Sockets
  <2>1. clients \in [connected -> Names \cup {None}] /\ connected \subseteq Sockets
    BY DEF Inv, TypeOK
  <2>2. CASE s \in connected
    BY <2>1, <2>2 DEF Sends
  <2>3. CASE s \notin connected
    BY <2>1, <2>3 DEF Sends
  <2>. QED  BY <2>2, <2>3
<1>6. DOMAIN requests \subseteq DOMAIN requests' /\ previous' \in DOMAIN requests'
  BY DEF Sends
<1>7. handled' \in Seq(DOMAIN requests')
  BY <1>6, Numbers, SeqMonotonic DEF Sends
<1>8. \A i \in Ids : answers'[i] # None => i \in DOMAIN requests'
  BY <1>6 DEF Sends, Inv, TypeOK
<1>9. TypeOK'
  BY <1>2, <1>4, <1>5, <1>6, <1>7, <1>8 DEF Sends, Inv, TypeOK
<1>10. Bounded'
  <2>1. Len(requests') <= MaxRequests
    BY BoundsAssumption DEF Sends, Ids
  <2>2. (log.lone \cup log.whole \cup log.cut)' \subseteq DOMAIN requests'
    BY <1>6 DEF Sends, Inv, Bounded
  <2>3. ASSUME NEW x \in Sockets
        PROVE  log'.since[x] <= Len(requests')
    <3>1. PICK m \in Nat : m = Len(requests)
      <4>1. Len(requests) \in Nat
        BY Numbers
      <4>. QED  BY <4>1
    <3>2. Len(requests') = m + 1
      BY <3>1 DEF Sends
    <3>3. log.since[x] <= m /\ log.since[x] \in Int
      BY <3>1 DEF Inv, Bounded, TypeOK, Log
    <3>4. log'.since[x] \in {m, log.since[x]}
      BY <3>1 DEF Sends
    <3>. QED  BY <3>2, <3>3, <3>4
  <2>4. replies' = [i \in Ids |-> replies'[i]] /\ \A i \in Range(handled') : replies'[i] # None
    BY DEF Sends, Inv, Bounded
  <2>. QED  BY <2>1, <2>2, <2>3, <2>4 DEF Bounded
<1>. QED  BY <1>1, <1>9, <1>10

LEMMA SendKeepsRequests ==
  ASSUME Inv, NEW s \in Sockets, NEW id, NEW R, NEW open, Sends(s, id, R, open)
  PROVE  RequestStreams' /\ CutsAreKnown'
<1>1. PICK seen : seen = Range(handled) \cup log.whole
  OBVIOUS
<1>2. seen \subseteq DOMAIN requests /\ log.cut \subseteq DOMAIN requests
  BY <1>1, Numbers DEF Inv, Bounded
<1>3. ASSUME NEW x \in Sockets, NEW j \in 1..Len(toServer[x])
      PROVE  /\ toServer[x][j][1] \in DOMAIN requests /\ x \in connected
             /\ R[toServer[x][j][1]].socket = x /\ toServer[x][j][1] > log'.since[x]
             /\ \A k \in seen : R[k].socket = x => k < toServer[x][j][1]
  <2>1. PICK i : i = toServer[x][j][1]
    OBVIOUS
  <2>2. /\ x \in connected /\ i \in DOMAIN requests /\ requests[i].socket = x /\ i > log.since[x]
        /\ \A k \in seen : requests[k].socket = x => k < i
    BY <1>1, <2>1 DEF Inv, RequestStreams, Socket
  <2>3. log'.since[x] = log.since[x]
    BY <2>2 DEF Sends
  <2>4. \A k \in DOMAIN requests : R[k] = requests[k]
    BY DEF Sends
  <2>. QED  BY <1>2, <2>1, <2>2, <2>3, <2>4
<1>4. /\ \A k \in seen : k < id
      /\ id \in DOMAIN R /\ R[id].socket = s /\ log'.since[s] < id
      /\ DOMAIN requests \subseteq DOMAIN R /\ s \in connected' /\ connected \subseteq connected'
      /\ id \notin log.cut
  <2>1. /\ \A k \in seen : k < id
        /\ id \in DOMAIN R /\ R[id].socket = s /\ id \notin log.cut
        /\ DOMAIN requests \subseteq DOMAIN R /\ s \in connected' /\ connected \subseteq connected'
    BY <1>2 DEF Sends
  <2>2. log'.since[s] < id
    <3>1. PICK m \in Nat : m = Len(requests)
      <4>1. Len(requests) \in Nat
        BY Numbers
      <4>. QED  BY <4>1
    <3>2. id = m + 1
      BY <3>1 DEF Sends
    <3>3. log.since[s] <= m /\ log.since[s] \in Int
      BY <3>1 DEF Inv, Bounded, TypeOK, Log
    <3>4. log'.since[s] \in {m, log.since[s]}
      BY <3>1 DEF Sends
    <3>. QED  BY <3>2, <3>3, <3>4
  <2>. QED  BY <2>1, <2>2
<1>5. ASSUME NEW x \in Sockets
      PROVE  /\ Orderly(toServer'[x], 3)
             /\ \A j \in 1..Len(toServer'[x]) :
                  /\ x \in connected' /\ toServer'[x][j][1] \in DOMAIN R
                  /\ R[toServer'[x][j][1]].socket = x /\ toServer'[x][j][1] > log'.since[x]
                  /\ \A k \in seen : R[k].socket = x => k < toServer'[x][j][1]
  <2>1. CASE x = s
    <3>1. Orderly(toServer'[s], 3)
      BY SentUnits
    <3>2. ASSUME NEW j \in 1..Len(toServer'[s])
          PROVE  /\ s \in connected' /\ toServer'[s][j][1] \in DOMAIN R
                 /\ R[toServer'[s][j][1]].socket = s /\ toServer'[s][j][1] > log'.since[s]
                 /\ \A k \in seen : R[k].socket = s => k < toServer'[s][j][1]
      <4>1. PICK e : e = toServer'[s][j]
        OBVIOUS
      <4>2. \/ j \in 1..Len(toServer[s]) /\ e = toServer[s][j]
            \/ e[1] = id
        BY <4>1, SentUnits
      <4>3. CASE j \in 1..Len(toServer[s]) /\ e = toServer[s][j]
        BY <1>3, <1>4, <4>1, <4>3
      <4>4. CASE e[1] = id
        <5>1. id > log'.since[s]
          <6>1. log'.since[s] \in Int /\ id \in Int
            BY DEF Sends, Log, Ids
          <6>. QED  BY <1>4, <6>1
        <5>. QED  BY <1>4, <4>1, <4>4, <5>1
      <4>. QED  BY <4>2, <4>3, <4>4
    <3>. QED  BY <2>1, <3>1, <3>2
  <2>2. CASE x # s
    <3>1. toServer'[x] = toServer[x] /\ Orderly(toServer[x], 3)
      BY <2>2, SentUnits DEF Inv, RequestStreams, RequestUnits
    <3>. QED  BY <1>3, <1>4, <3>1
  <2>. QED  BY <2>1, <2>2
<1>6. RequestStreams'
  <2>1. R = requests' /\ handled' = handled /\ log'.whole = log.whole
    BY DEF Sends
  <2>. QED  BY <1>1, <1>5, <2>1 DEF RequestStreams, RequestUnits, Socket
<1>7. ASSUME NEW x \in Sockets, NEW j \in 1..Len(toServer'[x]), toServer'[x][j][2] = 1
      PROVE  toServer'[x][j][1] \notin log.cut
  <2>1. CASE \E k \in 1..Len(toServer[x]) : toServer'[x][j] = toServer[x][k]
    BY <1>7, <2>1 DEF Inv, CutsAreKnown
  <2>2. CASE toServer'[x][j][1] = id
    BY <1>4, <2>2
  <2>. QED  BY <2>1, <2>2, SentUnits
<1>8. ASSUME NEW x \in Sockets, x \notin log.torn, toServer'[x] # <<>>
      PROVE  \/ toServer'[x][1][2] = 1
             \/ toServer'[x][1][2] = 2 /\ toServer'[x][1][1] \in log.cut
  <2>1. CASE toServer[x] # <<>>
    <3>1. toServer'[x][1] = toServer[x][1]
      BY <2>1, SentUnits
    <3>. QED  BY <1>8, <2>1, <3>1 DEF Inv, CutsAreKnown
  <2>2. CASE toServer[x] = <<>>
    <3>1. x = s
      BY <1>8, <2>2, SentUnits
    <3>. QED  BY <2>2, <3>1, SentUnits
  <2>. QED  BY <2>1, <2>2
<1>9. CutsAreKnown'
  <2>1. log'.cut = log.cut /\ log'.torn = log.torn
    BY DEF Sends
  <2>. QED  BY <1>7, <1>8, <2>1 DEF CutsAreKnown
<1>. QED  BY <1>6, <1>9

LEMMA SendKeepsOrder ==
  ASSUME Inv, NEW s \in Sockets, NEW id, NEW R, NEW open, Sends(s, id, R, open)
  PROVE  ReplyStreams' /\ HandledInOrder' /\ HandledIsWhole' /\ ListenersAreOwn'
<1>1. /\ R = requests' /\ \A i \in DOMAIN requests : R[i] = requests[i]
      /\ DOMAIN R = DOMAIN requests \cup {id} /\ id \notin DOMAIN requests /\ R[id].socket = s
      /\ handled' = handled /\ toClient' = toClient /\ connected' = connected \cup {s}
      /\ log'.torn = log.torn /\ log'.whole = log.whole /\ log'.cut = log.cut
      /\ listeners' = [listeners EXCEPT ![s] = (@ \ {previous}) \cup {id}]
  BY DEF Sends
<1>2. Range(handled) \subseteq DOMAIN requests /\ log.whole \subseteq DOMAIN requests
  BY Numbers DEF Inv, Bounded
<1>3. ReplyStreams'
  <2>1. ASSUME NEW x \in Sockets
        PROVE  /\ Orderly(toClient[x], 2)
               /\ \A j \in 1..Len(toClient[x]) :
                    /\ x \in connected' /\ toClient[x][j][1] \in Range(handled)
                    /\ R[toClient[x][j][1]].socket = x
    <3>1. /\ Orderly(toClient[x], 2)
          /\ \A j \in 1..Len(toClient[x]) :
               /\ x \in connected /\ toClient[x][j][1] \in Range(handled)
               /\ requests[toClient[x][j][1]].socket = x
      BY DEF Inv, ReplyStreams, ReplyUnits, Socket
    <3>. QED  BY <1>1, <1>2, <3>1
  <2>. QED  BY <1>1, <2>1 DEF ReplyStreams, ReplyUnits, Socket
<1>4. HandledInOrder'
  <2>1. \A m \in 1..Len(handled) : handled[m] \in DOMAIN requests
    BY Numbers, ElementOfSeq
  <2>2. \A m, n \in 1..Len(handled) :
          m < n /\ R[handled[m]].socket = R[handled[n]].socket => handled[m] < handled[n]
    BY <1>1, <2>1 DEF Inv, HandledInOrder, Socket
  <2>. QED  BY <1>1, <2>2 DEF HandledInOrder, Socket
<1>5. HandledIsWhole'
  <2>1. \A i \in DOMAIN requests : R[i].socket \notin log.torn =>
          (i \in Range(handled) <=> i \in log.whole /\ i \notin log.cut)
    BY <1>1 DEF Inv, HandledIsWhole, Socket
  <2>2. id \notin Range(handled) /\ id \notin log.whole
    BY <1>1, <1>2
  <2>3. \A i \in DOMAIN R : R[i].socket \notin log.torn =>
          (i \in Range(handled) <=> i \in log.whole /\ i \notin log.cut)
    BY <1>1, <2>1, <2>2
  <2>. QED  BY <1>1, <2>3 DEF HandledIsWhole, Socket
<1>6. ListenersAreOwn'
  <2>1. listeners \in [Sockets -> SUBSET DOMAIN requests]
    BY DEF Inv, TypeOK
  <2>2. ASSUME NEW x \in Sockets, NEW i \in listeners'[x]
        PROVE  R[i].socket = x
    <3>1. i \in listeners[x] \/ (i = id /\ x = s)
      BY <1>1, <2>1, <2>2
    <3>2. CASE i \in listeners[x]
      <4>1. i \in DOMAIN requests /\ requests[i].socket = x
        BY <2>1, <3>2 DEF Inv, ListenersAreOwn, Socket
      <4>. QED  BY <1>1, <4>1
    <3>3. CASE i = id /\ x = s
      BY <1>1, <3>3
    <3>. QED  BY <3>1, <3>2, <3>3
  <2>. QED  BY <1>1, <2>2 DEF ListenersAreOwn, Socket
<1>. QED  BY <1>3, <1>4, <1>5, <1>6

LEMMA SendKeepsNames ==
  ASSUME Inv, NEW s \in Sockets, NEW id, NEW R, NEW open, Sends(s, id, R, open)
  PROVE  NamesAreLast'
<1>1. PICK H : H = Range(handled)
  OBVIOUS
<1>2. H \subseteq DOMAIN requests
  BY <1>1, Numbers
<1>3. /\ R = requests' /\ \A i \in DOMAIN requests : R[i] = requests[i]
      /\ DOMAIN R = DOMAIN requests \cup {id} /\ id \notin DOMAIN requests
      /\ handled' = handled /\ connected' = connected \cup {s}
  BY DEF Sends
<1>4. clients = [x \in connected |-> LastName(x, H)] /\ connected \subseteq Sockets
  BY <1>1 DEF Inv, NamesAreLast, TypeOK
<1>5. PICK later : later = [x \in connected \cup {s} |->
        {j \in H : R[j].kind = "setname" /\ R[j].socket = x /\ j > log'.since[x]}]
  OBVIOUS
<1>6. ASSUME NEW x \in connected
      PROVE  later[x] = SetsOf(x, H)
  <2>1. log'.since[x] = log.since[x]
    BY <1>4 DEF Sends
  <2>2. \A j \in H : j \in DOMAIN requests /\ R[j] = requests[j]
    BY <1>2, <1>3
  <2>. QED  BY <1>5, <2>1, <2>2 DEF SetsOf, OfKind, Socket
<1>7. ASSUME s \notin connected
      PROVE  later[s] = {}
  <2>1. \A j \in H : j \in 1..Len(requests) /\ Len(requests) \in Nat
    BY <1>2, Numbers
  <2>2. log'.since[s] = Len(requests)
    BY <1>7 DEF Sends
  <2>. QED  BY <1>5, <2>1, <2>2
<1>8. ASSUME NEW x \in connected \cup {s}
      PROVE  LastName(x, H)' =
               IF later[x] = {} THEN None ELSE R[CHOOSE j \in later[x] : \A k \in later[x] : k <= j].name
  <2>1. later[x] = {j \in H \cap {i \in DOMAIN R : R[i].kind = "setname"} :
                      R[j].socket = x /\ j > log'.since[x]}
    BY <1>2, <1>3, <1>5
  <2>2. H' = H
    BY <1>1, <1>3
  <2>. QED  BY <1>3, <2>1, <2>2 DEF LastName, OfKind
<1>9. ASSUME NEW x \in connected \cup {s}
      PROVE  clients'[x] = LastName(x, H)'
  <2>1. CASE x \in connected
    <3>1. clients'[x] = clients[x] /\ clients[x] = LastName(x, H)
      <4>1. x = s => s \in connected
        BY <2>1
      <4>. QED  BY <1>4, <2>1, <4>1 DEF Sends
    <3>2. LastName(x, H) = NameOfLast(later[x])
      BY <1>6, <2>1, LastNameOf
    <3>3. CASE later[x] = {}
      BY <1>8, <3>1, <3>2, <3>3 DEF NameOfLast
    <3>4. CASE later[x] # {}
      <4>1. later[x] \subseteq DOMAIN requests
        BY <1>2, <1>5
      <4>2. PICK i : i = CHOOSE j \in later[x] : \A k \in later[x] : k <= j
        OBVIOUS
      <4>3. i \in DOMAIN requests
        BY <3>4, <4>1, <4>2, NameIsOfRequest, Zenon
      <4>4. R[i] = requests[i]
        BY <1>3, <4>3
      <4>. QED  BY <1>8, <3>1, <3>2, <3>4, <4>2, <4>4 DEF NameOfLast
    <3>. QED  BY <3>3, <3>4
  <2>2. CASE x \notin connected
    <3>1. x = s /\ later[x] = {}
      BY <1>7, <2>2
    <3>2. clients'[s] = None
      BY <1>4, <2>2, <3>1 DEF Sends
    <3>. QED  BY <1>8, <3>1, <3>2
  <2>. QED  BY <2>1, <2>2
<1>10. clients' = [x \in connected \cup {s} |-> clients'[x]]
  <2>1. clients \in [connected -> Names \cup {None}]
    BY DEF Inv, TypeOK
  <2>2. CASE s \in connected
    <3>1. clients' = clients /\ connected \cup {s} = connected
      BY <2>2 DEF Sends
    <3>. QED  BY <2>1, <3>1
  <2>3. CASE s \notin connected
    <3>1. clients' = [x \in connected \cup {s} |-> IF x = s THEN None ELSE clients[x]]
      BY <2>1, <2>3 DEF Sends
    <3>. QED  BY <3>1
  <2>. QED  BY <2>2, <2>3
<1>11. NamesAreLast' <=> clients' = [x \in connected' |-> LastName(x, H)']
  BY <1>1, <1>3 DEF NamesAreLast, LastName, OfKind
<1>. QED  BY <1>3, <1>9, <1>10, <1>11

LEMMA SendKeepsLone ==
  ASSUME Inv, NEW s \in Sockets, NEW id, NEW R, NEW open, Sends(s, id, R, open)
  PROVE  LoneOnes'
<1>1. /\ R = requests' /\ \A i \in DOMAIN requests : R[i] = requests[i]
      /\ DOMAIN R = DOMAIN requests \cup {id} /\ id \notin DOMAIN requests /\ R[id].socket = s
      /\ id \in Ids /\ handled' = handled /\ toClient' = toClient /\ answers' = answers /\ replies' = replies
      /\ log'.lone = (log.lone \ open) \cup IF Quiet(s) THEN {id} ELSE {}
      /\ listeners' = [listeners EXCEPT ![s] = (@ \ {previous}) \cup {id}]
      /\ open = Unanswered(s)
  BY DEF Sends
<1>2. log.lone \subseteq DOMAIN requests /\ Range(handled) \subseteq DOMAIN requests
      /\ listeners \in [Sockets -> SUBSET DOMAIN requests]
  BY Numbers DEF Inv, Bounded, TypeOK
<1>3. ASSUME NEW i \in log'.lone, R[i].kind # "wide"
      PROVE  \/ /\ toServer'[R[i].socket] = Units(i, 3) /\ toClient[R[i].socket] = <<>>
                /\ i \in listeners'[R[i].socket] /\ answers[i] = None /\ i \notin Range(handled)
             \/ /\ toServer'[R[i].socket] = <<>> /\ toClient[R[i].socket] = Units(i, 2)
                /\ i \in listeners'[R[i].socket] /\ answers[i] = None /\ i \in Range(handled)
             \/ i \in Range(handled) /\ answers[i] = replies[i]
  <2>1. CASE i = id
    <3>1. toServer[s] = <<>> /\ toClient[s] = <<>>
      BY <1>1, <1>2, <1>3, <2>1 DEF Quiet
    <3>2. toServer'[s] = Units(id, 3)
      BY <3>1, SentUnits
    <3>3. id \in listeners'[s] /\ id \notin Range(handled)
      BY <1>1, <1>2
    <3>4. answers[id] = None
      BY <1>1 DEF Inv, TypeOK
    <3>. QED  BY <1>1, <2>1, <3>1, <3>2, <3>3, <3>4
  <2>2. CASE i # id
    <3>1. PICK x : x = R[i].socket
      OBVIOUS
    <3>2. i \in log.lone /\ i \notin open /\ i \in DOMAIN requests /\ R[i] = requests[i]
      BY <1>1, <1>2, <1>3, <2>2
    <3>3. i \notin OfKind("wide") /\ Socket(i) = x /\ x \in Sockets
      BY <1>3, <3>1, <3>2, Numbers DEF OfKind, Socket
    <3>4. OnItsWay(i, x) \/ OnItsWayBack(i, x) \/ IsBack(i)
      BY <3>2, <3>3 DEF Inv, LoneOnes
    <3>5. CASE IsBack(i)
      BY <3>5 DEF IsBack
    <3>6. CASE OnItsWay(i, x) \/ OnItsWayBack(i, x)
      <4>1. answers[i] = None
        BY <3>6 DEF OnItsWay, OnItsWayBack
      <4>2. x # s
        BY <1>1, <3>1, <3>2, <4>1 DEF Unanswered
      <4>3. toServer'[x] = toServer[x]
        BY <3>3, <4>2, SentUnits
      <4>4. listeners'[x] = listeners[x]
        BY <1>1, <1>2, <3>3, <4>2
      <4>. QED  BY <3>1, <3>6, <4>3, <4>4 DEF OnItsWay, OnItsWayBack, RequestUnits, ReplyUnits
    <3>. QED  BY <3>4, <3>5, <3>6
  <2>. QED  BY <2>1, <2>2
<1>4. \A i \in log'.lone : i \in DOMAIN R
  BY <1>1, <1>2
<1>. QED  BY <1>1, <1>3, <1>4 DEF LoneOnes, OnItsWay, OnItsWayBack, IsBack, Socket, OfKind,
             RequestUnits, ReplyUnits

LEMMA SendKeeps ==
  ASSUME Inv, NEW s \in Sockets, NEW kind \in Kinds, NEW name \in Names, Send(s, kind, name)
  PROVE  Inv'
<1>1. PICK id, R, open : Sends(s, id, R, open)
  BY SendDoes
<1>. QED  BY <1>1, SendKeepsTypes, SendKeepsRequests, SendKeepsOrder, SendKeepsNames, SendKeepsLone DEF Inv

LEMMA StartsWell ==
  ASSUME Init
  PROVE  Inv
<1>1. /\ requests = <<>> /\ handled = <<>> /\ clients = <<>> /\ connected = {} /\ previous = None /\ closes = 0
      /\ \A s \in Sockets : toServer[s] = <<>> /\ toClient[s] = <<>> /\ listeners[s] = {}
      /\ \A i \in Ids : answers[i] = None /\ replies[i] = None
  BY DEF Init
<1>2. log = [lone |-> {}, whole |-> {}, cut |-> {}, torn |-> {}, since |-> [s \in Sockets |-> 0]]
  BY DEF Init
<1>3. /\ log.lone = {} /\ log.whole = {} /\ log.cut = {} /\ log.torn = {}
      /\ \A s \in Sockets : log.since[s] = 0
  BY <1>2
<1>4. \A S : <<>> \in Seq(S)
  OBVIOUS
<1>5. DOMAIN <<>> = {} /\ Len(<<>>) = 0 /\ Range(<<>>) = {} /\ 1..0 = {}
  BY DEF Range
<1>6. \A n \in {2, 3} : Orderly(<<>>, n)
  BY DEF Orderly
<1>7. clients = [s \in connected |-> LastName(s, Range(handled))]
  <2>1. \A f : <<>> = [s \in {} |-> f[s]]
    BY <1>5
  <2>2. PICK f : f = [s \in {} |-> LastName(s, Range(handled))]
    OBVIOUS
  <2>3. f = [s \in {} |-> f[s]]
    BY <2>2
  <2>. QED  BY <1>1, <2>1, <2>2, <2>3
<1>8. TypeOK
  <2>1. log \in Log
    <3>1. [s \in Sockets |-> 0] \in [Sockets -> 0..MaxRequests]
      BY BoundsAssumption
    <3>. QED  BY <1>2, <3>1 DEF Log
  <2>2. clients \in [connected -> Names \cup {None}]
    BY <1>1, <1>7
  <2>3. toServer \in [Sockets -> Seq(Ids \X (1..RequestUnits))]
    BY <1>4 DEF Init
  <2>4. toClient \in [Sockets -> Seq(Ids \X (1..ReplyUnits))]
    BY <1>4 DEF Init
  <2>5. listeners \in [Sockets -> SUBSET DOMAIN requests]
    BY DEF Init
  <2>6. closes \in 0..MaxCloses
    BY <1>1, BoundsAssumption
  <2>. QED  BY <1>1, <1>4, <2>1, <2>2, <2>3, <2>4, <2>5, <2>6 DEF TypeOK
<1>9. Bounded
  BY <1>1, <1>3, <1>5, BoundsAssumption DEF Bounded, Init
<1>10. RequestStreams /\ ReplyStreams /\ CutsAreKnown
  BY <1>1, <1>3, <1>5, <1>6 DEF RequestStreams, ReplyStreams, CutsAreKnown, RequestUnits, ReplyUnits
<1>11. HandledInOrder /\ HandledIsWhole /\ ListenersAreOwn /\ LoneOnes
  BY <1>1, <1>3, <1>5 DEF HandledInOrder, HandledIsWhole, ListenersAreOwn, LoneOnes
<1>. QED  BY <1>7, <1>8, <1>9, <1>10, <1>11 DEF Inv, NamesAreLast

LEMMA StutterKeeps ==
  ASSUME Inv, UNCHANGED vars
  PROVE  Inv'
<1>1. /\ requests' = requests /\ toServer' = toServer /\ toClient' = toClient
      /\ listeners' = listeners /\ previous' = previous /\ answers' = answers
      /\ connected' = connected /\ clients' = clients /\ handled' = handled
      /\ replies' = replies /\ closes' = closes /\ log' = log
  BY DEF vars
<1>2. TypeOK' /\ Bounded'
  BY <1>1 DEF Inv, TypeOK, Bounded
<1>3. RequestStreams' /\ ReplyStreams' /\ CutsAreKnown'
  BY <1>1 DEF Inv, RequestStreams, ReplyStreams, CutsAreKnown, Socket
<1>4. HandledInOrder' /\ HandledIsWhole' /\ ListenersAreOwn'
  BY <1>1 DEF Inv, HandledInOrder, HandledIsWhole, ListenersAreOwn, Socket
<1>5. NamesAreLast'
  BY <1>1 DEF Inv, NamesAreLast, LastName, OfKind
<1>6. LoneOnes'
  BY <1>1 DEF Inv, LoneOnes, OnItsWay, OnItsWayBack, IsBack, Socket, OfKind
<1>. QED  BY <1>2, <1>3, <1>4, <1>5, <1>6 DEF Inv

(***************************************************************************)
(* The theorems.                                                           *)
(***************************************************************************)
(* However TCP cuts the streams, and whichever connections are closed and  *)
(* made again, a stream holds requests in order and with nothing missing   *)
(* behind its head, what has run is what arrived uncut, the register holds *)
(* the names that were set last, and a lone request is on its way, or its  *)
(* reply is, or it has its reply.                                          *)
THEOREM ConnectionInvariance == Spec => []Inv
<1>1. Init => Inv
  BY StartsWell
<1>2. Inv /\ [Next]_vars => Inv'
  <2>. SUFFICES ASSUME Inv, [Next]_vars PROVE Inv'
    OBVIOUS
  <2>1. ASSUME NEW s \in Sockets, NEW kind \in Kinds, NEW name \in Names, Send(s, kind, name)
        PROVE  Inv'
    BY <2>1, SendKeeps
  <2>2. ASSUME NEW s \in Sockets, NEW n, Receive(s, n)
        PROVE  Inv'
    BY <2>2, ReceiveKeeps
  <2>3. ASSUME NEW s \in Sockets, NEW n, Deliver(s, n)
        PROVE  Inv'
    BY <2>3, DeliverKeeps
  <2>4. ASSUME NEW s \in Sockets, Close(s)
        PROVE  Inv'
    BY <2>4, CloseKeeps
  <2>5. CASE UNCHANGED vars
    BY <2>5, StutterKeeps
  <2>. QED  BY <2>1, <2>2, <2>3, <2>4, <2>5, Zenon DEF Next, Flow
<1>. QED  BY <1>1, <1>2, PTL DEF Spec

(* Every variable keeps its type.                                          *)
THEOREM ConnectionTypes == Spec => []TypeOK
<1>1. Inv => TypeOK
  BY DEF Inv
<1>. QED  BY <1>1, ConnectionInvariance, PTL

(* The requests of a connection run once and in the order in which they    *)
(* were sent, and one of which everything has arrived is run unless it was *)
(* cut itself (RespServer.receive).                                        *)
THEOREM RequestsRunUnlessCut == Spec => []UncutRequestsRun
<1>1. Inv => UncutRequestsRun
  BY DEF Inv, UncutRequestsRun, HandledInOrder, HandledIsWhole, Socket
<1>. QED  BY <1>1, ConnectionInvariance, PTL

(* A request that is alone on its connection, uncut and undisturbed, is    *)
(* answered with its own reply, whatever listeners other sockets and       *)
(* earlier requests have left (sendCommand).                               *)
THEOREM LoneRequestsHearTheirReply == Spec => []LoneRequestsGetTheirReply
<1>1. Inv => LoneRequestsGetTheirReply
  <2>. SUFFICES ASSUME Inv, NEW i \in log.lone \ OfKind("wide")
                PROVE  answers[i] \in {None, replies[i]}
    BY DEF LoneRequestsGetTheirReply
  <2>1. OnItsWay(i, Socket(i)) \/ OnItsWayBack(i, Socket(i)) \/ IsBack(i)
    BY DEF Inv, LoneOnes
  <2>. QED  BY <2>1 DEF OnItsWay, OnItsWayBack, IsBack
<1>. QED  BY <1>1, ConnectionInvariance, PTL

(* What ran before the request at place n of the chunk.                    *)
LEMMA BeforeInChunk ==
  ASSUME Inv, NEW s \in Sockets, NEW n, NEW chunk, NEW ids, NEW st, Arrives(s, n, chunk, ids, st),
         NEW k \in 1..Len(ids)
  PROVE  Before(handled', ids[k]) = Range(handled) \cup Earlier(ids, k - 1)
<1>1. PICK H : H = handled'
  OBVIOUS
<1>2. ids \in Seq(DOMAIN requests) /\ handled \in Seq(DOMAIN requests) /\ H = handled \o ids
      /\ Increasing(ids) /\ DOMAIN requests \subseteq Nat
  BY <1>1, Numbers DEF Arrives, Due
<1>3. PICK a \in Nat : a = Len(handled)
  <2>1. Len(handled) \in Nat
    BY <1>2, LenProperties
  <2>. QED  BY <2>1
<1>4. PICK b \in Nat : b = Len(ids)
  <2>1. Len(ids) \in Nat
    BY <1>2, LenProperties
  <2>. QED  BY <2>1
<1>5. Len(H) = a + b /\ \A j \in 1..(a + b) : H[j] = IF j <= a THEN handled[j] ELSE ids[j - a]
  <2>1. PICK S : S = DOMAIN requests
    OBVIOUS
  <2>2. /\ Len(H) = Len(handled) + Len(ids)
        /\ \A j \in 1..(Len(handled) + Len(ids)) :
             H[j] = IF j <= Len(handled) THEN handled[j] ELSE ids[j - Len(handled)]
    BY <1>2, <2>1
  <2>. QED  BY <1>3, <1>4, <2>2
<1>6. PICK i : i = ids[k]
  OBVIOUS
<1>7. k \in 1..b /\ a + k \in 1..(a + b) /\ H[a + k] = i
  BY <1>4, <1>5, <1>6
<1>8. \A j \in 1..a : H[j] = handled[j] /\ H[j] # i
  <2>1. ASSUME NEW j \in 1..a
        PROVE  H[j] = handled[j] /\ handled[j] \in Range(handled)
    <3>1. j \in 1..(a + b) /\ j <= a
      OBVIOUS
    <3>2. H[j] = handled[j]
      BY <1>5, <3>1
    <3>3. handled[j] \in Range(handled)
      BY <1>2, <1>3, InRange
    <3>. QED  BY <3>2, <3>3
  <2>2. i \notin Range(handled)
    <3>1. i \in Range(ids)
      BY <1>2, <1>6, InRange
    <3>. QED  BY <3>1, NewlyHandled
  <2>. QED  BY <2>1, <2>2
<1>9. \A j \in 1..(k - 1) : H[a + j] = ids[j] /\ H[a + j] # i
  <2>. SUFFICES ASSUME NEW j \in 1..(k - 1) PROVE H[a + j] = ids[j] /\ H[a + j] # i
    OBVIOUS
  <2>1. j \in 1..b /\ a + j \in 1..(a + b) /\ ~(a + j <= a) /\ j < k
    BY <1>7
  <2>2. H[a + j] = ids[j]
    BY <1>5, <2>1
  <2>3. ids[j] < ids[k]
    BY <1>2, <1>4, <1>7, <2>1 DEF Increasing
  <2>4. ids[j] \in Nat /\ ids[k] \in Nat
    BY <1>2, <1>4, <1>7, <2>1, ElementOfSeq
  <2>. QED  BY <1>6, <2>2, <2>3, <2>4
<1>10. PICK M : M = {m \in 1..Len(H) : \A j \in 1..m : H[j] # i}
  OBVIOUS
<1>11. M = 1..(a + k - 1)
  <2>1. ASSUME NEW m \in M
        PROVE  m \in 1..(a + k - 1)
    <3>1. m \in 1..(a + b) /\ \A j \in 1..m : H[j] # i
      BY <1>5, <1>10
    <3>2. a + k \notin 1..m
      BY <1>7, <3>1
    <3>. QED  BY <1>7, <3>1, <3>2
  <2>2. ASSUME NEW m \in 1..(a + k - 1)
        PROVE  m \in M
    <3>1. m \in 1..(a + b)
      BY <1>7
    <3>2. ASSUME NEW j \in 1..m
          PROVE  H[j] # i
      <4>1. CASE j <= a
        <5>1. j \in 1..a
          BY <4>1
        <5>. QED  BY <1>8, <5>1
      <4>2. CASE ~(j <= a)
        <5>1. j - a \in 1..(k - 1) /\ a + (j - a) = j
          BY <1>7, <4>2
        <5>. QED  BY <1>9, <5>1
      <4>. QED  BY <4>1, <4>2
    <3>. QED  BY <1>5, <1>10, <3>1, <3>2
  <2>. QED  BY <2>1, <2>2
<1>12. Before(H, i) = {H[m] : m \in 1..(a + k - 1)}
  BY <1>10, <1>11 DEF Before
<1>13. \A x : x \in Range(handled) <=> \E j \in 1..a : handled[j] = x
  BY <1>2, <1>3, InRange
<1>14. ASSUME NEW x
       PROVE  x \in Before(H, i) <=> x \in Range(handled) \cup Earlier(ids, k - 1)
  <2>1. ASSUME x \in Before(H, i)
        PROVE  x \in Range(handled) \cup Earlier(ids, k - 1)
    <3>1. PICK m \in 1..(a + k - 1) : x = H[m]
      BY <1>12, <2>1
    <3>2. CASE m <= a
      <4>1. m \in 1..a
        BY <3>2
      <4>. QED  BY <1>8, <1>13, <3>1, <4>1
    <3>3. CASE ~(m <= a)
      <4>1. m - a \in 1..(k - 1) /\ a + (m - a) = m
        BY <1>7, <3>3
      <4>2. x = ids[m - a]
        BY <1>9, <3>1, <4>1
      <4>. QED  BY <4>1, <4>2 DEF Earlier
    <3>. QED  BY <3>2, <3>3
  <2>2. ASSUME x \in Range(handled)
        PROVE  x \in Before(H, i)
    <3>1. PICK j \in 1..a : handled[j] = x
      BY <1>13, <2>2
    <3>2. j \in 1..(a + k - 1) /\ H[j] = x
      BY <1>7, <1>8, <3>1
    <3>. QED  BY <1>12, <3>2
  <2>3. ASSUME x \in Earlier(ids, k - 1)
        PROVE  x \in Before(H, i)
    <3>1. PICK j \in 1..(k - 1) : x = ids[j]
      BY <2>3 DEF Earlier
    <3>2. a + j \in 1..(a + k - 1) /\ H[a + j] = x
      BY <1>7, <1>9, <3>1
    <3>. QED  BY <1>12, <3>2
  <2>. QED  BY <2>1, <2>2, <2>3
<1>. QED  BY <1>1, <1>6, <1>14

(* The name that a connection is told is the last one that was set on it   *)
(* since it was made, and CLIENT LIST has the connections that there are,  *)
(* with their own names, even when one chunk sets a name and asks for it   *)
(* (ClientCommand, RespServer.registerConnection).                         *)
THEOREM NamesAreOfTheirConnection == Spec => NamesStayWithTheirConnection
<1>. DEFINE Told(i, before) ==
       CASE requests[i].kind = "getname" ->
              replies'[i] = Bulk(LastName(requests[i].socket, before))
         [] requests[i].kind = "list" ->
              replies'[i] = Bulk([s \in connected |-> LastName(s, before)])
         [] OTHER -> TRUE
<1>. DEFINE AllTold == \A i \in Range(handled') \ Range(handled) : Told(i, Before(handled', i))
<1>1. ASSUME Inv, NEW s \in Sockets, NEW n, Receive(s, n)
      PROVE  AllTold
  <2>1. PICK chunk, ids, st : Arrives(s, n, chunk, ids, st)
    BY <1>1, ReceiveDoes
  <2>2. ids \in Seq(DOMAIN requests) /\ replies' = st.replies /\ Ran(s, ids, Len(ids), st) /\ s \in connected
    BY <2>1 DEF Arrives, Due
  <2>3. Range(handled') = Range(handled) \cup Range(ids)
    BY <1>1, <2>1, NewlyHandled
  <2>4. ASSUME NEW i \in Range(handled') \ Range(handled)
        PROVE  Told(i, Before(handled', i))
    <3>1. PICK k \in 1..Len(ids) : ids[k] = i
      BY <2>2, <2>3, <2>4, InRange
    <3>2. PICK before : before = Range(handled) \cup Earlier(ids, k - 1)
      OBVIOUS
    <3>3. Before(handled', i) = before
      BY <1>1, <2>1, <3>1, <3>2, BeforeInChunk
    <3>4. replies'[i] = Reply(NamesAfter(before), s, requests[i])
      BY <2>2, <3>1, <3>2 DEF Ran
    <3>5. requests[i].socket = s
      BY <1>1, <2>1, <2>3, <2>4, NewlyHandled DEF Socket
    <3>6. NamesAfter(before)[s] = LastName(s, before)
      BY <2>2 DEF NamesAfter
    <3>7. CASE requests[i].kind = "getname"
      BY <3>3, <3>4, <3>5, <3>6, <3>7 DEF Reply
    <3>8. CASE requests[i].kind = "list"
      BY <3>3, <3>4, <3>8 DEF Reply, NamesAfter
    <3>. QED  BY <3>7, <3>8
  <2>. QED  BY <2>4
<1>2. ASSUME handled' = handled
      PROVE  AllTold
  BY <1>2
<1>3. Inv /\ [Next]_vars => [AllTold]_vars
  <2>. SUFFICES ASSUME Inv, Next PROVE AllTold
    OBVIOUS
  <2>1. ASSUME NEW s \in Sockets, NEW kind \in Kinds, NEW name \in Names, Send(s, kind, name)
        PROVE  AllTold
    BY <1>2, <2>1 DEF Send
  <2>2. ASSUME NEW s \in Sockets, NEW n, Receive(s, n)
        PROVE  AllTold
    BY <1>1, <2>2
  <2>3. ASSUME NEW s \in Sockets, NEW n, Deliver(s, n)
        PROVE  AllTold
    BY <1>2, <2>3 DEF Deliver
  <2>4. ASSUME NEW s \in Sockets, Close(s)
        PROVE  AllTold
    BY <1>2, <2>4 DEF Close
  <2>. HIDE DEF AllTold
  <2>. QED  BY <2>1, <2>2, <2>3, <2>4, Zenon DEF Next, Flow
<1>. QED  BY <1>3, ConnectionInvariance, PTL DEF Spec, NamesStayWithTheirConnection
=============================================================================
