------------------------ MODULE BlockingListsProofs -------------------------
(***************************************************************************)
(* Theorems about BlockingLists, for any keys, sessions and bounds.        *)
(*                                                                         *)
(* A push runs the listeners of every waiter in its middle, any number of  *)
(* times.  What all of them do together is known by two relations between  *)
(* states of the lists and the waiters: Heard, of what one event may do up *)
(* to some waiter, and Pushed, of all the events of a push.  Each holds at *)
(* the start and is kept by one more listener, or by one more event.       *)
(***************************************************************************)
EXTENDS BlockingLists, SequenceTheorems, FiniteSetTheorems, WellFoundedInduction, TLAPS

Answers == Elements \cup {None, Nil, Refused, Rejected}

States == [lists : [Keys -> Seq(Elements)], waiters : Seq(Waiters),
           answers : [Requests -> Answers], moves : [Requests -> Nat], threw : BOOLEAN]

(***************************************************************************)
(* Elements in lists.                                                      *)
(***************************************************************************)
At(ls, k, i, e) == k \in Keys /\ i \in 1..Len(ls[k]) /\ ls[k][i] = e

Placed(ls, e) == \E k \in Keys : \E i \in 1..Len(ls[k]) : ls[k][i] = e

(* No element is in two places.                                            *)
Single(ls) ==
  \A k, l \in Keys : \A i \in 1..Len(ls[k]), j \in 1..Len(ls[l]) :
    ls[k][i] = ls[l][j] => k = l /\ i = j

(* Nothing is lost and nothing is doubled.                                 *)
Rearranged(ls, new) ==
  /\ Single(ls) => Single(new)
  /\ \A e : Placed(new, e) <=> Placed(ls, e)

(***************************************************************************)
(* Numbers up to n, in place of induction, and functions defined along     *)
(* them.                                                                   *)
(***************************************************************************)
LEMMA Reach ==
  ASSUME NEW n \in Nat, NEW G, 0 \in G, \A i \in 1..n : i - 1 \in G => i \in G
  PROVE  \A i \in 0..n : i \in G
<1>. SUFFICES ASSUME NEW m \in 0..n, m \notin G PROVE FALSE
  OBVIOUS
<1>1. PICK N : N = {i \in 0..n : i \notin G}
  OBVIOUS
<1>2. N \in SUBSET Nat /\ N # {}
  BY <1>1
<1>3. PICK R : R = {ss \in Nat \X Nat : ss[1] < ss[2]}
  OBVIOUS
<1>4. IsWellFoundedOn(R, Nat)
  BY <1>3, NatLessThanWellFounded, Zenon DEF OpToRel
<1>5. PICK u \in N : \A v \in N : ~(<<v, u>> \in R)
  BY <1>2, <1>4, WFMin, Zenon
<1>6. u \in 0..n /\ u \notin G
  BY <1>1
<1>7. u # 0 /\ u - 1 \in 0..n /\ u \in 1..n
  BY <1>6
<1>8. u - 1 \notin G
  BY <1>6, <1>7
<1>9. u - 1 \in N /\ <<u - 1, u>> \in R
  BY <1>1, <1>3, <1>6, <1>7, <1>8
<1>. QED  BY <1>5, <1>9

IsIteration(f, S, a, n, g) ==
  /\ f \in [0..n -> S]
  /\ \A i \in 0..n : f[i] = IF i = 0 THEN a ELSE g[<<f[i - 1], i>>]

LEMMA IterationExists ==
  ASSUME NEW S, NEW a \in S, NEW n \in Nat, NEW g \in [S \X (1..n) -> S]
  PROVE  \E f : IsIteration(f, S, a, n, g)
<1>1. PICK G : G = {m \in 0..n : \E f \in [0..m -> S] :
                      \A i \in 0..m : f[i] = IF i = 0 THEN a ELSE g[<<f[i - 1], i>>]}
  OBVIOUS
<1>2. 0 \in G
  <2>1. PICK f : f = [i \in 0..0 |-> a]
    OBVIOUS
  <2>2. f \in [0..0 -> S]
    BY <2>1
  <2>3. \A i \in 0..0 : f[i] = IF i = 0 THEN a ELSE g[<<f[i - 1], i>>]
    BY <2>1
  <2>4. 0 \in 0..n
    OBVIOUS
  <2>. QED  BY <1>1, <2>2, <2>3, <2>4
<1>3. ASSUME NEW u \in 1..n, u - 1 \in G
      PROVE  u \in G
  <2>1. PICK f \in [0..(u - 1) -> S] :
          \A i \in 0..(u - 1) : f[i] = IF i = 0 THEN a ELSE g[<<f[i - 1], i>>]
    BY <1>1, <1>3
  <2>2. PICK x : x = g[<<f[u - 1], u>>]
    OBVIOUS
  <2>3. x \in S
    BY <2>2
  <2>4. PICK h : h = [i \in 0..u |-> IF i = u THEN x ELSE f[i]]
    OBVIOUS
  <2>5. \A i \in 0..(u - 1) : h[i] = f[i] /\ i \in 0..u
    BY <2>4
  <2>6. h \in [0..u -> S]
    BY <2>3, <2>4
  <2>7. ASSUME NEW i \in 0..u
        PROVE  h[i] = IF i = 0 THEN a ELSE g[<<h[i - 1], i>>]
    <3>1. CASE i = u
      <4>1. h[i] = x /\ i # 0 /\ i - 1 \in 0..(u - 1)
        BY <2>4, <3>1
      <4>2. h[i - 1] = f[u - 1]
        BY <2>5, <3>1, <4>1
      <4>. QED  BY <2>2, <3>1, <4>1, <4>2
    <3>2. CASE i # u
      <4>1. i \in 0..(u - 1) /\ (i # 0 => i - 1 \in 0..(u - 1))
        BY <3>2
      <4>2. h[i] = f[i] /\ (i # 0 => h[i - 1] = f[i - 1])
        BY <2>5, <4>1
      <4>. QED  BY <2>1, <4>1, <4>2
    <3>. QED  BY <3>1, <3>2
  <2>. QED  BY <1>1, <2>6, <2>7
<1>4. n \in G
  BY <1>2, <1>3, Reach
<1>. QED  BY <1>1, <1>4 DEF IsIteration

(***************************************************************************)
(* Moves of one element.                                                   *)
(***************************************************************************)
(* The last of the n elements of src goes before the first of dst.         *)
IsMove(ls, new, src, dst, n) ==
  /\ new \in [Keys -> Seq(Elements)]
  /\ \A k \in Keys \ {src, dst} : new[k] = ls[k]
  /\ src = dst => /\ Len(new[src]) = n
                  /\ new[src][1] = ls[src][n]
                  /\ \A i \in 2..n : new[src][i] = ls[src][i - 1]
  /\ src # dst => /\ Len(new[src]) = n - 1
                  /\ \A i \in 1..(n - 1) : new[src][i] = ls[src][i]
                  /\ Len(new[dst]) = Len(ls[dst]) + 1
                  /\ new[dst][1] = ls[src][n]
                  /\ \A i \in 2..Len(new[dst]) : new[dst][i] = ls[dst][i - 1]

LEMMA MoveIsMove ==
  ASSUME NEW ls \in [Keys -> Seq(Elements)], NEW src \in Keys, NEW dst \in Keys, ls[src] # <<>>
  PROVE  /\ IsMove(ls, RPopLPush(ls, src, dst), src, dst, Len(ls[src]))
         /\ Last1(ls[src]) \in Elements
<1>1. PICK n : n = Len(ls[src])
  OBVIOUS
<1>2. n \in Nat \ {0}
  BY <1>1, EmptySeq
<1>3. PICK x : x = ls[src][n]
  OBVIOUS
<1>4. x \in Elements /\ Last1(ls[src]) = x
  BY <1>1, <1>2, <1>3, ElementOfSeq DEF Last1
<1>5. PICK front : front = Front(ls[src])
  OBVIOUS
<1>6. /\ front \in Seq(Elements) /\ Len(front) = n - 1
      /\ \A i \in 1..(n - 1) : front[i] = ls[src][i]
  <2>1. \A i \in 1..(n - 1) : ls[src][i] \in Elements
    BY <1>1, <1>2, ElementOfSeq
  <2>2. front = SubSeq(ls[src], 1, n - 1)
    BY <1>1, <1>5 DEF Front
  <2>. QED  BY <1>2, <2>1, <2>2, SubSeqProperties
<1>7. <<x>> \in Seq(Elements) /\ Len(<<x>>) = 1 /\ <<x>>[1] = x
  BY <1>4
<1>8. CASE src = dst
  <2>1. RPopLPush(ls, src, dst) = [ls EXCEPT ![src] = <<x>> \o front]
    BY <1>4, <1>5, <1>8 DEF RPopLPush
  <2>. QED  BY <1>1, <1>2, <1>3, <1>4, <1>6, <1>7, <1>8, <2>1, ConcatProperties DEF IsMove
<1>9. CASE src # dst
  <2>1. RPopLPush(ls, src, dst) = [ls EXCEPT ![src] = front, ![dst] = <<x>> \o ls[dst]]
    BY <1>4, <1>5, <1>9 DEF RPopLPush
  <2>2. PICK joined : joined = <<x>> \o ls[dst]
    OBVIOUS
  <2>3. /\ joined \in Seq(Elements) /\ Len(joined) = Len(ls[dst]) + 1 /\ joined[1] = x
        /\ \A i \in 2..Len(joined) : joined[i] = ls[dst][i - 1]
    <3>1. ls[dst] \in Seq(Elements) /\ Len(ls[dst]) \in Nat
      BY LenProperties
    <3>. QED  BY <1>7, <2>2, <3>1, ConcatProperties
  <2>4. PICK new : new = RPopLPush(ls, src, dst)
    OBVIOUS
  <2>5. /\ new \in [Keys -> Seq(Elements)] /\ new[src] = front /\ new[dst] = joined
        /\ \A k \in Keys \ {src, dst} : new[k] = ls[k]
    BY <1>6, <1>9, <2>1, <2>2, <2>3, <2>4
  <2>. QED  BY <1>1, <1>3, <1>4, <1>6, <1>9, <2>3, <2>4, <2>5 DEF IsMove
<1>. QED  BY <1>8, <1>9

(* Where an element of a move was before it.                               *)
OriginKey(k, i, src, dst) == IF k = dst /\ i = 1 THEN src ELSE k
OriginPlace(k, i, dst, n) == IF k = dst THEN IF i = 1 THEN n ELSE i - 1 ELSE i

LEMMA MoveRearranges ==
  ASSUME NEW ls \in [Keys -> Seq(Elements)], NEW src \in Keys, NEW dst \in Keys, ls[src] # <<>>
  PROVE  Rearranged(ls, RPopLPush(ls, src, dst))
<1>1. PICK new : new = RPopLPush(ls, src, dst)
  OBVIOUS
<1>2. PICK n : n = Len(ls[src])
  OBVIOUS
<1>3. \A k \in Keys : Len(ls[k]) \in Nat
  OBVIOUS
<1>4. n \in Nat \ {0}
  BY <1>2, EmptySeq
<1>5. /\ new \in [Keys -> Seq(Elements)]
      /\ \A k \in Keys \ {src, dst} : new[k] = ls[k]
      /\ src = dst => /\ Len(new[src]) = n
                      /\ new[src][1] = ls[src][n]
                      /\ \A i \in 2..n : new[src][i] = ls[src][i - 1]
      /\ src # dst => /\ Len(new[src]) = n - 1
                      /\ \A i \in 1..(n - 1) : new[src][i] = ls[src][i]
                      /\ Len(new[dst]) = Len(ls[dst]) + 1
                      /\ new[dst][1] = ls[src][n]
                      /\ \A i \in 2..Len(new[dst]) : new[dst][i] = ls[dst][i - 1]
  <2>1. IsMove(ls, new, src, dst, n)
    BY <1>1, <1>2, MoveIsMove
  <2>. QED  BY <2>1 DEF IsMove
<1>6. ASSUME NEW k \in Keys, NEW i \in 1..Len(new[k])
      PROVE  /\ OriginKey(k, i, src, dst) \in Keys
             /\ OriginPlace(k, i, dst, n) \in 1..Len(ls[OriginKey(k, i, src, dst)])
             /\ new[k][i] = ls[OriginKey(k, i, src, dst)][OriginPlace(k, i, dst, n)]
  <2>1. CASE k # dst
    <3>1. CASE k = src
      BY <1>2, <1>4, <1>5, <1>6, <2>1, <3>1 DEF OriginKey, OriginPlace
    <3>2. CASE k # src
      BY <1>5, <1>6, <2>1, <3>2 DEF OriginKey, OriginPlace
    <3>. QED  BY <3>1, <3>2
  <2>2. CASE k = dst /\ i = 1
    BY <1>2, <1>4, <1>5, <2>2 DEF OriginKey, OriginPlace
  <2>3. CASE k = dst /\ i # 1
    BY <1>2, <1>3, <1>4, <1>5, <1>6, <2>3 DEF OriginKey, OriginPlace
  <2>. QED  BY <2>1, <2>2, <2>3
<1>7. ASSUME NEW k \in Keys, NEW i \in 1..Len(new[k]), NEW l \in Keys, NEW j \in 1..Len(new[l]),
             OriginKey(k, i, src, dst) = OriginKey(l, j, src, dst),
             OriginPlace(k, i, dst, n) = OriginPlace(l, j, dst, n)
      PROVE  k = l /\ i = j
  <2>1. src # dst => \A p \in 1..Len(new[src]) : p # n
    BY <1>4, <1>5
  <2>2. src = dst => \A p \in 1..Len(new[src]) : p - 1 # n
    BY <1>4, <1>5
  <2>. QED  BY <1>4, <1>7, <2>1, <2>2 DEF OriginKey, OriginPlace
<1>8. ASSUME NEW l \in Keys, NEW j \in 1..Len(ls[l])
      PROVE  \E k \in Keys : \E i \in 1..Len(new[k]) : new[k][i] = ls[l][j]
  <2>1. CASE l = src /\ j = n
    BY <1>3, <1>4, <1>5, <2>1
  <2>2. CASE l = dst /\ ~(l = src /\ j = n)
    <3>1. j + 1 \in 2..Len(new[dst])
      <4>1. j \in Nat \ {0} /\ j <= Len(ls[dst]) /\ Len(ls[dst]) \in Nat
        BY <1>3, <1>8, <2>2
      <4>2. CASE src = dst
        BY <1>2, <1>4, <1>5, <2>2, <4>1, <4>2
      <4>3. CASE src # dst
        BY <1>5, <4>1, <4>3
      <4>. QED  BY <4>2, <4>3
    <3>2. (j + 1) - 1 = j /\ j + 1 \in 1..Len(new[dst])
      BY <1>3, <1>8, <3>1
    <3>3. new[dst][j + 1] = ls[dst][(j + 1) - 1]
      <4>1. CASE src = dst
        BY <1>5, <3>1, <4>1
      <4>2. CASE src # dst
        BY <1>5, <3>1, <4>2
      <4>. QED  BY <4>1, <4>2
    <3>. QED  BY <2>2, <3>2, <3>3
  <2>3. CASE l # dst /\ ~(l = src /\ j = n)
    <3>1. CASE l = src
      <4>1. j \in 1..n /\ j # n /\ src # dst
        BY <1>2, <1>8, <2>3, <3>1
      <4>2. j \in 1..(n - 1)
        BY <1>4, <4>1
      <4>3. Len(new[src]) = n - 1 /\ new[src][j] = ls[src][j]
        BY <1>5, <4>1, <4>2
      <4>. QED  BY <3>1, <4>2, <4>3
    <3>2. CASE l # src
      <4>1. new[l] = ls[l]
        BY <1>5, <2>3, <3>2
      <4>. QED  BY <4>1
    <3>. QED  BY <3>1, <3>2
  <2>. QED  BY <2>1, <2>2, <2>3
<1>9. ASSUME Single(ls), NEW k \in Keys, NEW l \in Keys,
             NEW i \in 1..Len(new[k]), NEW j \in 1..Len(new[l]), new[k][i] = new[l][j]
      PROVE  k = l /\ i = j
  <2>1. PICK kk, ii : kk = OriginKey(k, i, src, dst) /\ ii = OriginPlace(k, i, dst, n)
    OBVIOUS
  <2>2. PICK ll, jj : ll = OriginKey(l, j, src, dst) /\ jj = OriginPlace(l, j, dst, n)
    OBVIOUS
  <2>3. kk \in Keys /\ ii \in 1..Len(ls[kk]) /\ new[k][i] = ls[kk][ii]
    BY <1>6, <2>1
  <2>4. ll \in Keys /\ jj \in 1..Len(ls[ll]) /\ new[l][j] = ls[ll][jj]
    BY <1>6, <2>2
  <2>5. ls[kk][ii] = ls[ll][jj]
    BY <1>9, <2>3, <2>4
  <2>6. kk = ll /\ ii = jj
    <3>1. \A a, b \in Keys : \A x \in 1..Len(ls[a]), y \in 1..Len(ls[b]) :
            ls[a][x] = ls[b][y] => a = b /\ x = y
      BY <1>9 DEF Single
    <3>2. \A b \in Keys : \A x \in 1..Len(ls[kk]), y \in 1..Len(ls[b]) :
            ls[kk][x] = ls[b][y] => kk = b /\ x = y
      BY ONLY <2>3, <3>1
    <3>3. \A x \in 1..Len(ls[kk]), y \in 1..Len(ls[ll]) :
            ls[kk][x] = ls[ll][y] => kk = ll /\ x = y
      BY ONLY <2>4, <3>2
    <3>4. \A y \in 1..Len(ls[ll]) : ls[kk][ii] = ls[ll][y] => kk = ll /\ ii = y
      BY ONLY <2>3, <3>3
    <3>. QED  BY ONLY <2>4, <2>5, <3>4
  <2>. QED  BY <1>7, <2>1, <2>2, <2>6
<1>10. ASSUME NEW e, Placed(new, e)
       PROVE  Placed(ls, e)
  <2>1. PICK k \in Keys : \E i \in 1..Len(new[k]) : new[k][i] = e
    BY <1>10 DEF Placed
  <2>2. PICK i \in 1..Len(new[k]) : new[k][i] = e
    BY <2>1
  <2>. QED  BY <1>6, <2>2 DEF Placed
<1>11. ASSUME NEW e, Placed(ls, e)
       PROVE  Placed(new, e)
  <2>1. PICK l \in Keys : \E j \in 1..Len(ls[l]) : ls[l][j] = e
    BY <1>11 DEF Placed
  <2>2. PICK j \in 1..Len(ls[l]) : ls[l][j] = e
    BY <2>1
  <2>. QED  BY <1>8, <2>2 DEF Placed
<1>12. Single(ls) => Single(new)
  BY <1>9 DEF Single
<1>. QED  BY <1>1, <1>10, <1>11, <1>12 DEF Rearranged

LEMMA RearrangedTwice ==
  ASSUME NEW a, NEW b, NEW c, Rearranged(a, b), Rearranged(b, c)
  PROVE  Rearranged(a, c)
BY DEF Rearranged

(***************************************************************************)
(* One listener.                                                           *)
(***************************************************************************)
LEMMA SettleEffect ==
  ASSUME NEW st \in States, NEW id \in Requests, NEW reply \in Answers
  PROVE  LET new == Settle(st, id, reply) IN
         /\ new \in States
         /\ new.lists = st.lists /\ new.waiters = st.waiters
         /\ new.moves = st.moves /\ new.threw = st.threw
         /\ \A r \in Requests : r # id \/ st.answers[r] # None => new.answers[r] = st.answers[r]
         /\ st.answers[id] = None => new.answers[id] = reply
BY DEF Settle, States

(* What a listener does that does not throw: a move for its request, or,   *)
(* beside an empty list, none.                                             *)
OneMove(st, new, id, src, dst) ==
  /\ new \in States /\ new.waiters = st.waiters
  /\ Rearranged(st.lists, new.lists)
  /\ \A r \in Requests : r # id \/ st.answers[r] # None => new.answers[r] = st.answers[r]
  /\ \A r \in Requests \ {id} : new.moves[r] = st.moves[r]
  /\ new.moves[id] \in st.moves[id]..(st.moves[id] + 1)
  /\ Throws(st, src, dst) =>
       new.threw /\ new.answers = st.answers /\ new.lists = st.lists /\ new.moves = st.moves
  /\ ~Throws(st, src, dst) =>
       /\ new.threw = st.threw
       /\ new.answers[id] # None
       /\ st.lists[src] # <<>> /\ st.answers[id] = None => new.answers[id] \in Elements
       /\ st.lists[src] = <<>> => /\ new.lists = st.lists /\ new.moves = st.moves
                                  /\ st.answers[id] = None => new.answers[id] = Nil

LEMMA ProcessEffect ==
  ASSUME NEW st \in States, NEW id \in Requests, NEW src \in Keys, NEW dst \in Keys
  PROVE  OneMove(st, Process(st, id, src, dst), id, src, dst)
<1>1. PICK new : new = Process(st, id, src, dst)
  OBVIOUS
<1>2. CASE Throws(st, src, dst)
  <2>1. new = [st EXCEPT !.threw = TRUE]
    BY <1>1, <1>2 DEF Process
  <2>2. /\ new \in States /\ new.lists = st.lists /\ new.waiters = st.waiters
        /\ new.answers = st.answers /\ new.moves = st.moves /\ new.threw
    BY <2>1 DEF States
  <2>3. st.moves[id] \in Nat
    BY DEF States
  <2>. QED  BY <1>1, <1>2, <2>2, <2>3 DEF OneMove, Rearranged
<1>3. CASE ~Throws(st, src, dst) /\ st.lists[src] = <<>>
  <2>1. new = Settle(st, id, Nil) /\ Nil \in Answers
    BY <1>1, <1>3 DEF Process, Answers
  <2>2. Nil # None
    BY AnswerAssumption
  <2>3. /\ new \in States /\ new.lists = st.lists /\ new.waiters = st.waiters
        /\ new.moves = st.moves /\ new.threw = st.threw
        /\ \A r \in Requests : r # id \/ st.answers[r] # None => new.answers[r] = st.answers[r]
        /\ st.answers[id] = None => new.answers[id] = Nil
    BY <2>1, SettleEffect
  <2>4. st.moves[id] \in Nat
    BY DEF States
  <2>. QED  BY <1>1, <1>3, <2>2, <2>3, <2>4 DEF OneMove, Rearranged
<1>4. CASE ~Throws(st, src, dst) /\ st.lists[src] # <<>>
  <2>1. PICK moved : moved = [st EXCEPT !.lists = RPopLPush(@, src, dst), !.moves[id] = @ + 1]
    OBVIOUS
  <2>2. PICK x : x = Last1(st.lists[src])
    OBVIOUS
  <2>3. st.lists \in [Keys -> Seq(Elements)] /\ st.moves \in [Requests -> Nat]
    BY DEF States
  <2>4. x \in Elements /\ RPopLPush(st.lists, src, dst) \in [Keys -> Seq(Elements)]
    BY <1>4, <2>2, <2>3, MoveIsMove DEF IsMove
  <2>5. /\ moved \in States /\ moved.lists = RPopLPush(st.lists, src, dst)
        /\ moved.waiters = st.waiters /\ moved.answers = st.answers /\ moved.threw = st.threw
        /\ moved.moves = [st.moves EXCEPT ![id] = @ + 1]
    <3>1. [st.moves EXCEPT ![id] = @ + 1] \in [Requests -> Nat]
      BY <2>3
    <3>2. moved = [st EXCEPT !.lists = RPopLPush(st.lists, src, dst),
                             !.moves = [st.moves EXCEPT ![id] = @ + 1]]
      BY <2>1, <2>3 DEF States
    <3>. QED  BY <2>4, <3>1, <3>2 DEF States
  <2>6. new = Settle(moved, id, x) /\ x \in Answers
    BY <1>1, <1>4, <2>1, <2>2, <2>4 DEF Process, Answers
  <2>7. Rearranged(st.lists, moved.lists)
    <3>1. Rearranged(st.lists, RPopLPush(st.lists, src, dst))
      BY <1>4, <2>3, MoveRearranges
    <3>. QED  BY <2>5, <3>1
  <2>8. x # None
    BY <2>4, AnswerAssumption
  <2>9. /\ new \in States /\ new.lists = moved.lists /\ new.waiters = moved.waiters
        /\ new.moves = moved.moves /\ new.threw = moved.threw
        /\ \A r \in Requests : r # id \/ moved.answers[r] # None => new.answers[r] = moved.answers[r]
        /\ moved.answers[id] = None => new.answers[id] = x
    BY <2>5, <2>6, SettleEffect
  <2>10. /\ \A r \in Requests \ {id} : new.moves[r] = st.moves[r]
         /\ new.moves[id] \in st.moves[id]..(st.moves[id] + 1)
    BY <2>3, <2>5, <2>9
  <2>. QED  BY <1>1, <1>4, <2>4, <2>5, <2>7, <2>8, <2>9, <2>10 DEF OneMove
<1>. QED  BY <1>2, <1>3, <1>4

(***************************************************************************)
(* One event.                                                              *)
(***************************************************************************)
DistinctIds(q) == \A i, j \in 1..Len(q) : q[i].id = q[j].id => i = j

Orderly == {st \in States : DistinctIds(st.waiters)}

(* Request r does not listen to key among the first n waiters.             *)
Deaf(q, n, key, r) == \A i \in 1..n : q[i].id = r => q[i].src # key

(* What the first n listeners of an event on key may do: the answered stay *)
(* as they are, others than listeners too, and a listener is answered and  *)
(* moves at most once, unless one before it throws.                        *)
Heard(st, acc, key, n) ==
  /\ acc \in Orderly /\ acc.waiters = st.waiters
  /\ Rearranged(st.lists, acc.lists)
  /\ \A r \in Requests : st.answers[r] # None => acc.answers[r] = st.answers[r]
  /\ \A r \in Requests : Deaf(st.waiters, n, key, r) =>
       acc.answers[r] = st.answers[r] /\ acc.moves[r] = st.moves[r]
  /\ \A r \in Requests : acc.moves[r] \in st.moves[r]..(st.moves[r] + 1)
  /\ \A i \in 1..n : st.waiters[i].src = key /\ ~acc.threw => acc.answers[st.waiters[i].id] # None
  /\ st.threw => acc = st

(* Waiter i of key has no answer.                                          *)
Open(st, i, key) == st.waiters[i].src = key /\ st.answers[st.waiters[i].id] = None

Served(acc, i) == acc.answers[acc.waiters[i].id] \in Elements

(* Nobody is served past one that has waited longer, and one that is       *)
(* answered without an element has found none.                             *)
InTurn(st, acc, key, n) ==
  /\ \A i, j \in 1..Len(st.waiters) :
       i < j /\ Open(st, i, key) /\ Open(st, j, key) /\ Served(acc, j) => Served(acc, i)
  /\ \A i \in 1..n :
       Open(st, i, key) /\ ~Served(acc, i) /\ acc.answers[acc.waiters[i].id] # None
       => acc.lists[key] = <<>>

LEMMA ListenersAreTyped ==
  ASSUME NEW st \in States, NEW i \in 1..Len(st.waiters), NEW key \in Keys
  PROVE  /\ st.waiters[i].id \in Requests
         /\ st.waiters[i].src = key => st.waiters[i].dst \in Keys
<1>1. st.waiters[i] \in Waiters
  <2>1. st.waiters \in Seq(Waiters)
    BY DEF States
  <2>. QED  BY <2>1, ElementOfSeq
<1>. QED  BY <1>1 DEF Waiters

LEMMA CallIsTyped ==
  ASSUME NEW st \in Orderly, NEW base \in States, NEW i \in 1..Len(base.waiters), NEW key \in Keys
  PROVE  Call(st, base.waiters[i], key) \in Orderly
<1>1. PICK w : w = base.waiters[i]
  OBVIOUS
<1>2. w.id \in Requests /\ (w.src = key => w.dst \in Keys)
  BY <1>1, ListenersAreTyped
<1>3. CASE w.src = key /\ ~st.threw
  <2>1. Call(st, w, key) = Process(st, w.id, key, w.dst)
    BY <1>3 DEF Call
  <2>2. OneMove(st, Process(st, w.id, key, w.dst), w.id, key, w.dst)
    BY <1>2, <1>3, ProcessEffect DEF Orderly
  <2>. QED  BY <1>1, <2>1, <2>2 DEF OneMove, Orderly
<1>4. CASE ~(w.src = key /\ ~st.threw)
  BY <1>1, <1>4 DEF Call
<1>. QED  BY <1>3, <1>4

LEMMA HeardByNobody ==
  ASSUME NEW st \in Orderly, NEW key \in Keys
  PROVE  Heard(st, st, key, 0) /\ InTurn(st, st, key, 0)
<1>1. \A r \in Requests : st.moves[r] \in Nat
  BY DEF Orderly, States
<1>2. \A i : Open(st, i, key) => ~Served(st, i)
  BY AnswerAssumption DEF Open, Served
<1>. QED  BY <1>1, <1>2 DEF Heard, InTurn, Rearranged

(* One more listener.                                                      *)
LEMMA HeardByOneMore ==
  ASSUME NEW st \in Orderly, NEW acc, NEW key \in Keys, NEW n \in 1..Len(st.waiters),
         Heard(st, acc, key, n - 1), InTurn(st, acc, key, n - 1)
  PROVE  LET new == Call(acc, st.waiters[n], key) IN
         Heard(st, new, key, n) /\ InTurn(st, new, key, n)
<1>1. PICK w : w = st.waiters[n]
  OBVIOUS
<1>2. PICK new : new = Call(acc, w, key)
  OBVIOUS
<1>3. st \in States /\ acc \in States /\ acc \in Orderly /\ acc.waiters = st.waiters
  BY DEF Heard, Orderly
<1>4. PICK len \in Nat : len = Len(st.waiters)
  BY <1>3, LenProperties DEF States
<1>5. n \in 1..len /\ n - 1 \in Nat /\ (\A i \in 1..n : i # n => i \in 1..(n - 1))
  BY <1>4
<1>6. w.id \in Requests /\ (w.src = key => w.dst \in Keys)
  BY <1>1, <1>3, ListenersAreTyped
<1>7. CASE ~(w.src = key /\ ~acc.threw)
  <2>1. new = acc
    BY <1>2, <1>7 DEF Call
  <2>2. \A r : Deaf(st.waiters, n, key, r) => Deaf(st.waiters, n - 1, key, r)
    BY <1>5 DEF Deaf
  <2>3. ASSUME NEW i \in 1..n, Open(st, i, key), ~Served(acc, i), acc.answers[acc.waiters[i].id] # None
        PROVE  acc.lists[key] = <<>>
    <3>1. CASE i # n
      BY <1>5, <2>3, <3>1 DEF InTurn
    <3>2. CASE i = n
      <4>1. acc.threw /\ Open(st, n, key) /\ w.src = key
        BY <1>1, <1>7, <2>3, <3>2 DEF Open
      <4>2. Deaf(st.waiters, n - 1, key, w.id)
        BY <1>1, <1>3, <1>4, <1>5 DEF Deaf, Orderly, DistinctIds
      <4>3. acc.answers[w.id] = st.answers[w.id]
        BY <1>6, <4>2 DEF Heard
      <4>. QED  BY <1>1, <1>3, <2>3, <3>2, <4>1, <4>3 DEF Open
    <3>. QED  BY <3>1, <3>2
  <2>4. ASSUME NEW i \in 1..n, st.waiters[i].src = key, ~acc.threw
        PROVE  acc.answers[st.waiters[i].id] # None
    <3>1. i # n
      BY <1>1, <1>7, <2>4
    <3>. QED  BY <1>5, <2>4, <3>1 DEF Heard
  <2>5. Heard(st, new, key, n)
    BY <2>1, <2>2, <2>4 DEF Heard
  <2>6. InTurn(st, new, key, n)
    BY <2>1, <2>3 DEF InTurn
  <2>. QED  BY <1>1, <1>2, <2>5, <2>6
<1>8. CASE w.src = key /\ ~acc.threw
  <2>1. new = Process(acc, w.id, key, w.dst)
    BY <1>2, <1>8 DEF Call
  <2>2. OneMove(acc, new, w.id, key, w.dst)
    BY <1>3, <1>6, <1>8, <2>1, ProcessEffect
  <2>3. new \in Orderly /\ new.waiters = st.waiters
    BY <1>3, <2>2 DEF OneMove, Orderly
  <2>4. \A i \in 1..Len(st.waiters) : st.waiters[i].id = w.id => i = n
    BY <1>1, <1>3 DEF Orderly, DistinctIds
  <2>5. Deaf(st.waiters, n - 1, key, w.id)
    BY <1>4, <1>5, <2>4 DEF Deaf
  <2>6. acc.answers[w.id] = st.answers[w.id] /\ acc.moves[w.id] = st.moves[w.id]
    BY <1>6, <2>5 DEF Heard
  <2>7. ~st.threw
    BY <1>8 DEF Heard
  <2>8. ASSUME NEW r \in Requests, Deaf(st.waiters, n, key, r)
        PROVE  new.answers[r] = st.answers[r] /\ new.moves[r] = st.moves[r]
    <3>1. r # w.id
      BY <1>1, <1>5, <1>8, <2>8 DEF Deaf
    <3>2. Deaf(st.waiters, n - 1, key, r)
      BY <1>5, <2>8 DEF Deaf
    <3>. QED  BY <2>2, <3>1, <3>2 DEF Heard, OneMove
  <2>9. ASSUME NEW r \in Requests
        PROVE  new.moves[r] \in st.moves[r]..(st.moves[r] + 1)
    <3>1. CASE r = w.id
      BY <2>2, <2>6, <3>1 DEF OneMove
    <3>2. CASE r # w.id
      BY <2>2, <3>2 DEF OneMove, Heard
    <3>. QED  BY <3>1, <3>2
  <2>10. ASSUME NEW r \in Requests, st.answers[r] # None
         PROVE  new.answers[r] = st.answers[r]
    BY <2>2, <2>10 DEF Heard, OneMove
  <2>11. ASSUME NEW i \in 1..n, st.waiters[i].src = key, ~new.threw
         PROVE  new.answers[st.waiters[i].id] # None
    <3>1. ~Throws(acc, key, w.dst)
      BY <2>2, <2>11 DEF OneMove
    <3>2. CASE i = n
      BY <1>1, <2>2, <3>1, <3>2 DEF OneMove
    <3>3. CASE i # n
      <4>1. i \in 1..(n - 1)
        BY <1>5, <3>3
      <4>2. acc.answers[st.waiters[i].id] # None
        BY <1>8, <2>11, <4>1 DEF Heard
      <4>3. st.waiters[i].id \in Requests
        BY <1>3, <1>4, <1>5, ListenersAreTyped
      <4>. QED  BY <2>2, <4>2, <4>3 DEF OneMove
    <3>. QED  BY <3>2, <3>3
  <2>12. Rearranged(st.lists, new.lists)
    BY <2>2, RearrangedTwice DEF Heard, OneMove
  <2>13. Heard(st, new, key, n)
    BY <2>3, <2>7, <2>8, <2>9, <2>10, <2>11, <2>12 DEF Heard
  <2>. DEFINE Id(i) == st.waiters[i].id
  <2>14. \A i \in 1..Len(st.waiters) : i # n => Id(i) # w.id /\ Id(i) \in Requests
    BY <1>3, <2>4, ListenersAreTyped
  <2>15. \A i \in 1..Len(st.waiters) : i # n =>
           new.answers[Id(i)] = acc.answers[Id(i)]
    BY <2>2, <2>14 DEF OneMove
  <2>16. ASSUME NEW i \in 1..Len(st.waiters), NEW j \in 1..Len(st.waiters),
                i < j, Open(st, i, key), Open(st, j, key), Served(new, j)
         PROVE  Served(new, i)
    <3>1. CASE j # n /\ i # n
      <4>1. Served(acc, j)
        BY <1>3, <2>3, <2>15, <2>16, <3>1 DEF Served
      <4>2. Served(acc, i)
        BY <2>16, <4>1 DEF InTurn
      <4>. QED  BY <1>3, <2>3, <2>15, <3>1, <4>2 DEF Served
    <3>2. CASE i = n
      <4>1. Deaf(st.waiters, n - 1, key, Id(j))
        BY <1>3, <1>4, <1>5, <2>16, <3>2 DEF Deaf, Orderly, DistinctIds
      <4>2. acc.answers[Id(j)] = None
        BY <1>4, <2>14, <2>16, <3>2, <4>1 DEF Heard, Open
      <4>3. new.answers[Id(j)] = None
        BY <1>4, <2>15, <2>16, <3>2, <4>2
      <4>. QED  BY <2>3, <2>16, <4>3, AnswerAssumption DEF Served
    <3>3. CASE j = n
      <4>1. i \in 1..(n - 1) /\ i # n
        BY <1>4, <2>16, <3>3
      <4>2. acc.answers[Id(i)] # None
        BY <1>8, <2>16, <4>1 DEF Heard, Open
      <4>3. ~Throws(acc, key, w.dst) /\ acc.lists[key] # <<>>
        <5>1. acc.answers[w.id] = None
          BY <1>1, <2>6, <2>16, <3>3 DEF Open
        <5>2. new.answers[w.id] \in Elements
          BY <1>1, <2>3, <2>16, <3>3 DEF Served
        <5>3. new.answers # acc.answers
          BY <5>1, <5>2, AnswerAssumption
        <5>. HIDE DEF Id
        <5>4. ~Throws(acc, key, w.dst)
          BY <2>2, <5>3 DEF OneMove
        <5>5. acc.lists[key] = <<>> => new.answers[w.id] = Nil
          BY <2>2, <5>1, <5>4 DEF OneMove
        <5>. QED  BY <5>2, <5>4, <5>5, AnswerAssumption
      <4>4. Served(acc, i)
        BY <1>3, <2>16, <4>1, <4>2, <4>3 DEF InTurn
      <4>. QED  BY <1>3, <2>3, <2>15, <4>1, <4>4 DEF Served
    <3>. QED  BY <3>1, <3>2, <3>3
  <2>17. acc.lists[key] = <<>> => new.lists[key] = <<>>
    BY <2>2 DEF OneMove
  <2>18. ASSUME NEW i \in 1..n, Open(st, i, key), ~Served(new, i), new.answers[new.waiters[i].id] # None
         PROVE  new.lists[key] = <<>>
    <3>1. CASE i = n
      <4>1. acc.answers[w.id] = None
        BY <1>1, <2>6, <2>18, <3>1 DEF Open
      <4>2. new.answers[w.id] # None /\ new.answers[w.id] \notin Elements
        BY <1>1, <2>3, <2>18, <3>1 DEF Served
      <4>3. new.answers # acc.answers
        BY <4>1, <4>2
      <4>4. ~Throws(acc, key, w.dst)
        BY <2>2, <4>3 DEF OneMove
      <4>5. acc.lists[key] = <<>>
        BY <2>2, <4>1, <4>2, <4>4 DEF OneMove
      <4>. QED  BY <2>17, <4>5
    <3>2. CASE i # n
      <4>1. i \in 1..(n - 1)
        BY <1>5, <3>2
      <4>2. ~Served(acc, i) /\ acc.answers[acc.waiters[i].id] # None
        BY <1>3, <1>4, <1>5, <2>3, <2>15, <2>18, <3>2 DEF Served
      <4>3. acc.lists[key] = <<>>
        BY <2>18, <4>1, <4>2 DEF InTurn
      <4>. QED  BY <2>17, <4>3
    <3>. QED  BY <3>1, <3>2
  <2>19. InTurn(st, new, key, n)
    BY <2>16, <2>18 DEF InTurn
  <2>. QED  BY <1>1, <1>2, <2>13, <2>19
<1>. QED  BY <1>7, <1>8

(* All listeners of an event.                                              *)
IsCalls(f, st, key, n) ==
  f = [i \in 0..n |-> IF i = 0 THEN st ELSE Call(f[i - 1], st.waiters[i], key)]

LEMMA CallsExist ==
  ASSUME NEW st \in Orderly, NEW key \in Keys, NEW n \in Nat, n = Len(st.waiters)
  PROVE  \E f : IsCalls(f, st, key, n)
<1>1. PICK g : g = [p \in Orderly \X (1..n) |-> Call(p[1], st.waiters[p[2]], key)]
  OBVIOUS
<1>2. ASSUME NEW a \in Orderly, NEW i \in 1..n
      PROVE  Call(a, st.waiters[i], key) \in Orderly
  BY CallIsTyped DEF Orderly
<1>3. g \in [Orderly \X (1..n) -> Orderly]
  <2>1. \A p \in Orderly \X (1..n) : p[1] \in Orderly /\ p[2] \in 1..n
    OBVIOUS
  <2>2. \A p \in Orderly \X (1..n) : Call(p[1], st.waiters[p[2]], key) \in Orderly
    BY <1>2, <2>1
  <2>. QED  BY <1>1, <2>2
<1>4. PICK f : IsIteration(f, Orderly, st, n, g)
  BY <1>3, IterationExists
<1>5. ASSUME NEW i \in 0..n
      PROVE  f[i] = IF i = 0 THEN st ELSE Call(f[i - 1], st.waiters[i], key)
  <2>1. CASE i = 0
    BY <1>4, <2>1 DEF IsIteration
  <2>2. CASE i # 0
    <3>1. i \in 1..n /\ f[i - 1] \in Orderly
      BY <1>4, <2>2 DEF IsIteration
    <3>2. g[<<f[i - 1], i>>] = Call(f[i - 1], st.waiters[i], key)
      BY <1>1, <3>1
    <3>. QED  BY <1>4, <2>2, <3>2 DEF IsIteration
  <2>. QED  BY <2>1, <2>2
<1>6. f = [i \in 0..n |-> IF i = 0 THEN st ELSE Call(f[i - 1], st.waiters[i], key)]
  BY <1>4, <1>5 DEF IsIteration
<1>. QED  BY <1>6 DEF IsCalls

LEMMA EmitIsHeard ==
  ASSUME NEW st \in Orderly, NEW key \in Keys
  PROVE  /\ Heard(st, Emit(st, key), key, Len(st.waiters))
         /\ InTurn(st, Emit(st, key), key, Len(st.waiters))
<1>1. PICK n \in Nat : n = Len(st.waiters)
  BY LenProperties DEF Orderly, States
<1>2. PICK f : f = CHOOSE h : IsCalls(h, st, key, n)
  OBVIOUS
<1>3. IsCalls(f, st, key, n)
  BY <1>1, <1>2, CallsExist
<1>4. Emit(st, key) = f[n]
  BY <1>1, <1>2 DEF Emit, IsCalls
<1>5. \A i \in 0..n : f[i] = IF i = 0 THEN st ELSE Call(f[i - 1], st.waiters[i], key)
  BY <1>3 DEF IsCalls
<1>6. PICK G : G = {i \in 0..n : Heard(st, f[i], key, i) /\ InTurn(st, f[i], key, i)}
  OBVIOUS
<1>7. 0 \in G
  BY <1>5, <1>6, HeardByNobody
<1>8. ASSUME NEW i \in 1..n, i - 1 \in G
      PROVE  i \in G
  <2>1. f[i] = Call(f[i - 1], st.waiters[i], key)
    BY <1>5
  <2>2. Heard(st, f[i - 1], key, i - 1) /\ InTurn(st, f[i - 1], key, i - 1)
    BY <1>6, <1>8
  <2>3. Heard(st, f[i], key, i) /\ InTurn(st, f[i], key, i)
    BY <1>1, <2>1, <2>2, HeardByOneMore
  <2>. QED  BY <1>6, <2>3
<1>9. n \in G
  BY <1>7, <1>8, Reach
<1>. QED  BY <1>1, <1>4, <1>6, <1>9

(***************************************************************************)
(* All events of a push.                                                   *)
(***************************************************************************)
NoListener(q, key, r) == Deaf(q, Len(q), key, r)

(* After m events: whoever is not a listener is where it was, the others   *)
(* are answered, in their order, unless one of them throws.                *)
Told(st, acc, key, m) ==
  /\ acc \in Orderly /\ acc.waiters = st.waiters
  /\ Rearranged(st.lists, acc.lists)
  /\ \A r \in Requests : st.answers[r] # None => acc.answers[r] = st.answers[r]
  /\ \A r \in Requests : NoListener(st.waiters, key, r) =>
       acc.answers[r] = st.answers[r] /\ acc.moves[r] = st.moves[r]
  /\ \A r \in Requests : acc.moves[r] \in st.moves[r]..(st.moves[r] + m)
  /\ m = 0 => acc = st
  /\ m # 0 => /\ \A i \in 1..Len(st.waiters) :
                   st.waiters[i].src = key /\ ~acc.threw => acc.answers[st.waiters[i].id] # None
              /\ \A i, j \in 1..Len(st.waiters) :
                   i < j /\ Open(st, i, key) /\ Open(st, j, key) /\ Served(acc, j) => Served(acc, i)

LEMMA ToldNothing ==
  ASSUME NEW st \in Orderly, NEW key
  PROVE  Told(st, st, key, 0)
<1>1. \A r \in Requests : st.moves[r] \in Nat
  BY DEF Orderly, States
<1>. QED  BY <1>1 DEF Told, Rearranged

LEMMA ToldOnceMore ==
  ASSUME NEW st \in Orderly, NEW acc, NEW key \in Keys, NEW m \in Nat \ {0},
         Told(st, acc, key, m - 1)
  PROVE  Told(st, Emit(acc, key), key, m)
<1>1. PICK new : new = Emit(acc, key)
  OBVIOUS
<1>2. PICK n \in Nat : n = Len(st.waiters)
  BY LenProperties DEF Orderly, States
<1>3. acc \in Orderly /\ acc.waiters = st.waiters
  BY DEF Told
<1>4. Heard(acc, new, key, n) /\ InTurn(acc, new, key, n)
  BY <1>1, <1>2, <1>3, EmitIsHeard
<1>5. new \in Orderly /\ new.waiters = st.waiters
  BY <1>3, <1>4 DEF Heard
<1>6. Rearranged(st.lists, new.lists)
  BY <1>4, RearrangedTwice DEF Heard, Told
<1>7. ASSUME NEW r \in Requests, st.answers[r] # None
      PROVE  new.answers[r] = st.answers[r]
  BY <1>4, <1>7 DEF Heard, Told
<1>8. ASSUME NEW r \in Requests, NoListener(st.waiters, key, r)
      PROVE  new.answers[r] = st.answers[r] /\ new.moves[r] = st.moves[r]
  <2>1. Deaf(acc.waiters, n, key, r)
    BY <1>2, <1>3, <1>8 DEF NoListener
  <2>. QED  BY <1>4, <1>8, <2>1 DEF Heard, Told
<1>9. ASSUME NEW r \in Requests
      PROVE  new.moves[r] \in st.moves[r]..(st.moves[r] + m)
  <2>1. st.moves[r] \in Nat /\ acc.moves[r] \in st.moves[r]..(st.moves[r] + (m - 1))
    BY DEF Told, Orderly, States
  <2>2. new.moves[r] \in acc.moves[r]..(acc.moves[r] + 1)
    BY <1>4 DEF Heard
  <2>. QED  BY <2>1, <2>2
<1>10. ASSUME NEW i \in 1..n, st.waiters[i].src = key, ~new.threw
       PROVE  new.answers[st.waiters[i].id] # None
  BY <1>3, <1>4, <1>10 DEF Heard
<1>11. ASSUME NEW i \in 1..n, NEW j \in 1..n, i < j,
              Open(st, i, key), Open(st, j, key), Served(new, j)
       PROVE  Served(new, i)
  <2>1. st.waiters[i].id \in Requests /\ st.waiters[j].id \in Requests
    BY <1>2, ListenersAreTyped DEF Orderly
  <2>2. CASE m - 1 = 0
    <3>1. acc = st
      BY <2>2 DEF Told
    <3>. QED  BY <1>2, <1>4, <1>11, <3>1 DEF InTurn
  <2>3. CASE m - 1 # 0 /\ acc.threw
    <3>1. new = acc
      BY <1>4, <2>3 DEF Heard
    <3>. QED  BY <1>2, <1>11, <2>3, <3>1 DEF Told
  <2>4. CASE m - 1 # 0 /\ ~acc.threw
    <3>1. /\ acc.answers[st.waiters[i].id] # None
          /\ acc.answers[st.waiters[j].id] # None
      BY <1>2, <1>11, <2>4 DEF Told, Open
    <3>2. /\ new.answers[st.waiters[i].id] = acc.answers[st.waiters[i].id]
          /\ new.answers[st.waiters[j].id] = acc.answers[st.waiters[j].id]
      BY <1>4, <2>1, <3>1 DEF Heard
    <3>3. Served(acc, j)
      BY <1>3, <1>5, <1>11, <3>2 DEF Served
    <3>4. Served(acc, i)
      BY <1>2, <1>11, <2>4, <3>3 DEF Told
    <3>. QED  BY <1>3, <1>5, <3>2, <3>4 DEF Served
  <2>. QED  BY <2>2, <2>3, <2>4
<1>. QED  BY <1>1, <1>2, <1>5, <1>6, <1>7, <1>8, <1>9, <1>10, <1>11 DEF Told

IsTold(f, base, key, m) ==
  f = [i \in 0..m |-> IF i = 0 THEN base ELSE Emit(f[i - 1], key)]

LEMMA ToldExists ==
  ASSUME NEW base \in Orderly, NEW key \in Keys, NEW m \in Nat
  PROVE  \E f : IsTold(f, base, key, m)
<1>1. PICK g : g = [p \in Orderly \X (1..m) |-> Emit(p[1], key)]
  OBVIOUS
<1>2. ASSUME NEW a \in Orderly
      PROVE  Emit(a, key) \in Orderly
  BY EmitIsHeard DEF Heard
<1>3. g \in [Orderly \X (1..m) -> Orderly]
  <2>1. \A p \in Orderly \X (1..m) : p[1] \in Orderly /\ p[2] \in 1..m
    OBVIOUS
  <2>2. \A p \in Orderly \X (1..m) : Emit(p[1], key) \in Orderly
    BY <1>2, <2>1
  <2>. QED  BY <1>1, <2>2
<1>4. PICK f : IsIteration(f, Orderly, base, m, g)
  BY <1>3, IterationExists
<1>5. ASSUME NEW i \in 0..m
      PROVE  f[i] = IF i = 0 THEN base ELSE Emit(f[i - 1], key)
  <2>1. CASE i = 0
    BY <1>4, <2>1 DEF IsIteration
  <2>2. CASE i # 0
    <3>1. i \in 1..m /\ f[i - 1] \in Orderly
      BY <1>4, <2>2 DEF IsIteration
    <3>2. g[<<f[i - 1], i>>] = Emit(f[i - 1], key)
      BY <1>1, <3>1
    <3>. QED  BY <1>4, <2>2, <3>2 DEF IsIteration
  <2>. QED  BY <2>1, <2>2
<1>6. f = [i \in 0..m |-> IF i = 0 THEN base ELSE Emit(f[i - 1], key)]
  BY <1>4, <1>5 DEF IsIteration
<1>. QED  BY <1>6 DEF IsTold

LEMMA PushIsTold ==
  ASSUME NEW st, NEW key \in Keys, NEW q \in Seq(Elements), NEW side,
         Stored(st, key, q, side) \in Orderly
  PROVE  Told(Stored(st, key, q, side), Push(st, key, q, side), key, Len(q))
<1>1. PICK m \in Nat : m = Len(q)
  OBVIOUS
<1>2. PICK base : base = Stored(st, key, q, side)
  OBVIOUS
<1>3. PICK f : f = CHOOSE h : IsTold(h, base, key, m)
  OBVIOUS
<1>4. IsTold(f, base, key, m)
  BY <1>2, <1>3, ToldExists
<1>5. Push(st, key, q, side) = f[m]
  BY <1>1, <1>2, <1>3 DEF Push, IsTold
<1>6. \A i \in 0..m : f[i] = IF i = 0 THEN base ELSE Emit(f[i - 1], key)
  BY <1>4 DEF IsTold
<1>7. PICK G : G = {i \in 0..m : Told(base, f[i], key, i)}
  OBVIOUS
<1>8. 0 \in G
  BY <1>2, <1>6, <1>7, ToldNothing
<1>9. ASSUME NEW i \in 1..m, i - 1 \in G
      PROVE  i \in G
  <2>1. f[i] = Emit(f[i - 1], key)
    BY <1>6
  <2>2. Told(base, f[i - 1], key, i - 1)
    BY <1>7, <1>9
  <2>3. Told(base, f[i], key, i)
    BY <1>2, <2>1, <2>2, ToldOnceMore
  <2>. QED  BY <1>7, <2>3
<1>10. m \in G
  <2>1. \A i \in 0..m : i \in G
    BY <1>8, <1>9, Reach
  <2>. QED  BY <2>1
<1>. QED  BY <1>1, <1>2, <1>5, <1>7, <1>10

(***************************************************************************)
(* The invariant.                                                          *)
(***************************************************************************)

(* An element is in a list if and only if it was pushed and is not gone.   *)
Located == \A e \in Elements : Placed(lists, e) <=> e <= pushed /\ e \notin gone

GoneWerePushed == \A e \in gone : e <= pushed

(* Waiters are requests of their own, whose timer has not fired.           *)
WaitersAreAsked ==
  /\ DistinctIds(waiters)
  /\ \A i \in 1..Len(waiters) : waiters[i].id <= asked /\ waiters[i].id \notin fired

RequestsAreNew ==
  \A r \in Requests : r > asked => answers[r] = None /\ moves[r] = 0 /\ r \notin fired

(* There are no more moves for a request than there were events.           *)
MovesAreEvents == \A r \in Requests : moves[r] <= pushed

Inv ==
  /\ TypeOK /\ Single(lists) /\ Located /\ GoneWerePushed
  /\ WaitersHearOfElements /\ WaitersAreAsked /\ RequestsAreNew /\ MovesAreEvents

LEMMA StateIsOrderly ==
  ASSUME Inv
  PROVE  /\ State \in Orderly /\ State.lists = lists /\ State.waiters = waiters
         /\ State.answers = answers /\ State.moves = moves /\ ~State.threw
<1>1. MaxElements \in Nat
  BY BoundsAssumption
<1>2. moves \in [Requests -> Nat]
  BY <1>1 DEF Inv, TypeOK
<1>3. /\ lists \in [Keys -> Seq(Elements)] /\ waiters \in Seq(Waiters)
      /\ answers \in [Requests -> Answers] /\ DistinctIds(waiters)
  BY DEF Inv, TypeOK, WaitersAreAsked, Answers
<1>. QED  BY <1>2, <1>3 DEF State, States, Orderly

(***************************************************************************)
(* What the commands do to the places of the elements.                     *)
(***************************************************************************)

(* The lists of ls with more behind or before what key holds.              *)
Gains(ls, new, key, len, n, base, side) ==
  /\ new \in [Keys -> Seq(Elements)]
  /\ \A k \in Keys \ {key} : new[k] = ls[k]
  /\ Len(new[key]) = len + n
  /\ side = "left" => /\ \A i \in 1..n : new[key][i] = base + ((n + 1) - i)
                      /\ \A i \in (n + 1)..(len + n) : new[key][i] = ls[key][i - n]
  /\ side # "left" => /\ \A i \in 1..len : new[key][i] = ls[key][i]
                      /\ \A i \in (len + 1)..(len + n) : new[key][i] = base + (i - len)

LEMMA StoredGains ==
  ASSUME NEW st \in States, NEW key \in Keys, NEW n \in Nat, NEW side, pushed \in Nat,
         pushed + n <= MaxElements
  PROVE  LET new == Stored(st, key, NextElements(n), side) IN
         /\ new \in States /\ new.waiters = st.waiters /\ new.answers = st.answers
         /\ new.moves = st.moves /\ new.threw = st.threw
         /\ Gains(st.lists, new.lists, key, Len(st.lists[key]), n, pushed, side)
         /\ NextElements(n) \in Seq(Elements) /\ Len(NextElements(n)) = n
<1>1. PICK q : q = NextElements(n)
  OBVIOUS
<1>2. MaxElements \in Nat
  BY BoundsAssumption
<1>3. q = [i \in 1..n |-> pushed + i]
  BY <1>1 DEF NextElements
<1>4. q \in [1..n -> Elements]
  BY <1>2, <1>3 DEF Elements
<1>5. q \in Seq(Elements) /\ Len(q) = n
  BY <1>4
<1>6. PICK r : r = Reverse(q)
  OBVIOUS
<1>7. r = [i \in 1..n |-> q[(n - i) + 1]]
  BY <1>5, <1>6 DEF Reverse
<1>8. \A i \in 1..n : r[i] = pushed + ((n + 1) - i) /\ r[i] \in Elements
  <2>1. \A i \in 1..n : (n - i) + 1 \in 1..n
    OBVIOUS
  <2>2. \A i \in 1..n : r[i] = q[(n - i) + 1]
    BY <1>7
  <2>3. \A i \in 1..n : q[i] = pushed + i /\ q[i] \in Elements
    BY <1>3, <1>4
  <2>. QED  BY <2>1, <2>2, <2>3
<1>9. r \in Seq(Elements) /\ Len(r) = n
  <2>1. r \in [1..n -> Elements]
    BY <1>7, <1>8
  <2>. QED  BY <2>1
<1>10. PICK list : list = st.lists[key]
  OBVIOUS
<1>11. list \in Seq(Elements) /\ st.lists \in [Keys -> Seq(Elements)]
  BY <1>10 DEF States
<1>12. PICK len \in Nat : len = Len(list)
  BY <1>11
<1>13. PICK joined : joined = IF side = "left" THEN r \o list ELSE list \o q
  OBVIOUS
<1>14. /\ joined \in Seq(Elements) /\ Len(joined) = len + n
       /\ side = "left" => /\ \A i \in 1..n : joined[i] = pushed + ((n + 1) - i)
                           /\ \A i \in (n + 1)..(len + n) : joined[i] = list[i - n]
       /\ side # "left" => /\ \A i \in 1..len : joined[i] = list[i]
                           /\ \A i \in (len + 1)..(len + n) : joined[i] = pushed + (i - len)
  <2>1. CASE side = "left"
    <3>1. /\ joined \in Seq(Elements) /\ Len(joined) = n + len
          /\ \A i \in 1..(n + len) : joined[i] = IF i <= n THEN r[i] ELSE list[i - n]
      BY <1>9, <1>11, <1>12, <1>13, <2>1, ConcatProperties
    <3>. QED  BY <1>8, <2>1, <3>1
  <2>2. CASE side # "left"
    <3>1. /\ joined \in Seq(Elements) /\ Len(joined) = len + n
          /\ \A i \in 1..(len + n) : joined[i] = IF i <= len THEN list[i] ELSE q[i - len]
      BY <1>5, <1>11, <1>12, <1>13, <2>2, ConcatProperties
    <3>2. \A i \in (len + 1)..(len + n) : i - len \in 1..n
      OBVIOUS
    <3>3. \A i \in 1..n : q[i] = pushed + i
      BY <1>3
    <3>4. \A i \in 1..len : joined[i] = list[i]
      BY <3>1
    <3>5. \A i \in (len + 1)..(len + n) : joined[i] = pushed + (i - len)
      <4>1. \A i \in (len + 1)..(len + n) : joined[i] = q[i - len]
        BY <3>1
      <4>. QED  BY <3>2, <3>3, <4>1
    <3>. QED  BY <2>2, <3>1, <3>4, <3>5
  <2>. QED  BY <2>1, <2>2
<1>15. PICK new : new = Stored(st, key, q, side)
  OBVIOUS
<1>16. new = [st EXCEPT !.lists = [st.lists EXCEPT ![key] = joined]]
  BY <1>6, <1>10, <1>13, <1>15 DEF Stored, States
<1>17. /\ new \in States /\ new.waiters = st.waiters /\ new.answers = st.answers
       /\ new.moves = st.moves /\ new.threw = st.threw
       /\ new.lists = [st.lists EXCEPT ![key] = joined]
  BY <1>11, <1>14, <1>16 DEF States
<1>18. /\ new.lists \in [Keys -> Seq(Elements)] /\ new.lists[key] = joined
       /\ \A k \in Keys \ {key} : new.lists[k] = st.lists[k]
  BY <1>11, <1>14, <1>17
<1>19. Gains(st.lists, new.lists, key, len, n, pushed, side)
  BY <1>10, <1>14, <1>18 DEF Gains
<1>. QED  BY <1>1, <1>5, <1>10, <1>12, <1>15, <1>17, <1>19

(* Whether place i of key is new, and where it was if not.                 *)
IsNew(i, len, n, side) == IF side = "left" THEN i <= n ELSE i > len
OldPlace(i, n, side) == IF side = "left" THEN i - n ELSE i

LEMMA GainsPlaces ==
  ASSUME NEW ls \in [Keys -> Seq(Elements)], NEW new, NEW key \in Keys, NEW n \in Nat,
         NEW base \in Nat, NEW side,
         Gains(ls, new, key, Len(ls[key]), n, base, side), Single(ls),
         \A e : Placed(ls, e) => e \in Nat /\ e <= base
  PROVE  /\ Single(new)
         /\ \A e : Placed(new, e) <=> Placed(ls, e) \/ e \in (base + 1)..(base + n)
<1>1. PICK len \in Nat : len = Len(ls[key])
  OBVIOUS
<1>2. /\ \A k \in Keys \ {key} : new[k] = ls[k]
      /\ Len(new[key]) = len + n
      /\ side = "left" => /\ \A i \in 1..n : new[key][i] = base + ((n + 1) - i)
                          /\ \A i \in (n + 1)..(len + n) : new[key][i] = ls[key][i - n]
      /\ side # "left" => /\ \A i \in 1..len : new[key][i] = ls[key][i]
                          /\ \A i \in (len + 1)..(len + n) : new[key][i] = base + (i - len)
  BY <1>1 DEF Gains
<1>3. \A k \in Keys : \A i \in 1..Len(ls[k]) : ls[k][i] \in Nat /\ ls[k][i] <= base
  BY DEF Placed
<1>4. ASSUME NEW i \in 1..(len + n), IsNew(i, len, n, side)
      PROVE  /\ new[key][i] \in (base + 1)..(base + n)
             /\ \A j \in 1..(len + n) : IsNew(j, len, n, side) /\ new[key][j] = new[key][i] => i = j
  <2>1. CASE side = "left"
    BY <1>2, <1>4, <2>1 DEF IsNew
  <2>2. CASE side # "left"
    BY <1>2, <1>4, <2>2 DEF IsNew
  <2>. QED  BY <2>1, <2>2
<1>5. ASSUME NEW i \in 1..(len + n), ~IsNew(i, len, n, side)
      PROVE  OldPlace(i, n, side) \in 1..len /\ new[key][i] = ls[key][OldPlace(i, n, side)]
  <2>1. CASE side = "left"
    BY <1>2, <1>5, <2>1 DEF IsNew, OldPlace
  <2>2. CASE side # "left"
    BY <1>2, <1>5, <2>2 DEF IsNew, OldPlace
  <2>. QED  BY <2>1, <2>2
<1>6. ASSUME NEW j \in 1..len
      PROVE  \E i \in 1..(len + n) : new[key][i] = ls[key][j]
  <2>1. CASE side = "left"
    <3>1. j + n \in (n + 1)..(len + n) /\ (j + n) - n = j
      OBVIOUS
    <3>2. new[key][j + n] = ls[key][(j + n) - n]
      BY <1>2, <2>1, <3>1
    <3>3. j + n \in 1..(len + n)
      OBVIOUS
    <3>. QED  BY <3>1, <3>2, <3>3
  <2>2. CASE side # "left"
    BY <1>2, <2>2
  <2>. QED  BY <2>1, <2>2
<1>7. ASSUME NEW e \in (base + 1)..(base + n)
      PROVE  \E i \in 1..(len + n) : new[key][i] = e
  <2>1. CASE side = "left"
    <3>1. PICK i \in 1..n : i = (n + 1) - (e - base)
      OBVIOUS
    <3>2. new[key][i] = base + ((n + 1) - i) /\ base + ((n + 1) - i) = e /\ i \in 1..(len + n)
      BY <1>2, <2>1, <3>1
    <3>. QED  BY <3>2
  <2>2. CASE side # "left"
    <3>1. PICK i \in (len + 1)..(len + n) : i = len + (e - base)
      OBVIOUS
    <3>2. new[key][i] = base + (i - len) /\ base + (i - len) = e /\ i \in 1..(len + n)
      BY <1>2, <2>2, <3>1
    <3>. QED  BY <3>2
  <2>. QED  BY <2>1, <2>2
<1>8. ASSUME NEW k \in Keys, NEW l \in Keys, NEW i \in 1..Len(new[k]), NEW j \in 1..Len(new[l]),
             new[k][i] = new[l][j]
      PROVE  k = l /\ i = j
  <2>0. \A a, b \in Keys : \A x \in 1..Len(ls[a]), y \in 1..Len(ls[b]) :
          ls[a][x] = ls[b][y] => a = b /\ x = y
    BY DEF Single
  <2>1. CASE k # key /\ l # key
    <3>1. new[k] = ls[k] /\ new[l] = ls[l]
      BY <1>2, <2>1
    <3>. QED  BY <1>8, <2>0, <3>1
  <2>2. CASE k = key /\ l # key
    <3>1. new[l] = ls[l] /\ i \in 1..(len + n)
      BY <1>2, <2>2
    <3>2. new[l][j] \in Nat /\ new[l][j] <= base
      BY <1>3, <3>1
    <3>3. ~IsNew(i, len, n, side)
      BY <1>4, <1>8, <2>2, <3>1, <3>2
    <3>4. OldPlace(i, n, side) \in 1..Len(ls[key]) /\ ls[key][OldPlace(i, n, side)] = ls[l][j]
      BY <1>1, <1>5, <1>8, <2>2, <3>1, <3>3
    <3>. QED  BY <2>0, <2>2, <3>1, <3>4
  <2>3. CASE k # key /\ l = key
    <3>1. new[k] = ls[k] /\ j \in 1..(len + n)
      BY <1>2, <2>3
    <3>2. new[k][i] \in Nat /\ new[k][i] <= base
      BY <1>3, <3>1
    <3>3. ~IsNew(j, len, n, side)
      BY <1>4, <1>8, <2>3, <3>1, <3>2
    <3>4. OldPlace(j, n, side) \in 1..Len(ls[key]) /\ ls[key][OldPlace(j, n, side)] = ls[k][i]
      BY <1>1, <1>5, <1>8, <2>3, <3>1, <3>3
    <3>. QED  BY <2>0, <2>3, <3>1, <3>4
  <2>4. CASE k = key /\ l = key
    <3>1. i \in 1..(len + n) /\ j \in 1..(len + n) /\ new[key][i] = new[key][j]
      BY <1>2, <1>8, <2>4
    <3>2. CASE IsNew(i, len, n, side) /\ IsNew(j, len, n, side)
      BY <1>4, <2>4, <3>1, <3>2
    <3>3. CASE ~IsNew(i, len, n, side) /\ ~IsNew(j, len, n, side)
      <4>1. OldPlace(i, n, side) = OldPlace(j, n, side)
        <5>1. PICK x, y : x = OldPlace(i, n, side) /\ y = OldPlace(j, n, side)
          OBVIOUS
        <5>2. x \in 1..len /\ y \in 1..len /\ ls[key][x] = ls[key][y]
          BY <1>5, <3>1, <3>3, <5>1
        <5>3. \A v, w \in 1..len : ls[key][v] = ls[key][w] => v = w
          BY <1>1, <2>0
        <5>. QED  BY <5>1, <5>2, <5>3
      <4>. QED  BY <2>4, <3>1, <4>1 DEF OldPlace
    <3>4. \A x, y \in 1..(len + n) : IsNew(x, len, n, side) /\ ~IsNew(y, len, n, side)
            => new[key][x] # new[key][y]
      <4>. TAKE x, y \in 1..(len + n)
      <4>. HAVE IsNew(x, len, n, side) /\ ~IsNew(y, len, n, side)
      <4>1. new[key][x] \in (base + 1)..(base + n)
        BY <1>4
      <4>2. new[key][y] \in Nat /\ new[key][y] <= base
        BY <1>1, <1>3, <1>5
      <4>. QED  BY <4>1, <4>2
    <3>. QED  BY <3>1, <3>2, <3>3, <3>4
  <2>. QED  BY <2>1, <2>2, <2>3, <2>4
<1>9. ASSUME NEW e, Placed(new, e)
      PROVE  Placed(ls, e) \/ e \in (base + 1)..(base + n)
  <2>1. PICK k \in Keys : \E i \in 1..Len(new[k]) : new[k][i] = e
    BY <1>9 DEF Placed
  <2>2. PICK i \in 1..Len(new[k]) : new[k][i] = e
    BY <2>1
  <2>3. CASE k # key
    BY <1>2, <2>2, <2>3 DEF Placed
  <2>4. CASE k = key
    <3>1. i \in 1..(len + n)
      BY <1>2, <2>4
    <3>. QED  BY <1>1, <1>4, <1>5, <2>2, <2>4, <3>1 DEF Placed
  <2>. QED  BY <2>3, <2>4
<1>10. ASSUME NEW e, Placed(ls, e) \/ e \in (base + 1)..(base + n)
       PROVE  Placed(new, e)
  <2>1. CASE e \in (base + 1)..(base + n)
    BY <1>2, <1>7, <2>1 DEF Placed
  <2>2. CASE Placed(ls, e)
    <3>1. PICK l \in Keys : \E j \in 1..Len(ls[l]) : ls[l][j] = e
      BY <2>2 DEF Placed
    <3>2. PICK j \in 1..Len(ls[l]) : ls[l][j] = e
      BY <3>1
    <3>3. CASE l # key
      BY <1>2, <3>2, <3>3 DEF Placed
    <3>4. CASE l = key
      BY <1>1, <1>2, <1>6, <3>2, <3>4 DEF Placed
    <3>. QED  BY <3>3, <3>4
  <2>. QED  BY <1>10, <2>1, <2>2
<1>11. Single(new)
  BY <1>8 DEF Single
<1>. QED  BY <1>9, <1>10, <1>11

LEMMA NumbersAreNumbers ==
  ASSUME Inv
  PROVE  /\ MaxElements \in Nat /\ pushed \in Nat /\ pushed <= MaxElements
         /\ MaxBlocking \in Nat /\ asked \in Nat /\ asked <= MaxBlocking
         /\ \A r \in Requests : moves[r] \in Nat /\ moves[r] <= pushed
         /\ \A e : Placed(lists, e) => e \in Elements /\ e \in Nat /\ e <= pushed
         /\ Len(waiters) \in Nat
<1>1. MaxElements \in Nat /\ MaxBlocking \in Nat
  BY BoundsAssumption
<1>2. \A e : Placed(lists, e) => e \in Elements
  BY ElementOfSeq DEF Inv, TypeOK, Placed
<1>3. \A e \in Elements : e \in Nat /\ (Placed(lists, e) => e <= pushed)
  BY <1>1 DEF Inv, Located, Elements
<1>4. Len(waiters) \in Nat
  BY DEF Inv, TypeOK
<1>5. /\ pushed \in Nat /\ pushed <= MaxElements /\ asked \in Nat /\ asked <= MaxBlocking
      /\ \A r \in Requests : moves[r] \in Nat /\ moves[r] <= pushed
  BY <1>1 DEF Inv, TypeOK, MovesAreEvents
<1>. QED  BY <1>1, <1>2, <1>3, <1>4, <1>5

LEMMA BecomeIsTyped ==
  ASSUME NEW st \in Orderly, Become(st), \A r \in Requests : st.moves[r] <= MaxElements
  PROVE  /\ lists' \in [Keys -> Seq(Elements)] /\ waiters' \in Seq(Waiters)
         /\ answers' \in [Requests -> Answers] /\ moves' \in [Requests -> 0..MaxElements]
         /\ DistinctIds(waiters')
<1>1. MaxElements \in Nat
  BY BoundsAssumption
<1>2. /\ lists' \in [Keys -> Seq(Elements)] /\ waiters' \in Seq(Waiters)
      /\ answers' \in [Requests -> Answers] /\ moves' \in [Requests -> Nat]
      /\ DistinctIds(waiters')
  BY DEF Become, Orderly, States
<1>3. \A r \in Requests : moves'[r] <= MaxElements
  BY DEF Become
<1>4. moves' \in [Requests -> 0..MaxElements]
  BY <1>1, <1>2, <1>3
<1>. QED  BY <1>2, <1>4

(***************************************************************************)
(* Pushes.                                                                 *)
(***************************************************************************)
PushState(key, n, side) == Push(State, key, NextElements(n), side)

(* What a push leaves, against what was there.                             *)
PushLeaves(st, key, n) ==
  /\ st \in Orderly /\ st.waiters = waiters
  /\ Single(st.lists)
  /\ \A e : Placed(st.lists, e) <=> Placed(lists, e) \/ e \in (pushed + 1)..(pushed + n)
  /\ \A r \in Requests : answers[r] # None => st.answers[r] = answers[r]
  /\ \A r \in Requests : NoListener(waiters, key, r) =>
       st.answers[r] = answers[r] /\ st.moves[r] = moves[r]
  /\ \A r \in Requests : st.moves[r] \in moves[r]..(moves[r] + n)
  /\ \A i \in 1..Len(waiters) :
       waiters[i].src = key /\ ~st.threw => st.answers[waiters[i].id] # None
  /\ \A i, j \in 1..Len(waiters) :
       i < j /\ Open(State, i, key) /\ Open(State, j, key) /\ Served(st, j) => Served(st, i)

LEMMA PushDoes ==
  ASSUME Inv, NEW key \in Keys, NEW n \in Nat \ {0}, NEW side, pushed + n <= MaxElements
  PROVE  PushLeaves(PushState(key, n, side), key, n)
<1>1. PICK st : st = PushState(key, n, side)
  OBVIOUS
<1>2. PICK base : base = Stored(State, key, NextElements(n), side)
  OBVIOUS
<1>3. /\ State \in Orderly /\ State \in States /\ State.lists = lists /\ State.waiters = waiters
      /\ State.answers = answers /\ State.moves = moves /\ ~State.threw
  BY StateIsOrderly DEF Orderly
<1>4. /\ base \in States /\ base.waiters = waiters /\ base.answers = answers
      /\ base.moves = moves /\ base.threw = State.threw
      /\ Gains(lists, base.lists, key, Len(lists[key]), n, pushed, side)
      /\ NextElements(n) \in Seq(Elements) /\ Len(NextElements(n)) = n
  BY <1>2, <1>3, StoredGains, NumbersAreNumbers
<1>5. base \in Orderly
  BY <1>3, <1>4 DEF Orderly
<1>6. Told(base, st, key, n)
  BY <1>1, <1>2, <1>4, <1>5, PushIsTold DEF PushState
<1>7. /\ Single(base.lists)
      /\ \A e : Placed(base.lists, e) <=> Placed(lists, e) \/ e \in (pushed + 1)..(pushed + n)
  <2>1. lists \in [Keys -> Seq(Elements)] /\ Single(lists) /\ pushed \in Nat
    BY NumbersAreNumbers DEF Inv, TypeOK
  <2>2. \A e : Placed(lists, e) => e \in Nat /\ e <= pushed
    BY NumbersAreNumbers
  <2>. QED  BY <1>4, <2>1, <2>2, GainsPlaces
<1>8. /\ Single(st.lists)
      /\ \A e : Placed(st.lists, e) <=> Placed(lists, e) \/ e \in (pushed + 1)..(pushed + n)
  BY <1>6, <1>7 DEF Told, Rearranged
<1>9. \A i : Open(State, i, key) <=> Open(base, i, key)
  BY <1>3, <1>4 DEF Open
<1>10. /\ st \in Orderly /\ st.waiters = waiters
       /\ \A r \in Requests : answers[r] # None => st.answers[r] = answers[r]
       /\ \A r \in Requests : NoListener(waiters, key, r) =>
            st.answers[r] = answers[r] /\ st.moves[r] = moves[r]
       /\ \A r \in Requests : st.moves[r] \in moves[r]..(moves[r] + n)
       /\ \A i \in 1..Len(waiters) :
            waiters[i].src = key /\ ~st.threw => st.answers[waiters[i].id] # None
       /\ \A i, j \in 1..Len(waiters) :
            i < j /\ Open(base, i, key) /\ Open(base, j, key) /\ Served(st, j) => Served(st, i)
  BY <1>4, <1>6 DEF Told
<1>. QED  BY <1>1, <1>8, <1>9, <1>10 DEF PushLeaves

(* A request that is not asked yet listens to nothing.                     *)
LEMMA NewAreDeaf ==
  ASSUME Inv, NEW r \in Requests, r > asked \/ r \in fired, NEW key
  PROVE  NoListener(waiters, key, r)
<1>1. r \in Nat /\ asked \in Nat
  BY NumbersAreNumbers DEF Requests
<1>2. \A i \in 1..Len(waiters) : waiters[i].id <= asked /\ waiters[i].id \notin fired
  BY DEF Inv, WaitersAreAsked
<1>3. \A i \in 1..Len(waiters) : waiters[i].id # r
  BY <1>1, <1>2
<1>. QED  BY <1>3 DEF NoListener, Deaf

LEMMA PushInv ==
  ASSUME Inv, NEW key \in Keys, NEW n \in BatchSizes, NEW side, PushCommand(key, n, side)
  PROVE  Inv'
<1>1. PICK st : st = PushState(key, n, side)
  OBVIOUS
<1>2. /\ Become(st) /\ pushed + n <= MaxElements /\ pushed' = pushed + n
      /\ unheard' = {k \in (IF st.threw THEN unheard \cup {key} ELSE unheard \ {key}) \cup
                            (MovedTo(st) \ {key}) : st.lists[k] # <<>>}
      /\ UNCHANGED <<strings, connected, asked, gone, fired>>
  BY <1>1 DEF PushCommand, PushState
<1>3. n \in Nat \ {0}
  BY BatchAssumption
<1>4. PushLeaves(st, key, n)
  BY <1>1, <1>2, <1>3, PushDoes
<1>5. /\ lists' = st.lists /\ waiters' = waiters /\ answers' = st.answers /\ moves' = st.moves
  BY <1>2, <1>4 DEF Become, PushLeaves
<1>6. \A r \in Requests : moves'[r] <= pushed'
  <2>1. \A r \in Requests : st.moves[r] \in moves[r]..(moves[r] + n)
    BY <1>4 DEF PushLeaves
  <2>. QED  BY <1>2, <1>3, <1>5, <2>1, NumbersAreNumbers
<1>7. TypeOK'
  <2>1. \A r \in Requests : st.moves[r] <= MaxElements
    <3>1. \A r \in Requests : st.moves[r] \in Nat
      BY <1>4 DEF PushLeaves, Orderly, States
    <3>. QED  BY <1>2, <1>3, <1>5, <1>6, <3>1, NumbersAreNumbers
  <2>2. /\ lists' \in [Keys -> Seq(Elements)] /\ waiters' \in Seq(Waiters)
        /\ answers' \in [Requests -> Answers] /\ moves' \in [Requests -> 0..MaxElements]
    BY <1>2, <1>4, <2>1, BecomeIsTyped DEF PushLeaves
  <2>3. unheard' \subseteq Keys
    BY <1>2 DEF MovedTo, Inv, TypeOK
  <2>4. pushed' \in 0..MaxElements
    BY <1>2, <1>3, NumbersAreNumbers
  <2>. QED  BY <1>2, <2>2, <2>3, <2>4 DEF Inv, TypeOK, Answers
<1>8. Single(lists)'
  BY <1>4, <1>5 DEF PushLeaves, Single
<1>9. GoneWerePushed'
  BY <1>2, <1>3, NumbersAreNumbers DEF Inv, GoneWerePushed, TypeOK, Elements
<1>10. Located'
  <2>1. \A e : Placed(lists, e)' <=> Placed(lists, e) \/ e \in (pushed + 1)..(pushed + n)
    BY <1>4, <1>5 DEF PushLeaves, Placed
  <2>2. ASSUME NEW e \in Elements
        PROVE  Placed(lists, e)' <=> e <= pushed' /\ e \notin gone'
    <3>1. e \in Nat /\ pushed \in Nat
      BY NumbersAreNumbers DEF Elements
    <3>2. e \in gone => e <= pushed
      BY DEF Inv, GoneWerePushed
    <3>3. Placed(lists, e) <=> e <= pushed /\ e \notin gone
      BY DEF Inv, Located
    <3>. QED  BY <1>2, <1>3, <2>1, <3>1, <3>2, <3>3
  <2>. QED  BY <2>2 DEF Located
<1>11. WaitersHearOfElements'
  <2>. SUFFICES ASSUME NEW i \in 1..Len(waiters), waiters[i].src # None,
                       answers'[waiters[i].id] = None, lists'[waiters[i].src] # <<>>
                PROVE  waiters[i].src \in unheard'
    <3>1. waiters' \in Seq(Waiters) /\ DOMAIN waiters' = 1..Len(waiters')
      BY <1>7 DEF TypeOK
    <3>. QED  BY <1>5, <3>1 DEF WaitersHearOfElements, ToSet
  <2>1. PICK w : w = waiters[i]
    OBVIOUS
  <2>2. w \in Waiters /\ w \in ToSet(waiters)
    BY <2>1, ElementOfSeq DEF Inv, TypeOK, ToSet
  <2>3. w.src \in Keys /\ w.id \in Requests
    BY <2>1, <2>2 DEF Waiters
  <2>4. answers[w.id] = None
    BY <1>4, <1>5, <2>1, <2>3 DEF PushLeaves
  <2>5. CASE w.src = key
    <3>1. st.threw
      BY <1>4, <1>5, <2>1, <2>5 DEF PushLeaves
    <3>. QED  BY <1>2, <1>5, <2>1, <2>5, <3>1
  <2>6. CASE w.src # key /\ lists[w.src] # <<>>
    <3>1. w.src \in unheard
      BY <2>1, <2>2, <2>4, <2>6 DEF Inv, WaitersHearOfElements
    <3>. QED  BY <1>2, <1>5, <2>1, <2>6, <3>1
  <2>7. CASE w.src # key /\ lists[w.src] = <<>>
    <3>1. st.lists[w.src] \in Seq(Elements) /\ st.lists[w.src] # <<>>
      BY <1>4, <1>5, <2>1, <2>3 DEF PushLeaves, Orderly, States
    <3>2. ToSet(st.lists[w.src]) \ ToSet(lists[w.src]) # {}
      <4>1. 1 \in DOMAIN st.lists[w.src]
        BY <3>1, EmptySeq, LenProperties
      <4>2. ToSet(lists[w.src]) = {}
        BY <2>7 DEF ToSet
      <4>. QED  BY <4>1, <4>2 DEF ToSet
    <3>3. w.src \in MovedTo(st)
      BY <2>3, <3>2 DEF MovedTo
    <3>. QED  BY <1>2, <1>5, <2>1, <2>7, <3>3
  <2>. QED  BY <2>5, <2>6, <2>7
<1>12. WaitersAreAsked'
  BY <1>2, <1>5 DEF Inv, WaitersAreAsked, DistinctIds
<1>13. RequestsAreNew'
  <2>1. ASSUME NEW r \in Requests, r > asked
        PROVE  answers'[r] = answers[r] /\ moves'[r] = moves[r]
    <3>1. NoListener(waiters, key, r)
      BY <2>1, NewAreDeaf
    <3>. QED  BY <1>4, <1>5, <3>1 DEF PushLeaves
  <2>. QED  BY <1>2, <2>1 DEF Inv, RequestsAreNew
<1>. QED  BY <1>6, <1>7, <1>8, <1>9, <1>10, <1>11, <1>12, <1>13 DEF Inv, MovesAreEvents

(***************************************************************************)
(* Pops, and keys that are overwritten or deleted.                         *)
(***************************************************************************)

(* The elements of G leave the list of key, which moves up by d places.    *)
Loses(ls, new, key, d, G) ==
  /\ \A k \in Keys : Len(ls[k]) \in Nat /\ Len(new[k]) \in Nat
  /\ \A k \in Keys \ {key} : new[k] = ls[k]
  /\ Len(new[key]) + d <= Len(ls[key])
  /\ \A i \in 1..Len(new[key]) : new[key][i] = ls[key][i + d]
  /\ \A j \in 1..Len(ls[key]) : ls[key][j] \in G <=> ~(j - d \in 1..Len(new[key]))
  /\ \A e \in G : \E j \in 1..Len(ls[key]) : ls[key][j] = e

LEMMA LosesPlaces ==
  ASSUME NEW ls, NEW new, NEW key \in Keys, NEW d \in {0, 1}, NEW G, Single(ls),
         Loses(ls, new, key, d, G)
  PROVE  /\ Single(new)
         /\ \A e : Placed(new, e) <=> Placed(ls, e) /\ e \notin G
<1>. DEFINE Was(k, i) == IF k = key THEN i + d ELSE i
<1>. USE DEF Loses
<1>1. ASSUME NEW k \in Keys, NEW i \in 1..Len(new[k])
      PROVE  Was(k, i) \in 1..Len(ls[k]) /\ new[k][i] = ls[k][Was(k, i)]
  <2>1. CASE k = key
    BY <2>1
  <2>2. CASE k # key
    BY <2>2
  <2>. QED  BY <2>1, <2>2
<1>2. \A a, b \in Keys : \A x \in 1..Len(ls[a]), y \in 1..Len(ls[b]) :
        ls[a][x] = ls[b][y] => a = b /\ x = y
  BY DEF Single
<1>3. ASSUME NEW k \in Keys, NEW l \in Keys, NEW i \in 1..Len(new[k]), NEW j \in 1..Len(new[l]),
             new[k][i] = new[l][j]
      PROVE  k = l /\ i = j
  <2>1. k = l /\ Was(k, i) = Was(l, j)
    <3>1. PICK x : x = Was(k, i)
      OBVIOUS
    <3>2. PICK y : y = Was(l, j)
      OBVIOUS
    <3>3. x \in 1..Len(ls[k]) /\ y \in 1..Len(ls[l]) /\ ls[k][x] = ls[l][y]
      BY <1>1, <1>3, <3>1, <3>2
    <3>4. k = l /\ x = y
      BY ONLY <1>2, <3>3, k \in Keys, l \in Keys
    <3>. QED  BY <3>1, <3>2, <3>4
  <2>. QED  BY <2>1
<1>4. ASSUME NEW e, Placed(new, e)
      PROVE  Placed(ls, e) /\ e \notin G
  <2>1. PICK k \in Keys : \E i \in 1..Len(new[k]) : new[k][i] = e
    BY <1>4 DEF Placed
  <2>2. PICK i \in 1..Len(new[k]) : new[k][i] = e
    BY <2>1
  <2>3. PICK j : j = Was(k, i)
    OBVIOUS
  <2>4. j \in 1..Len(ls[k]) /\ ls[k][j] = e
    BY <1>1, <2>2, <2>3
  <2>5. ASSUME e \in G
        PROVE  FALSE
    <3>1. PICK g \in 1..Len(ls[key]) : ls[key][g] = e
      BY <2>5
    <3>2. k = key /\ j = g
      BY <1>2, <2>4, <3>1
    <3>3. j - d = i
      BY <2>3, <3>2
    <3>. QED  BY <2>2, <2>5, <3>1, <3>2, <3>3
  <2>. QED  BY <2>4, <2>5 DEF Placed
<1>5. ASSUME NEW e, Placed(ls, e), e \notin G
      PROVE  Placed(new, e)
  <2>1. PICK k \in Keys : \E j \in 1..Len(ls[k]) : ls[k][j] = e
    BY <1>5 DEF Placed
  <2>2. PICK j \in 1..Len(ls[k]) : ls[k][j] = e
    BY <2>1
  <2>3. CASE k # key
    BY <2>2, <2>3 DEF Placed
  <2>4. CASE k = key
    <3>1. j - d \in 1..Len(new[key]) /\ (j - d) + d = j
      BY <1>5, <2>2, <2>4
    <3>2. new[key][j - d] = ls[key][(j - d) + d]
      BY <3>1
    <3>. QED  BY <2>2, <2>4, <3>1, <3>2 DEF Placed
  <2>. QED  BY <2>3, <2>4
<1>6. Single(new)
  BY <1>3 DEF Single
<1>. QED  BY <1>4, <1>5, <1>6

(* What takes the elements G out of key, and touches no waiter, keeps Inv. *)
LEMMA TakenInv ==
  ASSUME Inv, NEW key \in Keys, NEW G, lists' \in [Keys -> Seq(Elements)],
         \A k \in Keys \ {key} : lists'[k] = lists[k],
         Single(lists)', \A e : Placed(lists, e)' <=> Placed(lists, e) /\ e \notin G,
         \A e \in G : Placed(lists, e),
         gone' = gone \cup G, strings' \subseteq Keys,
         unheard' \in SUBSET Keys, unheard \ {key} \subseteq unheard',
         lists'[key] # <<>> => lists[key] # <<>> /\ (key \in unheard => key \in unheard'),
         UNCHANGED <<waiters, answers, moves, connected, pushed, asked, fired>>
  PROVE  Inv'
<1>1. TypeOK'
  <2>1. G \subseteq Elements
    BY NumbersAreNumbers
  <2>. QED  BY <2>1 DEF Inv, TypeOK
<1>2. Located'
  BY DEF Inv, Located
<1>3. GoneWerePushed'
  BY NumbersAreNumbers DEF Inv, GoneWerePushed
<1>4. WaitersHearOfElements'
  <2>. SUFFICES ASSUME NEW w \in ToSet(waiters), w.src # None, answers[w.id] = None,
                       lists'[w.src] # <<>>
                PROVE  w.src \in unheard'
    BY DEF WaitersHearOfElements
  <2>1. w.src \in Keys
    <3>1. w \in Waiters
      BY ElementOfSeq DEF Inv, TypeOK, ToSet
    <3>. QED  BY <3>1 DEF Waiters
  <2>2. lists[w.src] # <<>>
    BY <2>1
  <2>3. w.src \in unheard
    BY <2>2 DEF Inv, WaitersHearOfElements
  <2>. QED  BY <2>1, <2>3
<1>5. WaitersAreAsked' /\ RequestsAreNew' /\ MovesAreEvents'
  BY DEF Inv, WaitersAreAsked, DistinctIds, RequestsAreNew, MovesAreEvents
<1>. QED  BY <1>1, <1>2, <1>3, <1>4, <1>5 DEF Inv

LEMMA ClearedInv ==
  ASSUME Inv, NEW key \in Keys, lists' = [lists EXCEPT ![key] = <<>>],
         gone' = gone \cup ToSet(lists[key]), unheard' = unheard \ {key}, strings' \subseteq Keys,
         UNCHANGED <<waiters, answers, moves, connected, pushed, asked, fired>>
  PROVE  Inv'
<1>1. PICK new : new = lists'
  OBVIOUS
<1>2. lists \in [Keys -> Seq(Elements)] /\ unheard \subseteq Keys /\ Single(lists)
  BY DEF Inv, TypeOK
<1>3. /\ new \in [Keys -> Seq(Elements)] /\ new[key] = <<>>
      /\ \A k \in Keys \ {key} : new[k] = lists[k]
  BY <1>1, <1>2
<1>4. PICK G : G = ToSet(lists[key])
  OBVIOUS
<1>5. PICK len \in Nat : len = Len(lists[key])
  BY <1>2
<1>6. G = {lists[key][j] : j \in 1..len}
  BY <1>2, <1>4, <1>5, LenProperties DEF ToSet
<1>7. Single(new) /\ \A e : Placed(new, e) <=> Placed(lists, e) /\ e \notin G
  <2>1. \A k \in Keys : Len(lists[k]) \in Nat /\ Len(new[k]) \in Nat
    BY <1>2, <1>3
  <2>2. Len(new[key]) = 0
    BY <1>3
  <2>3. \A j \in 1..Len(lists[key]) : lists[key][j] \in G <=> ~(j - 0 \in 1..Len(new[key]))
    BY <1>5, <1>6, <2>2
  <2>4. \A e \in G : \E j \in 1..Len(lists[key]) : lists[key][j] = e
    BY <1>5, <1>6
  <2>5. Loses(lists, new, key, 0, G)
    BY <1>3, <1>5, <2>1, <2>2, <2>3, <2>4 DEF Loses
  <2>. QED  BY <1>2, <2>5, LosesPlaces
<1>8. \A e \in G : Placed(lists, e)
  BY <1>5, <1>6 DEF Placed
<1>9. Single(lists)' /\ \A e : Placed(lists, e)' <=> Placed(lists, e) /\ e \notin G
  BY <1>1, <1>7 DEF Single, Placed
<1>. QED  BY <1>1, <1>2, <1>3, <1>4, <1>8, <1>9, TakenInv

LEMMA SetInv ==
  ASSUME Inv, NEW key \in Keys, SetCommand(key)
  PROVE  Inv'
<1>1. strings' \subseteq Keys
  BY DEF SetCommand, Inv, TypeOK
<1>. QED  BY <1>1, ClearedInv DEF SetCommand

LEMMA DelInv ==
  ASSUME Inv, NEW key \in Keys, DelCommand(key)
  PROVE  Inv'
<1>1. strings' \subseteq Keys
  BY DEF DelCommand, Inv, TypeOK
<1>. QED  BY <1>1, ClearedInv DEF DelCommand

LEMMA PopInv ==
  ASSUME Inv, NEW key \in Keys, NEW side, PopCommand(key, side)
  PROVE  Inv'
<1>1. PICK new : new = lists'
  OBVIOUS
<1>2. PICK list : list = lists[key]
  OBVIOUS
<1>3. /\ lists \in [Keys -> Seq(Elements)] /\ unheard \subseteq Keys /\ Single(lists)
      /\ list \in Seq(Elements) /\ list # <<>> /\ strings \subseteq Keys
  BY <1>2 DEF Inv, TypeOK, PopCommand
<1>4. PICK len \in Nat \ {0} : len = Len(list)
  BY <1>3, EmptySeq
<1>5. PICK rest : rest = IF side = "left" THEN Tail(list) ELSE Front(list)
  OBVIOUS
<1>6. PICK d : d = IF side = "left" THEN 1 ELSE 0
  OBVIOUS
<1>7. PICK x : x = IF side = "left" THEN list[1] ELSE list[len]
  OBVIOUS
<1>8. /\ rest \in Seq(Elements) /\ Len(rest) = len - 1
      /\ \A i \in 1..(len - 1) : rest[i] = list[i + d]
  <2>1. CASE side = "left"
    BY <1>3, <1>4, <1>5, <1>6, <2>1, HeadTailProperties
  <2>2. CASE side # "left"
    <3>1. \A i \in 1..(len - 1) : list[i] \in Elements
      BY <1>3, <1>4, ElementOfSeq
    <3>2. rest = SubSeq(list, 1, len - 1)
      BY <1>4, <1>5, <2>2 DEF Front
    <3>. QED  BY <1>4, <1>6, <2>2, <3>1, <3>2, SubSeqProperties
  <2>. QED  BY <2>1, <2>2
<1>9. new = [lists EXCEPT ![key] = rest]
  BY <1>1, <1>2, <1>3, <1>5 DEF PopCommand
<1>10. gone' = gone \cup {x}
  BY <1>2, <1>3, <1>4, <1>7 DEF PopCommand, Last1
<1>11. /\ unheard' = IF len = 1 THEN unheard \ {key} ELSE unheard
       /\ UNCHANGED <<strings, waiters, answers, moves, connected, pushed, asked, fired>>
  BY <1>2, <1>4 DEF PopCommand
<1>12. /\ new \in [Keys -> Seq(Elements)] /\ new[key] = rest
       /\ \A k \in Keys \ {key} : new[k] = lists[k]
  BY <1>3, <1>8, <1>9
<1>13. \A i, j \in 1..len : list[i] = list[j] => i = j
  BY <1>2, <1>3, <1>4 DEF Single
<1>14. Single(new) /\ \A e : Placed(new, e) <=> Placed(lists, e) /\ e \notin {x}
  <2>1. \A k \in Keys : Len(lists[k]) \in Nat /\ Len(new[k]) \in Nat
    BY <1>3, <1>12
  <2>2. d \in {0, 1} /\ Len(new[key]) = len - 1 /\ Len(lists[key]) = len
    BY <1>2, <1>4, <1>6, <1>8, <1>12
  <2>3. \A i \in 1..Len(new[key]) : new[key][i] = lists[key][i + d]
    BY <1>2, <1>8, <1>12, <2>2
  <2>4. \A j \in 1..Len(lists[key]) : lists[key][j] \in {x} <=> ~(j - d \in 1..Len(new[key]))
    <3>1. CASE side = "left"
      BY <1>2, <1>4, <1>6, <1>7, <1>13, <2>2, <3>1
    <3>2. CASE side # "left"
      BY <1>2, <1>4, <1>6, <1>7, <1>13, <2>2, <3>2
    <3>. QED  BY <3>1, <3>2
  <2>5. \A e \in {x} : \E j \in 1..Len(lists[key]) : lists[key][j] = e
    BY <1>2, <1>4, <1>7
  <2>6. Len(new[key]) + d <= Len(lists[key])
    BY <2>2
  <2>7. PICK X : X = {x}
    OBVIOUS
  <2>8. Loses(lists, new, key, d, X)
    BY <1>12, <2>1, <2>3, <2>4, <2>5, <2>6, <2>7 DEF Loses
  <2>9. Single(new) /\ \A e : Placed(new, e) <=> Placed(lists, e) /\ e \notin X
    <3>1. CASE d = 0
      BY <1>3, <2>8, <3>1, LosesPlaces
    <3>2. CASE d = 1
      BY <1>3, <2>8, <3>2, LosesPlaces
    <3>. QED  BY <2>2, <3>1, <3>2
  <2>. QED  BY <2>7, <2>9
<1>15. \A e \in {x} : Placed(lists, e)
  BY <1>2, <1>4, <1>7 DEF Placed
<1>16. Single(lists)' /\ \A e : Placed(lists, e)' <=> Placed(lists, e) /\ e \notin {x}
  <2>1. Single(new) /\ lists' = new
    BY <1>1, <1>14
  <2>2. Single(lists)'
    BY ONLY <2>1 DEF Single
  <2>3. \A e : Placed(lists, e)' <=> Placed(new, e)
    BY ONLY <2>1 DEF Placed
  <2>. QED  BY <1>14, <2>2, <2>3
<1>17. /\ unheard' \in SUBSET Keys /\ unheard \ {key} \subseteq unheard'
       /\ lists'[key] # <<>> => lists[key] # <<>> /\ (key \in unheard => key \in unheard')
  <2>1. new[key] # <<>> => len # 1
    BY <1>8, <1>12, EmptySeq
  <2>. QED  BY <1>1, <1>2, <1>3, <1>11, <2>1
<1>. QED  BY <1>1, <1>3, <1>10, <1>11, <1>12, <1>15, <1>16, <1>17, TakenInv

(***************************************************************************)
(* Moves and blocking requests.                                            *)
(***************************************************************************)
LEMMA RearrangedKeeps ==
  ASSUME Inv, Rearranged(lists, lists'), UNCHANGED <<pushed, gone>>
  PROVE  Single(lists)' /\ Located' /\ GoneWerePushed'
<1>1. Single(lists')
  BY DEF Inv, Rearranged
<1>2. \A e : Placed(lists', e) <=> Placed(lists, e)
  BY DEF Rearranged
<1>3. Single(lists)' /\ \A e : Placed(lists, e)' <=> Placed(lists, e)
  BY <1>1, <1>2 DEF Single, Placed
<1>. QED  BY <1>3 DEF Inv, Located, GoneWerePushed

LEMMA MovedToHas ==
  ASSUME NEW st, NEW k \in Keys, lists[k] = <<>>, st.lists[k] \in Seq(Elements), st.lists[k] # <<>>
  PROVE  k \in MovedTo(st)
<1>1. 1 \in DOMAIN st.lists[k]
  BY EmptySeq, LenProperties
<1>2. ToSet(lists[k]) = {}
  BY DEF ToSet
<1>3. ToSet(st.lists[k]) \ ToSet(lists[k]) # {}
  BY <1>1, <1>2 DEF ToSet
<1>. QED  BY <1>3 DEF MovedTo

LEMMA RPopLPushInv ==
  ASSUME Inv, NEW src \in Keys, NEW dst \in Keys, RPopLPushCommand(src, dst)
  PROVE  Inv'
<1>1. PICK st : st = [State EXCEPT !.lists = RPopLPush(lists, src, dst)]
  OBVIOUS
<1>2. /\ Become(st) /\ lists[src] # <<>>
      /\ unheard' = {k \in unheard \cup ({dst} \ {src}) : st.lists[k] # <<>>}
      /\ UNCHANGED <<strings, connected, pushed, asked, gone, fired>>
  BY <1>1 DEF RPopLPushCommand, Unheard, counters
<1>3. st.lists = RPopLPush(lists, src, dst)
  BY <1>1 DEF State
<1>4. lists' = st.lists /\ UNCHANGED <<waiters, answers, moves>>
  BY <1>1, <1>2 DEF Become, State
<1>5. lists \in [Keys -> Seq(Elements)] /\ unheard \subseteq Keys
  BY DEF Inv, TypeOK
<1>6. IsMove(lists, lists', src, dst, Len(lists[src]))
  BY <1>2, <1>3, <1>4, <1>5, MoveIsMove
<1>7. lists' \in [Keys -> Seq(Elements)] /\ \A k \in Keys \ {src, dst} : lists'[k] = lists[k]
  BY <1>6 DEF IsMove
<1>8. Rearranged(lists, lists')
  BY <1>2, <1>3, <1>4, <1>5, MoveRearranges
<1>9. TypeOK'
  BY <1>2, <1>4, <1>5, <1>7 DEF Inv, TypeOK
<1>10. Single(lists)' /\ Located' /\ GoneWerePushed'
  BY <1>2, <1>8, RearrangedKeeps
<1>11. WaitersHearOfElements'
  <2>. SUFFICES ASSUME NEW w \in ToSet(waiters), w.src # None, answers[w.id] = None,
                       lists'[w.src] # <<>>
                PROVE  w.src \in unheard'
    BY <1>4 DEF WaitersHearOfElements
  <2>1. w.src \in Keys
    <3>1. w \in Waiters
      BY ElementOfSeq DEF Inv, TypeOK, ToSet
    <3>. QED  BY <3>1 DEF Waiters
  <2>2. CASE lists[w.src] # <<>>
    <3>1. w.src \in unheard
      BY <2>2 DEF Inv, WaitersHearOfElements
    <3>. QED  BY <1>2, <1>4, <3>1
  <2>3. CASE lists[w.src] = <<>>
    <3>1. w.src \in {dst} \ {src}
      BY <1>2, <1>7, <2>1, <2>3
    <3>. QED  BY <1>2, <1>4, <3>1
  <2>. QED  BY <2>2, <2>3
<1>12. WaitersAreAsked' /\ RequestsAreNew' /\ MovesAreEvents'
  BY <1>2, <1>4 DEF Inv, WaitersAreAsked, DistinctIds, RequestsAreNew, MovesAreEvents
<1>. QED  BY <1>9, <1>10, <1>11, <1>12 DEF Inv

(* What BRPOPLPUSH leaves, against what was there.                         *)
BlockLeaves(st, id, src) ==
  /\ st \in Orderly
  /\ Rearranged(lists, st.lists)
  /\ \A r \in Requests \ {id} : st.answers[r] = answers[r] /\ st.moves[r] = moves[r]
  /\ st.moves[id] <= pushed
  /\ \/ st.waiters = waiters
     \/ \E w \in Waiters : /\ st.waiters = Append(waiters, w) /\ w.id = id /\ w.src = src
                           /\ st.lists = lists /\ lists[src] = <<>>

(* A waiter that comes last.                                               *)
LEMMA WaitersWith ==
  ASSUME Inv, asked < MaxBlocking, NEW w \in Waiters, w.id = asked + 1
  PROVE  /\ Append(waiters, w) \in Seq(Waiters)
         /\ Len(Append(waiters, w)) = Len(waiters) + 1
         /\ \A i \in 1..Len(waiters) : Append(waiters, w)[i] = waiters[i]
         /\ Append(waiters, w)[Len(waiters) + 1] = w
         /\ DistinctIds(Append(waiters, w))
<1>1. PICK q : q = Append(waiters, w)
  OBVIOUS
<1>2. PICK n \in Nat : n = Len(waiters)
  BY NumbersAreNumbers
<1>3. waiters \in Seq(Waiters)
  BY DEF Inv, TypeOK
<1>4. /\ q \in Seq(Waiters) /\ Len(q) = n + 1
      /\ \A i \in 1..n : q[i] = waiters[i]
      /\ q[n + 1] = w
  BY <1>1, <1>2, <1>3
<1>5. \A i \in 1..n : waiters[i].id \in Nat /\ waiters[i].id # asked + 1
  <2>1. \A i \in 1..n : waiters[i].id \in Requests /\ waiters[i].id <= asked
    BY <1>2, <1>3, ElementOfSeq DEF Inv, WaitersAreAsked, Waiters
  <2>2. asked \in Nat
    BY NumbersAreNumbers
  <2>. QED  BY <2>1, <2>2 DEF Requests
<1>6. \A i, j \in 1..n : waiters[i].id = waiters[j].id => i = j
  BY <1>2 DEF Inv, WaitersAreAsked, DistinctIds
<1>7. DistinctIds(q)
  BY <1>4, <1>5, <1>6 DEF DistinctIds
<1>. QED  BY <1>1, <1>2, <1>4, <1>7

LEMMA BlockDoes ==
  ASSUME Inv, asked < MaxBlocking, NEW s \in Sessions, NEW src \in Keys, NEW dst \in Keys
  PROVE  BlockLeaves(Block(State, asked + 1, s, src, dst), asked + 1, src)
<1>1. PICK id : id = asked + 1
  OBVIOUS
<1>2. PICK st : st = Block(State, id, s, src, dst)
  OBVIOUS
<1>3. /\ State \in Orderly /\ State \in States /\ State.lists = lists /\ State.waiters = waiters
      /\ State.answers = answers /\ State.moves = moves /\ ~State.threw
  BY StateIsOrderly DEF Orderly
<1>4. id \in Requests /\ id > asked
  BY <1>1, NumbersAreNumbers DEF Requests
<1>5. moves[id] = 0 /\ pushed \in Nat
  BY <1>4, NumbersAreNumbers DEF Inv, RequestsAreNew
<1>6. Rearranged(lists, lists)
  BY DEF Rearranged
<1>7. CASE Throws(State, src, dst)
  <2>1. st = Settle(State, id, Rejected) /\ Rejected \in Answers
    BY <1>2, <1>7 DEF Block, Answers
  <2>2. /\ st \in States /\ st.lists = State.lists /\ st.waiters = State.waiters
        /\ st.moves = State.moves
        /\ \A r \in Requests : r # id \/ State.answers[r] # None => st.answers[r] = State.answers[r]
    BY <1>3, <1>4, <2>1, SettleEffect
  <2>3. st \in Orderly
    BY <1>3, <2>2 DEF Orderly
  <2>. QED  BY <1>1, <1>2, <1>3, <1>5, <1>6, <2>2, <2>3 DEF BlockLeaves
<1>8. CASE ~Throws(State, src, dst) /\ lists[src] # <<>>
  <2>1. st = Process(State, id, src, dst)
    BY <1>2, <1>3, <1>8 DEF Block
  <2>2. OneMove(State, st, id, src, dst)
    BY <1>3, <1>4, <2>1, ProcessEffect
  <2>3. st \in Orderly /\ st.waiters = waiters
    BY <1>3, <2>2 DEF OneMove, Orderly
  <2>4. 1 <= pushed
    <3>1. lists[src] \in Seq(Elements) /\ lists[src][1] = lists[src][1] /\ 1 \in 1..Len(lists[src])
      BY <1>8, EmptySeq DEF Inv, TypeOK
    <3>2. Placed(lists, lists[src][1])
      BY <3>1 DEF Placed
    <3>3. lists[src][1] \in Elements /\ lists[src][1] <= pushed
      BY <3>2, NumbersAreNumbers
    <3>. QED  BY <3>3, NumbersAreNumbers DEF Elements
  <2>5. st.moves[id] <= pushed
    BY <1>3, <1>5, <2>2, <2>4 DEF OneMove
  <2>. QED  BY <1>1, <1>2, <1>3, <2>2, <2>3, <2>5 DEF OneMove, BlockLeaves
<1>9. CASE ~Throws(State, src, dst) /\ lists[src] = <<>>
  <2>1. PICK w : w = [id |-> id, session |-> s, src |-> src, dst |-> dst]
    OBVIOUS
  <2>2. w \in Waiters /\ w.id = id /\ w.src = src
    BY <1>4, <2>1 DEF Waiters
  <2>3. st = [State EXCEPT !.waiters = Append(waiters, w)]
    BY <1>2, <1>3, <1>9, <2>1 DEF Block
  <2>4. Append(waiters, w) \in Seq(Waiters) /\ DistinctIds(Append(waiters, w))
    BY <1>1, <2>2, WaitersWith
  <2>5. /\ st \in States /\ st.lists = lists /\ st.waiters = Append(waiters, w)
        /\ st.answers = answers /\ st.moves = moves
    BY <1>3, <2>3, <2>4 DEF States
  <2>6. st \in Orderly
    BY <2>4, <2>5 DEF Orderly
  <2>. QED  BY <1>1, <1>2, <1>5, <1>6, <1>9, <2>2, <2>5, <2>6 DEF BlockLeaves
<1>. QED  BY <1>7, <1>8, <1>9

LEMMA BRPopLPushInv ==
  ASSUME Inv, NEW s \in Sessions, NEW src \in Keys, NEW dst \in Keys, BRPopLPushCommand(s, src, dst)
  PROVE  Inv'
<1>1. PICK st : st = Block(State, asked + 1, s, src, dst)
  OBVIOUS
<1>2. /\ asked < MaxBlocking /\ Become(st) /\ asked' = asked + 1
      /\ unheard' = {k \in unheard \cup MovedTo(st) : st.lists[k] # <<>>}
      /\ UNCHANGED <<strings, connected, pushed, gone, fired>>
  BY <1>1 DEF BRPopLPushCommand, Unheard
<1>3. BlockLeaves(st, asked + 1, src)
  BY <1>1, <1>2, BlockDoes
<1>4. asked + 1 \in Requests /\ asked \in Nat
  BY <1>2, NumbersAreNumbers DEF Requests
<1>5. lists' = st.lists /\ waiters' = st.waiters /\ answers' = st.answers /\ moves' = st.moves
  BY <1>2 DEF Become
<1>6. \A r \in Requests : moves'[r] <= pushed
  BY <1>3, <1>5, NumbersAreNumbers DEF BlockLeaves
<1>7. TypeOK'
  <2>1. \A r \in Requests : st.moves[r] <= MaxElements
    <3>1. \A r \in Requests : st.moves[r] \in Nat
      BY <1>3 DEF BlockLeaves, Orderly, States
    <3>. QED  BY <1>5, <1>6, <3>1, NumbersAreNumbers
  <2>2. /\ lists' \in [Keys -> Seq(Elements)] /\ waiters' \in Seq(Waiters)
        /\ answers' \in [Requests -> Answers] /\ moves' \in [Requests -> 0..MaxElements]
    BY <1>2, <1>3, <2>1, BecomeIsTyped DEF BlockLeaves
  <2>3. unheard' \subseteq Keys
    BY <1>2 DEF MovedTo, Inv, TypeOK
  <2>4. asked' \in 0..MaxBlocking
    BY <1>2, NumbersAreNumbers
  <2>. QED  BY <1>2, <2>2, <2>3, <2>4 DEF Inv, TypeOK, Answers
<1>8. Single(lists)' /\ Located' /\ GoneWerePushed'
  BY <1>2, <1>3, <1>5, RearrangedKeeps DEF BlockLeaves
<1>9. /\ \A i \in 1..Len(waiters') :
           \/ i \in 1..Len(waiters) /\ waiters'[i] = waiters[i]
           \/ waiters'[i].id = asked + 1 /\ waiters'[i].src = src /\ lists' = lists /\ lists[src] = <<>>
  <2>1. CASE st.waiters = waiters
    BY <1>5, <2>1
  <2>2. CASE \E w \in Waiters : /\ st.waiters = Append(waiters, w) /\ w.id = asked + 1 /\ w.src = src
                                /\ st.lists = lists /\ lists[src] = <<>>
    <3>1. PICK w \in Waiters : /\ st.waiters = Append(waiters, w) /\ w.id = asked + 1 /\ w.src = src
                               /\ st.lists = lists /\ lists[src] = <<>>
      BY <2>2
    <3>2. /\ Len(waiters') = Len(waiters) + 1 /\ waiters'[Len(waiters) + 1] = w
          /\ \A i \in 1..Len(waiters) : waiters'[i] = waiters[i]
      BY <1>2, <1>5, <3>1, WaitersWith
    <3>3. \A i \in 1..Len(waiters') : i \in 1..Len(waiters) \/ i = Len(waiters) + 1
      BY <3>2, NumbersAreNumbers
    <3>. QED  BY <1>5, <3>1, <3>2, <3>3
  <2>. QED  BY <1>3, <2>1, <2>2 DEF BlockLeaves
<1>10. \A i \in 1..Len(waiters) : waiters[i] \in Waiters /\ waiters[i].id # asked + 1
  <2>1. \A i \in 1..Len(waiters) : waiters[i] \in Waiters /\ waiters[i].id <= asked
    BY ElementOfSeq DEF Inv, TypeOK, WaitersAreAsked
  <2>. QED  BY <1>4, <2>1
<1>11. WaitersHearOfElements'
  <2>. SUFFICES ASSUME NEW i \in 1..Len(waiters'), waiters'[i].src # None,
                       answers'[waiters'[i].id] = None, lists'[waiters'[i].src] # <<>>
                PROVE  waiters'[i].src \in unheard'
    <3>1. waiters' \in Seq(Waiters) /\ DOMAIN waiters' = 1..Len(waiters')
      BY <1>7 DEF TypeOK
    <3>. QED  BY <3>1 DEF WaitersHearOfElements, ToSet
  <2>1. PICK w : w = waiters'[i]
    OBVIOUS
  <2>2. i \in 1..Len(waiters) /\ w = waiters[i]
    BY <1>9, <2>1
  <2>3. w.id \in Requests \ {asked + 1} /\ w.src \in Keys /\ w \in ToSet(waiters)
    <3>1. w \in ToSet(waiters)
      BY <2>2 DEF Inv, TypeOK, ToSet
    <3>. QED  BY <1>10, <2>1, <2>2, <3>1 DEF Waiters
  <2>4. answers[w.id] = None
    BY <1>3, <1>5, <2>1, <2>3 DEF BlockLeaves
  <2>5. CASE lists[w.src] # <<>>
    <3>1. w.src \in unheard
      BY <2>1, <2>3, <2>4, <2>5 DEF Inv, WaitersHearOfElements
    <3>. QED  BY <1>2, <1>5, <2>1, <3>1
  <2>6. CASE lists[w.src] = <<>>
    <3>1. st.lists[w.src] \in Seq(Elements) /\ st.lists[w.src] # <<>>
      BY <1>3, <1>5, <2>1, <2>3 DEF BlockLeaves, Orderly, States
    <3>2. w.src \in MovedTo(st)
      BY <2>3, <2>6, <3>1, MovedToHas
    <3>. QED  BY <1>2, <1>5, <2>1, <3>2
  <2>. QED  BY <2>5, <2>6
<1>12. WaitersAreAsked'
  <2>1. DistinctIds(waiters')
    BY <1>3, <1>5 DEF BlockLeaves, Orderly
  <2>2. DistinctIds(waiters)'
    BY <2>1 DEF DistinctIds
  <2>3. asked + 1 \notin fired
    BY <1>4 DEF Inv, RequestsAreNew
  <2>4. ASSUME NEW i \in 1..Len(waiters')
        PROVE  waiters'[i].id <= asked' /\ waiters'[i].id \notin fired'
    <3>1. CASE i \in 1..Len(waiters) /\ waiters'[i] = waiters[i]
      <4>1. waiters[i].id <= asked /\ waiters[i].id \notin fired /\ waiters[i].id \in Nat
        BY <1>10, <3>1 DEF Inv, WaitersAreAsked, Waiters, Requests
      <4>. QED  BY <1>2, <1>4, <3>1, <4>1
    <3>2. CASE waiters'[i].id = asked + 1
      BY <1>2, <1>4, <2>3, <3>2
    <3>. QED  BY <1>9, <3>1, <3>2
  <2>. QED  BY <2>2, <2>4 DEF WaitersAreAsked
<1>13. RequestsAreNew'
  <2>1. ASSUME NEW r \in Requests, r > asked'
        PROVE  answers'[r] = None /\ moves'[r] = 0 /\ r \notin fired'
    <3>1. r \in Requests \ {asked + 1} /\ r > asked
      BY <1>2, <1>4, <2>1 DEF Requests
    <3>. QED  BY <1>2, <1>3, <1>5, <3>1 DEF BlockLeaves, Inv, RequestsAreNew
  <2>. QED  BY <2>1 DEF RequestsAreNew
<1>. QED  BY <1>2, <1>6, <1>7, <1>8, <1>11, <1>12, <1>13 DEF Inv, MovesAreEvents

(* A step that leaves the lists alone, has no new waiters on a key, and    *)
(* takes no answer back.                                                   *)
LEMMA SameListsInv ==
  ASSUME Inv, UNCHANGED <<lists, moves, strings, pushed, gone, unheard>>,
         connected' \subseteq Sessions, waiters' \in Seq(Waiters),
         answers' \in [Requests -> Answers], asked' \in asked..MaxBlocking,
         fired' \subseteq Requests, WaitersAreAsked',
         \A i \in 1..Len(waiters') : waiters'[i].src # None =>
           \E j \in 1..Len(waiters) : waiters'[i] = waiters[j],
         \A r \in Requests : answers'[r] = None => answers[r] = None,
         \A r \in Requests : r > asked' => answers'[r] = None /\ r \notin fired'
  PROVE  Inv'
<1>1. asked \in Nat /\ MaxBlocking \in Nat
  BY NumbersAreNumbers
<1>2. TypeOK'
  BY <1>1 DEF Inv, TypeOK, Answers
<1>3. Single(lists)' /\ Located' /\ GoneWerePushed'
  BY DEF Inv, Single, Located, Placed, GoneWerePushed
<1>4. WaitersHearOfElements'
  <2>. SUFFICES ASSUME NEW i \in 1..Len(waiters'), waiters'[i].src # None,
                       answers'[waiters'[i].id] = None, lists[waiters'[i].src] # <<>>
                PROVE  waiters'[i].src \in unheard
    <3>1. DOMAIN waiters' = 1..Len(waiters')
      BY LenProperties
    <3>. QED  BY <3>1 DEF WaitersHearOfElements, ToSet
  <2>1. PICK j \in 1..Len(waiters) : waiters'[i] = waiters[j]
    OBVIOUS
  <2>2. waiters[j] \in Waiters /\ waiters[j] \in ToSet(waiters)
    <3>1. waiters \in Seq(Waiters)
      BY DEF Inv, TypeOK
    <3>. QED  BY <2>1, <3>1, ElementOfSeq DEF ToSet
  <2>3. waiters[j].id \in Requests
    BY <2>2 DEF Waiters
  <2>4. answers[waiters[j].id] = None
    BY <2>1, <2>3
  <2>. QED  BY <2>1, <2>2, <2>4 DEF Inv, WaitersHearOfElements
<1>5. RequestsAreNew'
  <2>1. ASSUME NEW r \in Requests, r > asked'
        PROVE  moves[r] = 0
    <3>1. r > asked
      BY <1>1, <2>1 DEF Requests
    <3>. QED  BY <3>1 DEF Inv, RequestsAreNew
  <2>. QED  BY <2>1 DEF RequestsAreNew
<1>6. MovesAreEvents'
  BY DEF Inv, MovesAreEvents
<1>. QED  BY <1>2, <1>3, <1>4, <1>5, <1>6 DEF Inv

LEMMA BRPopInv ==
  ASSUME Inv, NEW s \in Sessions, NEW n \in 1..2, BRPopCommand(s, n)
  PROVE  Inv'
<1>1. /\ asked < MaxBlocking /\ asked' = asked + 1
      /\ UNCHANGED <<strings, connected, pushed, gone, fired, unheard>>
  BY DEF BRPopCommand
<1>2. /\ asked \in Nat /\ MaxBlocking \in Nat /\ asked + 1 \in Requests
      /\ asked' \in asked..MaxBlocking
  BY <1>1, NumbersAreNumbers DEF Requests
<1>3. /\ State \in States /\ State.lists = lists /\ State.waiters = waiters
      /\ State.answers = answers /\ State.moves = moves
  BY StateIsOrderly DEF Orderly
<1>4. /\ connected \subseteq Sessions /\ waiters \in Seq(Waiters)
      /\ answers \in [Requests -> Answers] /\ fired \subseteq Requests
  BY DEF Inv, TypeOK, Answers
<1>5. answers[asked + 1] = None /\ asked + 1 \notin fired
  BY <1>2 DEF Inv, RequestsAreNew
<1>6. \A r \in Requests : r > asked' => answers[r] = None /\ r \notin fired /\ r # asked + 1
  BY <1>1, <1>2 DEF Inv, RequestsAreNew, Requests
<1>7. \A i \in 1..Len(waiters) : waiters[i].id <= asked' /\ waiters[i].id \notin fired
  <2>1. \A i \in 1..Len(waiters) : waiters[i].id \in Nat /\ waiters[i].id <= asked
    BY <1>4, ElementOfSeq DEF Inv, WaitersAreAsked, Waiters, Requests
  <2>. QED  BY <1>1, <1>2, <2>1 DEF Inv, WaitersAreAsked
<1>8. CASE n = 1
  <2>1. PICK w : w = [id |-> asked + 1, session |-> s, src |-> None, dst |-> None]
    OBVIOUS
  <2>2. w \in Waiters /\ w.id = asked + 1 /\ w.src = None
    BY <1>2, <2>1 DEF Waiters
  <2>3. PICK q : q = Append(waiters, w)
    OBVIOUS
  <2>4. PICK len \in Nat : len = Len(waiters)
    BY NumbersAreNumbers
  <2>5. /\ q \in Seq(Waiters) /\ DistinctIds(q) /\ Len(q) = len + 1 /\ q[len + 1] = w
        /\ \A i \in 1..len : q[i] = waiters[i]
    BY <1>1, <2>2, <2>3, <2>4, WaitersWith
  <2>6. waiters' = q /\ UNCHANGED <<lists, answers, moves>>
    <3>1. Become([State EXCEPT !.waiters = q])
      BY <1>3, <1>8, <2>1, <2>3 DEF BRPopCommand
    <3>. QED  BY <1>3, <3>1 DEF Become, States
  <2>7. \A i \in 1..Len(q) : i \in 1..len \/ i = len + 1
    BY <2>4, <2>5
  <2>8. WaitersAreAsked'
    <3>1. \A i \in 1..Len(q) : q[i].id <= asked' /\ q[i].id \notin fired
      BY <1>1, <1>2, <1>5, <1>7, <2>2, <2>4, <2>5, <2>7
    <3>. QED  BY <1>1, <2>5, <2>6, <3>1 DEF WaitersAreAsked, DistinctIds
  <2>9. \A i \in 1..Len(q) : q[i].src # None => \E j \in 1..Len(waiters) : q[i] = waiters[j]
    BY <2>2, <2>4, <2>5, <2>7
  <2>. QED  BY <1>1, <1>2, <1>4, <1>6, <2>5, <2>6, <2>8, <2>9, SameListsInv
<1>9. CASE n # 1
  <2>1. PICK st : st = Settle(State, asked + 1, Refused)
    OBVIOUS
  <2>2. Refused \in Answers
    BY DEF Answers
  <2>3. /\ st \in States /\ st.lists = lists /\ st.waiters = waiters /\ st.moves = moves
        /\ \A r \in Requests : r # asked + 1 => st.answers[r] = answers[r]
    BY <1>2, <1>3, <2>1, <2>2, SettleEffect
  <2>4. Become(st)
    BY <1>9, <2>1 DEF BRPopCommand
  <2>5. UNCHANGED <<lists, waiters, moves>> /\ answers' = st.answers
    BY <2>3, <2>4 DEF Become
  <2>6. answers' \in [Requests -> Answers]
    BY <2>3, <2>5 DEF States
  <2>7. \A r \in Requests : answers'[r] = None => answers[r] = None
    BY <1>5, <2>3, <2>5
  <2>8. WaitersAreAsked'
    BY <1>1, <1>7, <2>5 DEF Inv, WaitersAreAsked, DistinctIds
  <2>9. \A r \in Requests : r > asked' => answers'[r] = None /\ r \notin fired'
    BY <1>1, <1>6, <2>3, <2>5
  <2>. QED  BY <1>1, <1>2, <1>4, <2>5, <2>6, <2>7, <2>8, <2>9, SameListsInv
<1>. QED  BY <1>8, <1>9

(* A sequence without its place i.                                         *)
LEMMA RemoveAtProperties ==
  ASSUME NEW S, NEW q \in Seq(S), NEW i \in 1..Len(q)
  PROVE  /\ RemoveAt(q, i) \in Seq(S) /\ Len(RemoveAt(q, i)) = Len(q) - 1
         /\ \A j \in 1..(Len(q) - 1) : RemoveAt(q, i)[j] = q[IF j < i THEN j ELSE j + 1]
<1>1. PICK len \in Nat : len = Len(q)
  OBVIOUS
<1>2. PICK a : a = SubSeq(q, 1, i - 1)
  OBVIOUS
<1>3. PICK b : b = SubSeq(q, i + 1, len)
  OBVIOUS
<1>4. \A j \in 1..len : q[j] \in S
  BY <1>1, ElementOfSeq
<1>5. a \in Seq(S) /\ Len(a) = i - 1 /\ \A j \in 1..(i - 1) : a[j] = q[j]
  BY <1>1, <1>2, <1>4, SubSeqProperties
<1>6. b \in Seq(S) /\ Len(b) = len - i /\ \A j \in 1..(len - i) : b[j] = q[i + j]
  <2>1. \A j \in (i + 1)..len : q[j] \in S
    BY <1>1, <1>4
  <2>2. /\ b \in Seq(S) /\ Len(b) = IF i + 1 <= len THEN len - (i + 1) + 1 ELSE 0
        /\ \A j \in 1..(len - (i + 1) + 1) : b[j] = q[(i + 1) + j - 1]
    BY <1>1, <1>3, <2>1, SubSeqProperties
  <2>. QED  BY <1>1, <2>2
<1>7. PICK r : r = a \o b
  OBVIOUS
<1>8. /\ r \in Seq(S) /\ Len(r) = (i - 1) + (len - i)
      /\ \A j \in 1..((i - 1) + (len - i)) : r[j] = IF j <= i - 1 THEN a[j] ELSE b[j - (i - 1)]
  <2>1. /\ a \o b \in Seq(S) /\ Len(a \o b) = Len(a) + Len(b)
        /\ \A j \in 1..(Len(a) + Len(b)) :
             (a \o b)[j] = IF j <= Len(a) THEN a[j] ELSE b[j - Len(a)]
    BY <1>5, <1>6, ConcatProperties
  <2>. QED  BY <1>5, <1>6, <1>7, <2>1
<1>9. \A j \in 1..(len - 1) : r[j] = q[IF j < i THEN j ELSE j + 1]
  <2>. SUFFICES ASSUME NEW j \in 1..(len - 1)
                PROVE  r[j] = q[IF j < i THEN j ELSE j + 1]
    OBVIOUS
  <2>1. CASE j < i
    BY <1>1, <1>5, <1>8, <2>1
  <2>2. CASE ~(j < i)
    <3>1. j - (i - 1) \in 1..(len - i) /\ i + (j - (i - 1)) = j + 1
      BY <1>1, <2>2
    <3>2. r[j] = b[j - (i - 1)]
      <4>1. (i - 1) + (len - i) = len - 1 /\ ~(j <= i - 1)
        BY <1>1, <2>2
      <4>. QED  BY <1>8, <4>1
    <3>3. b[j - (i - 1)] = q[i + (j - (i - 1))]
      BY <1>6, <3>1
    <3>. QED  BY <2>2, <3>1, <3>2, <3>3
  <2>. QED  BY <2>1, <2>2
<1>10. RemoveAt(q, i) = r
  BY <1>1, <1>2, <1>3, <1>7 DEF RemoveAt
<1>11. (i - 1) + (len - i) = len - 1
  BY <1>1
<1>12. r \in Seq(S) /\ Len(r) = len - 1
  BY <1>8, <1>11
<1>. QED  BY <1>1, <1>9, <1>10, <1>12

(* The waiter that leaves with its timer.                                  *)
LEMMA TimeoutDoes ==
  ASSUME Inv, NEW i \in 1..Len(waiters), Timeout(i)
  PROVE  /\ UNCHANGED <<lists, moves, strings, connected, pushed, asked, gone, unheard>>
         /\ waiters[i].id \in Requests /\ waiters[i].id <= asked
         /\ fired' = fired \cup {waiters[i].id}
         /\ waiters' = RemoveAt(waiters, i)
         /\ answers' \in [Requests -> Answers]
         /\ \A r \in Requests : answers'[r] = answers[r] \/ (answers[r] = None /\ answers'[r] = Nil)
         /\ \A r \in Requests \ {waiters[i].id} : answers'[r] = answers[r]
<1>1. PICK id : id = waiters[i].id
  OBVIOUS
<1>2. waiters \in Seq(Waiters)
  BY DEF Inv, TypeOK
<1>3. id \in Requests /\ id <= asked
  BY <1>1, <1>2, ElementOfSeq DEF Inv, WaitersAreAsked, Waiters
<1>4. PICK rest : rest = RemoveAt(waiters, i)
  OBVIOUS
<1>5. rest \in Seq(Waiters)
  BY <1>2, <1>4, RemoveAtProperties
<1>6. PICK left : left = [State EXCEPT !.waiters = rest]
  OBVIOUS
<1>7. /\ State \in States /\ State.lists = lists /\ State.waiters = waiters
      /\ State.answers = answers /\ State.moves = moves
  BY StateIsOrderly DEF Orderly
<1>8. /\ left \in States /\ left.lists = lists /\ left.waiters = rest
      /\ left.answers = answers /\ left.moves = moves
  BY <1>5, <1>6, <1>7 DEF States
<1>9. PICK st : st = Settle(left, id, Nil)
  OBVIOUS
<1>10. Nil \in Answers
  BY DEF Answers
<1>11. /\ st \in States /\ st.lists = lists /\ st.waiters = rest /\ st.moves = moves
       /\ \A r \in Requests : r # id \/ answers[r] # None => st.answers[r] = answers[r]
       /\ answers[id] = None => st.answers[id] = Nil
  BY <1>3, <1>8, <1>9, <1>10, SettleEffect
<1>12. /\ Become(st) /\ fired' = fired \cup {id}
       /\ UNCHANGED <<strings, connected, pushed, asked, gone, unheard>>
  BY <1>1, <1>4, <1>6, <1>7, <1>9 DEF Timeout
<1>13. lists' = lists /\ moves' = moves /\ waiters' = rest /\ answers' = st.answers
  BY <1>11, <1>12 DEF Become
<1>14. answers' \in [Requests -> Answers]
  BY <1>11, <1>13 DEF States
<1>15. \A r \in Requests : answers'[r] = answers[r] \/ (answers[r] = None /\ answers'[r] = Nil)
  <2>. SUFFICES ASSUME NEW r \in Requests
                PROVE  answers'[r] = answers[r] \/ (answers[r] = None /\ answers'[r] = Nil)
    OBVIOUS
  <2>1. CASE r # id \/ answers[r] # None
    <3>1. st.answers[r] = answers[r]
      BY <1>11, <2>1
    <3>. QED  BY <1>13, <3>1
  <2>2. CASE r = id /\ answers[r] = None
    <3>1. st.answers[id] = Nil
      BY <1>11, <2>2
    <3>. QED  BY <1>13, <2>2, <3>1
  <2>. QED  BY <2>1, <2>2
<1>16. \A r \in Requests \ {id} : answers'[r] = answers[r]
  BY <1>11, <1>13
<1>. QED  BY <1>1, <1>3, <1>4, <1>12, <1>13, <1>14, <1>15, <1>16

LEMMA TimeoutInv ==
  ASSUME Inv, NEW i \in 1..Len(waiters), Timeout(i)
  PROVE  Inv'
<1>1. PICK id : id = waiters[i].id
  OBVIOUS
<1>2. PICK len \in Nat : len = Len(waiters)
  BY NumbersAreNumbers
<1>3. PICK rest : rest = RemoveAt(waiters, i)
  OBVIOUS
<1>4. waiters \in Seq(Waiters) /\ connected \subseteq Sessions /\ fired \subseteq Requests
  BY DEF Inv, TypeOK
<1>5. /\ UNCHANGED <<lists, moves, strings, connected, pushed, asked, gone, unheard>>
      /\ id \in Requests /\ id <= asked /\ fired' = fired \cup {id} /\ waiters' = rest
      /\ answers' \in [Requests -> Answers]
      /\ \A r \in Requests : answers'[r] = answers[r] \/ (answers[r] = None /\ answers'[r] = Nil)
      /\ \A r \in Requests \ {id} : answers'[r] = answers[r]
  BY <1>1, <1>3, TimeoutDoes
<1>6. /\ rest \in Seq(Waiters) /\ Len(rest) = len - 1
      /\ \A j \in 1..(len - 1) : rest[j] = waiters[IF j < i THEN j ELSE j + 1]
  BY <1>2, <1>3, <1>4, RemoveAtProperties
<1>. DEFINE Was(j) == IF j < i THEN j ELSE j + 1
<1>7. \A j \in 1..(len - 1) : Was(j) \in 1..len /\ Was(j) # i /\ rest[j] = waiters[Was(j)]
  BY <1>2, <1>6
<1>8. \A j, k \in 1..(len - 1) : Was(j) = Was(k) => j = k
  BY <1>2
<1>9. /\ \A j, k \in 1..len : waiters[j].id = waiters[k].id => j = k
      /\ \A j \in 1..len : waiters[j].id <= asked /\ waiters[j].id \notin fired
  BY <1>2 DEF Inv, WaitersAreAsked, DistinctIds
<1>. HIDE DEF Was
<1>10. DistinctIds(rest)
  <2>1. ASSUME NEW j \in 1..(len - 1), NEW k \in 1..(len - 1), rest[j].id = rest[k].id
        PROVE  j = k
    <3>1. waiters[Was(j)].id = waiters[Was(k)].id
      BY <1>7, <2>1
    <3>2. Was(j) \in 1..len /\ Was(k) \in 1..len
      BY <1>7
    <3>3. Was(j) = Was(k)
      BY <1>9, <3>1, <3>2
    <3>. QED  BY <1>8, <3>3
  <2>. QED  BY <1>6, <2>1 DEF DistinctIds
<1>11. \A j \in 1..Len(rest) : rest[j].id <= asked /\ rest[j].id \notin fired \cup {id}
  BY <1>1, <1>2, <1>6, <1>7, <1>9
<1>12. WaitersAreAsked'
  BY <1>5, <1>10, <1>11 DEF WaitersAreAsked, DistinctIds
<1>13. \A j \in 1..Len(waiters') : waiters'[j].src # None =>
         \E k \in 1..Len(waiters) : waiters'[j] = waiters[k]
  BY <1>2, <1>5, <1>6, <1>7
<1>14. \A r \in Requests : answers'[r] = None => answers[r] = None
  BY <1>5
<1>15. asked \in Nat /\ MaxBlocking \in Nat /\ asked' \in asked..MaxBlocking
  BY <1>5, NumbersAreNumbers
<1>16. \A r \in Requests : r > asked' => answers'[r] = None /\ r \notin fired'
  <2>1. \A r \in Requests : r > asked => r # id
    BY <1>5, <1>15 DEF Requests
  <2>. QED  BY <1>5, <2>1 DEF Inv, RequestsAreNew
<1>17. fired' \subseteq Requests
  BY <1>4, <1>5
<1>. QED  BY <1>4, <1>5, <1>6, <1>12, <1>13, <1>14, <1>15, <1>16, <1>17, SameListsInv

LEMMA DisconnectInv ==
  ASSUME Inv, NEW s \in Sessions, Disconnect(s)
  PROVE  Inv'
<1>1. connected' \subseteq Sessions
  BY DEF Disconnect, Inv, TypeOK
<1>2. UNCHANGED <<lists, strings, waiters, answers, moves, pushed, asked, gone, fired, unheard>>
  BY DEF Disconnect
<1>3. /\ waiters \in Seq(Waiters) /\ answers \in [Requests -> Answers] /\ fired \subseteq Requests
      /\ asked \in asked..MaxBlocking
  BY NumbersAreNumbers DEF Inv, TypeOK, Answers
<1>4. WaitersAreAsked'
  BY <1>2 DEF Inv, WaitersAreAsked, DistinctIds
<1>5. \A r \in Requests : r > asked => answers[r] = None /\ r \notin fired
  BY DEF Inv, RequestsAreNew
<1>. QED  BY <1>1, <1>2, <1>3, <1>4, <1>5, SameListsInv

(***************************************************************************)
(* The invariant holds.                                                    *)
(***************************************************************************)
LEMMA InitInv ==
  ASSUME Init
  PROVE  Inv
<1>1. MaxElements \in Nat /\ MaxBlocking \in Nat
  BY BoundsAssumption
<1>2. TypeOK
  BY <1>1 DEF Init, TypeOK
<1>3. \A k \in Keys : Len(lists[k]) = 0
  BY DEF Init
<1>4. Single(lists) /\ \A e : ~Placed(lists, e)
  BY <1>3 DEF Single, Placed
<1>5. \A e \in Elements : ~(e <= pushed)
  BY <1>1 DEF Init, Elements
<1>6. Located /\ GoneWerePushed
  BY <1>4, <1>5 DEF Located, GoneWerePushed, Init
<1>7. WaitersHearOfElements /\ WaitersAreAsked
  BY DEF Init, WaitersHearOfElements, WaitersAreAsked, DistinctIds, ToSet
<1>8. RequestsAreNew /\ MovesAreEvents
  BY DEF Init, RequestsAreNew, MovesAreEvents
<1>. QED  BY <1>2, <1>4, <1>6, <1>7, <1>8 DEF Inv

LEMMA StutterInv ==
  ASSUME Inv, UNCHANGED vars
  PROVE  Inv'
BY DEF Inv, vars, TypeOK, Single, Located, Placed, GoneWerePushed,
       WaitersHearOfElements, WaitersAreAsked, DistinctIds, RequestsAreNew, MovesAreEvents

(* The steps, without the sets their inputs come from.                     *)
LEMMA Steps ==
  ASSUME Next
  PROVE  \/ \E key \in Keys, side \in {"left", "right"}, n \in BatchSizes : PushCommand(key, n, side)
         \/ \E key \in Keys, side \in {"left", "right"} : PopCommand(key, side)
         \/ \E src \in Keys, dst \in Keys : RPopLPushCommand(src, dst)
         \/ \E src \in Keys, dst \in Keys, s \in Sessions : BRPopLPushCommand(s, src, dst)
         \/ \E s \in Sessions : Disconnect(s)
         \/ \E s \in Sessions, n \in 1..2 : BRPopCommand(s, n)
         \/ \E key \in Keys : SetCommand(key)
         \/ \E key \in Keys : DelCommand(key)
         \/ \E i \in 1..Len(waiters) : Timeout(i)
BY Zenon DEF Next, Fire

LEMMA NextInv ==
  ASSUME Inv, [Next]_vars
  PROVE  Inv'
<1>1. CASE UNCHANGED vars
  BY <1>1, StutterInv
<1>2. CASE Next
  <2>1. CASE \E key \in Keys, side \in {"left", "right"}, n \in BatchSizes : PushCommand(key, n, side)
    BY <2>1, PushInv
  <2>2. CASE \E key \in Keys, side \in {"left", "right"} : PopCommand(key, side)
    BY <2>2, PopInv
  <2>3. CASE \E src \in Keys, dst \in Keys : RPopLPushCommand(src, dst)
    BY <2>3, RPopLPushInv
  <2>4. CASE \E src \in Keys, dst \in Keys, s \in Sessions : BRPopLPushCommand(s, src, dst)
    BY <2>4, BRPopLPushInv
  <2>5. CASE \E s \in Sessions : Disconnect(s)
    BY <2>5, DisconnectInv
  <2>6. CASE \E s \in Sessions, n \in 1..2 : BRPopCommand(s, n)
    BY <2>6, BRPopInv
  <2>7. CASE \E key \in Keys : SetCommand(key)
    BY <2>7, SetInv
  <2>8. CASE \E key \in Keys : DelCommand(key)
    BY <2>8, DelInv
  <2>9. CASE \E i \in 1..Len(waiters) : Timeout(i)
    BY <2>9, TimeoutInv
  <2>. QED  BY <1>2, <2>1, <2>2, <2>3, <2>4, <2>5, <2>6, <2>7, <2>8, <2>9, Steps
<1>. QED  BY <1>1, <1>2

(* The lists, the waiters and the requests belong together, whatever the   *)
(* commands, the listeners and the timers do (LPushCommand,                *)
(* BRPoplPushCommand, BRPopCommand, RPopLPushCommand).                     *)
THEOREM BlockingInvariance == Spec => []Inv
<1>1. Init => Inv
  BY InitInv
<1>2. Inv /\ [Next]_vars => Inv'
  BY NextInv
<1>. QED  BY <1>1, <1>2, PTL DEF Spec

(***************************************************************************)
(* What follows.                                                           *)
(***************************************************************************)
LEMMA OnePlace ==
  ASSUME Inv, NEW e \in Elements
  PROVE  Cardinality(Places(e)) = IF e <= pushed /\ e \notin gone THEN 1 ELSE 0
<1>1. lists \in [Keys -> Seq(Elements)]
  BY DEF Inv, TypeOK
<1>2. PICK P : P = Places(e)
  OBVIOUS
<1>3. \A k \in Keys : \A i \in 1..Len(lists[k]) : lists[k][i] = e => <<k, i>> \in P
  <2>1. ASSUME NEW k \in Keys, NEW i \in 1..Len(lists[k]), lists[k][i] = e
        PROVE  <<k, i>> \in P
    <3>1. <<k, i>> \in {k} \X (1..Len(lists[k]))
      OBVIOUS
    <3>2. <<k, i>> \in UNION {{l} \X (1..Len(lists[l])) : l \in Keys}
      BY <3>1
    <3>. QED  BY <1>2, <2>1, <3>2 DEF Places
  <2>. QED  BY <2>1
<1>4. \A p \in P : /\ p = <<p[1], p[2]>> /\ p[1] \in Keys
                   /\ p[2] \in 1..Len(lists[p[1]]) /\ lists[p[1]][p[2]] = e
  BY <1>2 DEF Places
<1>5. CASE Placed(lists, e)
  <2>1. PICK k \in Keys : \E i \in 1..Len(lists[k]) : lists[k][i] = e
    BY <1>5 DEF Placed
  <2>2. PICK i \in 1..Len(lists[k]) : lists[k][i] = e
    BY <2>1
  <2>3. <<k, i>> \in P
    BY <1>3, <2>2
  <2>4. \A p \in P : p = <<k, i>>
    <3>1. \A a, b \in Keys : \A x \in 1..Len(lists[a]), y \in 1..Len(lists[b]) :
            lists[a][x] = lists[b][y] => a = b /\ x = y
      BY DEF Inv, Single
    <3>. SUFFICES ASSUME NEW p \in P
                  PROVE  p = <<k, i>>
      OBVIOUS
    <3>2. PICK l, j : l = p[1] /\ j = p[2]
      OBVIOUS
    <3>3. p = <<l, j>> /\ l \in Keys /\ j \in 1..Len(lists[l]) /\ lists[l][j] = e
      BY <1>4, <3>2
    <3>4. l = k /\ j = i
      BY ONLY <3>1, <3>3, <2>2, k \in Keys, i \in 1..Len(lists[k])
    <3>. QED  BY <3>3, <3>4
  <2>5. P = {<<k, i>>}
    BY <2>3, <2>4
  <2>6. Cardinality(P) = 1
    BY <2>5, FS_Singleton
  <2>. QED  BY <1>2, <1>5, <2>6 DEF Inv, Located
<1>6. CASE ~Placed(lists, e)
  <2>1. P = {}
    BY <1>4, <1>6 DEF Placed
  <2>2. Cardinality(P) = 0
    BY <2>1, FS_EmptySet
  <2>. QED  BY <1>2, <1>6, <2>2 DEF Inv, Located
<1>. QED  BY <1>5, <1>6

(* Every element that was pushed is in one place of one list until it is   *)
(* taken out, through any pushes, moves and waiters                        *)
(* (RPopLPushCommand.process, BRPoplPushCommand, LPopCommand).             *)
THEOREM ElementsStay == Spec => []ElementsConserved
<1>1. Inv => ElementsConserved
  BY OnePlace DEF ElementsConserved, Inv
<1>. QED  BY <1>1, BlockingInvariance, PTL

(* Nobody waits beside elements of which an event told (LPushCommand,      *)
(* RPushCommand, BRPoplPushCommand).                                       *)
THEOREM WaitersHear == Spec => []WaitersHearOfElements
<1>1. Inv => WaitersHearOfElements
  BY DEF Inv
<1>. QED  BY <1>1, BlockingInvariance, PTL

(* What each step does to the answers and the moves of the requests.       *)
LEMMA FiredMoveNothing ==
  ASSUME Inv, Next, NEW r \in fired
  PROVE  moves'[r] = moves[r]
<1>1. r \in Requests /\ r <= asked /\ asked \in Nat
  BY NumbersAreNumbers DEF Inv, TypeOK, RequestsAreNew, Requests
<1>2. ASSUME NEW key \in Keys, NEW side, NEW n \in BatchSizes, PushCommand(key, n, side)
      PROVE  moves'[r] = moves[r]
  <2>1. NoListener(waiters, key, r)
    BY <1>1, NewAreDeaf
  <2>2. n \in Nat \ {0}
    BY BatchAssumption
  <2>3. Become(PushState(key, n, side)) /\ pushed + n <= MaxElements
    BY <1>2 DEF PushCommand, PushState
  <2>4. PushLeaves(PushState(key, n, side), key, n)
    BY <2>2, <2>3, PushDoes
  <2>. QED  BY <1>1, <2>1, <2>3, <2>4 DEF PushLeaves, Become
<1>3. ASSUME NEW src \in Keys, NEW dst \in Keys, NEW s \in Sessions, BRPopLPushCommand(s, src, dst)
      PROVE  moves'[r] = moves[r]
  <2>1. PICK st : st = Block(State, asked + 1, s, src, dst)
    OBVIOUS
  <2>2. Become(st) /\ asked < MaxBlocking
    BY <1>3, <2>1 DEF BRPopLPushCommand
  <2>3. BlockLeaves(st, asked + 1, src)
    BY <2>1, <2>2, BlockDoes
  <2>4. r # asked + 1
    BY <1>1
  <2>. QED  BY <1>1, <2>2, <2>3, <2>4 DEF BlockLeaves, Become
<1>4. ASSUME NEW src \in Keys, NEW dst \in Keys, RPopLPushCommand(src, dst)
      PROVE  moves' = moves
  BY <1>4 DEF RPopLPushCommand, Become, State
<1>5. ASSUME NEW s \in Sessions, NEW n \in 1..2, BRPopCommand(s, n)
      PROVE  moves' = moves
  BY <1>5 DEF BRPopCommand, Become, Settle, State
<1>6. ASSUME NEW i \in 1..Len(waiters), Timeout(i)
      PROVE  moves' = moves
  BY <1>6, TimeoutDoes
<1>7. ASSUME NEW key \in Keys, NEW side, PopCommand(key, side)
      PROVE  moves' = moves
  BY <1>7 DEF PopCommand
<1>8. CASE \E key \in Keys, side \in {"left", "right"}, n \in BatchSizes : PushCommand(key, n, side)
  BY <1>2, <1>8
<1>9. CASE \E key \in Keys, side \in {"left", "right"} : PopCommand(key, side)
  BY <1>7, <1>9
<1>10. CASE \E src \in Keys, dst \in Keys : RPopLPushCommand(src, dst)
  BY <1>4, <1>10
<1>11. CASE \E src \in Keys, dst \in Keys, s \in Sessions : BRPopLPushCommand(s, src, dst)
  BY <1>3, <1>11
<1>12. CASE \E s \in Sessions, n \in 1..2 : BRPopCommand(s, n)
  BY <1>5, <1>12
<1>13. CASE \E i \in 1..Len(waiters) : Timeout(i)
  BY <1>6, <1>13
<1>14. CASE \/ \E key \in Keys : SetCommand(key)
            \/ \E key \in Keys : DelCommand(key)
            \/ \E s \in Sessions : Disconnect(s)
  BY <1>14 DEF SetCommand, DelCommand, Disconnect
<1>. QED  BY <1>8, <1>9, <1>10, <1>11, <1>12, <1>13, <1>14, Steps

(* No push moves an element for a request whose timer has fired            *)
(* (BRPoplPushCommand.removeListeners).                                    *)
THEOREM TimedOutStayStill == Spec => TimedOutMovesNothing
<1>1. Inv /\ [Next]_vars => [\A r \in fired : moves'[r] = moves[r]]_vars
  BY FiredMoveNothing
<1>. QED  BY <1>1, BlockingInvariance, PTL DEF Spec, TimedOutMovesNothing

(* The waiters of one key that have no answer, in their order.             *)
Waiting(i, j) ==
  /\ i < j /\ waiters[i].src = waiters[j].src
  /\ answers[waiters[i].id] = None /\ answers[waiters[j].id] = None

(* Only a push and a blocking move answer with an element, and the latter  *)
(* answers nobody who waits.                                               *)
LEMMA ServedInTurn ==
  ASSUME Inv, Next, NEW i \in 1..Len(waiters), NEW j \in 1..Len(waiters), Waiting(i, j),
         answers'[waiters[j].id] \in Elements
  PROVE  answers'[waiters[i].id] \in Elements
<1>1. PICK p : p = waiters[i].id
  OBVIOUS
<1>2. PICK q : q = waiters[j].id
  OBVIOUS
<1>3. PICK src : src = waiters[i].src /\ src = waiters[j].src
  BY DEF Waiting
<1>4. p \in Requests /\ q \in Requests /\ p <= asked /\ q <= asked /\ p # q /\ asked \in Nat
  <2>1. waiters \in Seq(Waiters) /\ Len(waiters) \in Nat
    BY NumbersAreNumbers DEF Inv, TypeOK
  <2>2. waiters[i] \in Waiters /\ waiters[j] \in Waiters /\ i # j
    BY <2>1, ElementOfSeq DEF Waiting
  <2>3. p \in Requests /\ q \in Requests
    BY <1>1, <1>2, <2>2 DEF Waiters
  <2>. QED  BY <1>1, <1>2, <2>2, <2>3, NumbersAreNumbers DEF Inv, WaitersAreAsked, DistinctIds
<1>5. answers[q] = None /\ answers'[q] \in Elements /\ answers[q] \notin Elements /\ Nil \notin Elements
  BY <1>2, AnswerAssumption DEF Waiting
<1>6. ASSUME NEW key \in Keys, NEW side, NEW n \in BatchSizes, PushCommand(key, n, side)
      PROVE  answers'[p] \in Elements
  <2>1. PICK st : st = PushState(key, n, side)
    OBVIOUS
  <2>2. n \in Nat \ {0}
    BY BatchAssumption
  <2>3. Become(st) /\ pushed + n <= MaxElements
    BY <1>6, <2>1 DEF PushCommand, PushState
  <2>4. PushLeaves(st, key, n)
    BY <2>1, <2>2, <2>3, PushDoes
  <2>5. answers' = st.answers /\ st.waiters = waiters
    BY <2>3, <2>4 DEF Become, PushLeaves
  <2>6. CASE src = key
    <3>1. State.waiters = waiters /\ State.answers = answers
      BY StateIsOrderly
    <3>2. Open(State, i, key) /\ Open(State, j, key) /\ i < j
      BY <1>3, <2>6, <3>1 DEF Open, Waiting
    <3>3. Served(st, j)
      BY <1>2, <1>5, <2>5 DEF Served
    <3>4. Served(st, i)
      BY <2>4, <3>2, <3>3 DEF PushLeaves
    <3>. QED  BY <1>1, <2>5, <3>4 DEF Served
  <2>7. CASE src # key
    <3>1. \A m \in 1..Len(waiters) : waiters[m].id = q => m = j
      BY <1>2 DEF Inv, WaitersAreAsked, DistinctIds
    <3>2. NoListener(waiters, key, q)
      BY <1>3, <2>7, <3>1 DEF NoListener, Deaf
    <3>3. answers'[q] = answers[q]
      BY <1>4, <2>4, <2>5, <3>2 DEF PushLeaves
    <3>. QED  BY <1>5, <3>3
  <2>. QED  BY <2>6, <2>7
<1>7. ASSUME NEW x \in Keys, NEW dst \in Keys, NEW s \in Sessions, BRPopLPushCommand(s, x, dst)
      PROVE  FALSE
  <2>1. PICK st : st = Block(State, asked + 1, s, x, dst)
    OBVIOUS
  <2>2. Become(st) /\ asked < MaxBlocking
    BY <1>7, <2>1 DEF BRPopLPushCommand
  <2>3. BlockLeaves(st, asked + 1, x)
    BY <2>1, <2>2, BlockDoes
  <2>4. q # asked + 1
    BY <1>4
  <2>5. answers'[q] = answers[q]
    BY <1>4, <2>2, <2>3, <2>4 DEF BlockLeaves, Become
  <2>. QED  BY <1>5, <2>5
<1>8. ASSUME NEW s \in Sessions, NEW n \in 1..2, BRPopCommand(s, n)
      PROVE  FALSE
  <2>1. q # asked + 1
    BY <1>4
  <2>2. answers'[q] = answers[q]
    <3>1. /\ State.answers = answers /\ State \in States
          /\ asked + 1 \in Requests /\ Refused \in Answers
      BY <1>8, StateIsOrderly, NumbersAreNumbers DEF Orderly, BRPopCommand, Requests, Answers
    <3>2. CASE n = 1
      BY <1>8, <3>2 DEF BRPopCommand, Become, State
    <3>3. CASE n # 1
      <4>1. Become(Settle(State, asked + 1, Refused))
        BY <1>8, <3>3 DEF BRPopCommand
      <4>2. Settle(State, asked + 1, Refused).answers[q] = State.answers[q]
        BY <1>4, <2>1, <3>1, SettleEffect
      <4>. QED  BY <3>1, <4>1, <4>2 DEF Become
    <3>. QED  BY <3>2, <3>3
  <2>. QED  BY <1>5, <2>2
<1>9. ASSUME NEW m \in 1..Len(waiters), Timeout(m)
      PROVE  FALSE
  <2>1. answers'[q] = answers[q] \/ answers'[q] = Nil
    BY <1>4, <1>9, TimeoutDoes
  <2>. QED  BY <1>5, <2>1
<1>10. ASSUME answers' = answers
       PROVE  FALSE
  BY <1>5, <1>10
<1>11. CASE \E key \in Keys, side \in {"left", "right"}, n \in BatchSizes : PushCommand(key, n, side)
  BY <1>1, <1>6, <1>11
<1>12. CASE \E key \in Keys, side \in {"left", "right"} : PopCommand(key, side)
  BY <1>10, <1>12 DEF PopCommand
<1>13. CASE \E src1 \in Keys, dst \in Keys : RPopLPushCommand(src1, dst)
  BY <1>10, <1>13 DEF RPopLPushCommand, Become, State
<1>14. CASE \E x \in Keys, dst \in Keys, s \in Sessions : BRPopLPushCommand(s, x, dst)
  BY <1>7, <1>14
<1>15. CASE \E s \in Sessions, n \in 1..2 : BRPopCommand(s, n)
  BY <1>8, <1>15
<1>16. CASE \E m \in 1..Len(waiters) : Timeout(m)
  BY <1>9, <1>16
<1>17. CASE \/ \E key \in Keys : SetCommand(key)
            \/ \E key \in Keys : DelCommand(key)
            \/ \E s \in Sessions : Disconnect(s)
  BY <1>10, <1>17 DEF SetCommand, DelCommand, Disconnect
<1>. QED  BY <1>11, <1>12, <1>13, <1>14, <1>15, <1>16, <1>17, Steps

(* Those who wait for a list are served in the order in which they came    *)
(* (EventEmitter.emit, BRPoplPushCommand).                                 *)
THEOREM WaitersAreServedInTurn == Spec => FirstComeFirstServed
<1>1. Inv /\ [Next]_vars =>
        [\A i, j \in 1..Len(waiters) :
           /\ i < j /\ waiters[i].src = waiters[j].src
           /\ answers[waiters[i].id] = None /\ answers[waiters[j].id] = None
           /\ answers'[waiters[j].id] \in Elements
           => answers'[waiters[i].id] \in Elements]_vars
  BY ServedInTurn DEF Waiting
<1>. QED  BY <1>1, BlockingInvariance, PTL DEF Spec, FirstComeFirstServed
=============================================================================
