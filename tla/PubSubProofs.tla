---------------------------- MODULE PubSubProofs ----------------------------
(***************************************************************************)
(* Theorems about PubSub, for any sessions, channels and bounds.           *)
(*                                                                         *)
(* What is wanted of subscriptions, that the emitter a session holds for a *)
(* channel is the one whose callback is attached, is inductive as soon as  *)
(* the listeners are known to be within their bound.  To tell the copies   *)
(* of a message from what an inbox held before takes one thing more: no    *)
(* message in an inbox is younger than the last one published.             *)
(***************************************************************************)
EXTENDS PubSub, SequenceTheorems, FiniteSetTheorems, WellFoundedInduction, TLAPS

(***************************************************************************)
(* Least numbers: what stands in for induction here, because a theorem     *)
(* about every predicate cannot be applied to one.                         *)
(***************************************************************************)
LEMMA Least ==
  ASSUME NEW N \in SUBSET Nat, NEW n \in N
  PROVE  \E u \in N : \A m \in N : u <= m
<1>1. PICK R : R = {ss \in Nat \X Nat : ss[1] < ss[2]}
  OBVIOUS
<1>2. IsWellFoundedOn(R, Nat)
  BY <1>1, NatLessThanWellFounded, Zenon DEF OpToRel
<1>3. \E u \in N : \A m \in N : ~(<<m, u>> \in R)
  <2>1. N # {}
    OBVIOUS
  <2>. QED  BY <1>2, <2>1, WFMin, Zenon
<1>4. PICK u \in N : \A m \in N : ~(m < u)
  BY <1>1, <1>3
<1>. QED  BY <1>4

(***************************************************************************)
(* The filter of SUBSCRIBE.                                                *)
(***************************************************************************)

(* The function that Without computes is there for every length.           *)
IsRest(f, q, C, n) ==
  f = [i \in 0..n |-> IF i = 0 THEN <<>>
                      ELSE IF q[i] \in C THEN f[i - 1] ELSE Append(f[i - 1], q[i])]

LEMMA RestExists ==
  ASSUME NEW q, NEW C, NEW n \in Nat
  PROVE  \E f : IsRest(f, q, C, n)
<1>. SUFFICES ASSUME ~\E f : IsRest(f, q, C, n) PROVE FALSE
  OBVIOUS
<1>1. PICK N : N = {m \in Nat : ~\E f : IsRest(f, q, C, m)}
  OBVIOUS
<1>2. PICK u \in N : \A m \in N : u <= m
  BY <1>1, Least
<1>3. u \in Nat /\ ~\E f : IsRest(f, q, C, u)
  BY <1>1
<1>4. CASE u = 0
  <2>1. IsRest([i \in 0..0 |-> <<>>], q, C, 0)
    BY DEF IsRest
  <2>. QED  BY <1>3, <1>4, <2>1
<1>5. CASE u # 0
  <2>1. u - 1 \in Nat /\ u - 1 \notin N
    BY <1>2, <1>3, <1>5
  <2>2. PICK f : IsRest(f, q, C, u - 1)
    BY <1>1, <2>1
  <2>3. PICK x : x = IF q[u] \in C THEN f[u - 1] ELSE Append(f[u - 1], q[u])
    OBVIOUS
  <2>4. PICK g : g = [i \in 0..u |-> IF i = u THEN x ELSE f[i]]
    OBVIOUS
  <2>5. \A i \in 0..(u - 1) : g[i] = f[i] /\ i \in 0..u
    BY <1>3, <2>4
  <2>6. \A i \in 0..(u - 1) : f[i] = IF i = 0 THEN <<>>
                                     ELSE IF q[i] \in C THEN f[i - 1] ELSE Append(f[i - 1], q[i])
    BY <2>2 DEF IsRest
  <2>7. ASSUME NEW i \in 0..u
        PROVE  g[i] = IF i = 0 THEN <<>> ELSE IF q[i] \in C THEN g[i - 1] ELSE Append(g[i - 1], q[i])
    <3>1. CASE i = u
      <4>1. g[i] = x /\ i # 0 /\ i - 1 \in 0..(u - 1)
        BY <1>3, <1>5, <2>4, <3>1
      <4>2. g[i - 1] = f[u - 1]
        BY <2>5, <3>1, <4>1
      <4>. QED  BY <2>3, <3>1, <4>1, <4>2
    <3>2. CASE i # u
      <4>1. i \in 0..(u - 1) /\ (i # 0 => i - 1 \in 0..(u - 1))
        BY <1>3, <3>2
      <4>2. g[i] = f[i] /\ (i # 0 => g[i - 1] = f[i - 1])
        BY <2>5, <4>1
      <4>. QED  BY <2>6, <4>1, <4>2
    <3>. QED  BY <3>1, <3>2
  <2>8. g = [i \in 0..u |-> IF i = 0 THEN <<>>
                            ELSE IF q[i] \in C THEN g[i - 1] ELSE Append(g[i - 1], q[i])]
    BY <2>4, <2>7
  <2>. QED  BY <1>3, <2>8 DEF IsRest
<1>. QED  BY <1>4, <1>5

(* What is left of a request are channels that were named and not in C.    *)
LEMMA WithoutIsRest ==
  ASSUME NEW S, NEW q \in Seq(S), NEW C
  PROVE  Without(q, C) \in Seq(S \ C)
<1>1. PICK n \in Nat : n = Len(q)
  OBVIOUS
<1>2. PICK f : f = CHOOSE g : IsRest(g, q, C, n)
  OBVIOUS
<1>3. IsRest(f, q, C, n)
  BY <1>2, RestExists
<1>4. Without(q, C) = f[n]
  BY <1>1, <1>2 DEF Without, IsRest
<1>5. \A i \in 0..n : f[i] = IF i = 0 THEN <<>>
                             ELSE IF q[i] \in C THEN f[i - 1] ELSE Append(f[i - 1], q[i])
  BY <1>3 DEF IsRest
<1>6. PICK N : N = {m \in 0..n : f[m] \notin Seq(S \ C)}
  OBVIOUS
<1>7. N = {}
  <2>. SUFFICES ASSUME NEW m \in N PROVE FALSE
    OBVIOUS
  <2>1. N \in SUBSET Nat
    BY <1>6
  <2>2. PICK u \in N : \A v \in N : u <= v
    BY <2>1, Least
  <2>3. u \in 0..n /\ f[u] \notin Seq(S \ C)
    BY <1>6
  <2>4. u # 0
    BY <1>5, <2>3, EmptySeq
  <2>5. u - 1 \in 0..n /\ u - 1 \notin N
    BY <2>2, <2>3, <2>4
  <2>6. f[u - 1] \in Seq(S \ C)
    BY <1>6, <2>5
  <2>7. q[u] \in S
    BY <1>1, <2>3, <2>4
  <2>8. q[u] \notin C => Append(f[u - 1], q[u]) \in Seq(S \ C)
    BY <2>6, <2>7
  <2>. QED  BY <1>5, <2>3, <2>4, <2>6, <2>8
<1>. QED  BY <1>4, <1>6, <1>7

(***************************************************************************)
(* Finite sets that sequences give rise to.                                *)
(***************************************************************************)
LEMMA ElementsAreFinite ==
  ASSUME NEW S, NEW q \in Seq(S), NEW n \in Nat, n <= Len(q), NEW T,
         \A x \in T : \E i \in 1..n : x = q[i]
  PROVE  IsFiniteSet(T)
<1>1. IsFiniteSet(1..n)
  BY FS_Interval
<1>2. PICK U : U = {q[i] : i \in 1..n}
  OBVIOUS
<1>3. PICK f : f = [i \in 1..n |-> q[i]]
  OBVIOUS
<1>4. f \in Surjection(1..n, U)
  BY <1>2, <1>3 DEF Surjection
<1>5. IsFiniteSet(U)
  BY <1>1, <1>4, FS_Surjection
<1>6. T \in SUBSET U
  BY <1>2
<1>. QED  BY <1>5, <1>6, FS_Subset

(* Of several equal elements one is the last.                              *)
LEMMA LastOne ==
  ASSUME NEW S, NEW q \in Seq(S), NEW n \in 1..Len(q)
  PROVE  \E i \in 1..Len(q) : q[i] = q[n] /\ \A j \in i + 1..Len(q) : q[j] # q[n]
<1>1. PICK N : N = {m \in 0..Len(q) - 1 : q[Len(q) - m] = q[n]}
  OBVIOUS
<1>2. N \in SUBSET Nat /\ Len(q) - n \in N
  BY <1>1
<1>3. PICK u \in N : \A m \in N : u <= m
  BY <1>2, Least
<1>4. PICK i : i = Len(q) - u
  OBVIOUS
<1>5. i \in 1..Len(q) /\ q[i] = q[n] /\ u = Len(q) - i
  BY <1>1, <1>4
<1>6. ASSUME NEW j \in i + 1..Len(q), q[j] = q[n]
      PROVE  FALSE
  <2>1. Len(q) - j \in N
    BY <1>1, <1>5, <1>6
  <2>. QED  BY <1>3, <1>5, <2>1
<1>. QED  BY <1>5, <1>6

(***************************************************************************)
(* The invariant.                                                          *)
(***************************************************************************)
ListenersAreBounded == Len(emitters) <= MaxEmitters

(* No message is younger than the last one published.                      *)
MessagesAreOld ==
  \A s \in Sessions : \A i \in 1..Len(inbox[s]) :
    inbox[s][i].kind = "message" => inbox[s][i].number <= published

Inv == /\ SubscriptionsAreAttached
       /\ ListenersAreBounded
       /\ MessagesAreOld

(* The listeners of a channel, and the callbacks among them.               *)
LEMMA ListenersAreFew ==
  ASSUME Inv, NEW c
  PROVE  /\ IsFiniteSet(Listeners(c)) /\ Cardinality(Listeners(c)) \in 0..MaxEmitters
         /\ \A s : IsFiniteSet(Callbacks(s, c)) /\ Cardinality(Callbacks(s, c)) \in Nat
<1>1. PICK n \in Nat : n = Len(emitters)
  BY DEF Inv, SubscriptionsAreAttached, TypeOK
<1>2. IsFiniteSet(1..n) /\ Cardinality(1..n) = n
  BY FS_Interval
<1>3. PICK L : L = Listeners(c)
  OBVIOUS
<1>4. L \in SUBSET (1..n)
  BY <1>1, <1>3 DEF Listeners
<1>5. IsFiniteSet(L) /\ Cardinality(L) <= n /\ Cardinality(L) \in Nat
  BY <1>2, <1>4, FS_Subset, FS_CardinalityType
<1>6. n <= MaxEmitters /\ MaxEmitters \in Nat
  BY <1>1, BoundsAssumption DEF Inv, ListenersAreBounded
<1>7. ASSUME NEW s
      PROVE  IsFiniteSet(Callbacks(s, c)) /\ Cardinality(Callbacks(s, c)) \in Nat
  <2>1. PICK K : K = Callbacks(s, c)
    OBVIOUS
  <2>2. K \in SUBSET L
    BY <1>3, <2>1 DEF Callbacks
  <2>. QED  BY <1>5, <2>1, <2>2, FS_Subset, FS_CardinalityType
<1>. QED  BY <1>3, <1>5, <1>6, <1>7

LEMMA SubscribedIsFinite ==
  ASSUME Inv, NEW s \in Sessions
  PROVE  IsFiniteSet(Subscribed(s)) /\ Subscribed(s) \subseteq Channels
<1>1. PICK n \in Nat : n = Len(emitters)
  BY DEF Inv, SubscriptionsAreAttached, TypeOK
<1>2. PICK q : q = [i \in 1..n |-> emitters[i].channel]
  OBVIOUS
<1>3. q \in Seq(Channels) /\ Len(q) = n
  <2>1. ASSUME NEW i \in 1..n
        PROVE  emitters[i].channel \in Channels
    <3>1. emitters \in Seq([session : Sessions, channel : Channels])
      BY DEF Inv, SubscriptionsAreAttached, TypeOK
    <3>2. PICK E \in Seq([session : Sessions, channel : Channels]) : E = emitters
      BY <3>1
    <3>3. E[i] \in [session : Sessions, channel : Channels]
      BY <1>1, <3>2, ElementOfSeq
    <3>. QED  BY <3>2, <3>3
  <2>2. q \in [1..n -> Channels]
    BY <1>2, <2>1
  <2>. QED  BY <2>2
<1>4. PICK T : T = Subscribed(s)
  OBVIOUS
<1>5. \A c \in T : \E i \in 1..n : c = q[i]
  BY <1>1, <1>2, <1>4
     DEF Inv, SubscriptionsAreAttached, Subscribed, Callbacks, Listeners
<1>6. IsFiniteSet(T)
  BY <1>3, <1>5, ElementsAreFinite
<1>. QED  BY <1>4, <1>6 DEF Subscribed

(***************************************************************************)
(* SUBSCRIBE.                                                              *)
(***************************************************************************)

(* What Attach leaves, cell by cell, when there were l emitters.           *)
LeftByAttach(s, new, l) ==
  /\ emitters' \in Seq([session : Sessions, channel : Channels])
  /\ Len(emitters') = l + Len(new) /\ l + Len(new) <= MaxEmitters
  /\ \A i \in 1..l : emitters'[i] = emitters[i]
  /\ \A i \in 1..Len(new) : emitters'[l + i] = [session |-> s, channel |-> new[i]]
  /\ attached' = attached \cup (l + 1..l + Len(new))
  /\ \A x \in Sessions \ {s} : subscriptions'[x] = subscriptions[x]
  /\ \A c \in Channels :
       \/ /\ \A i \in 1..Len(new) : new[i] # c
          /\ subscriptions'[s][c] = subscriptions[s][c]
       \/ \E i \in 1..Len(new) : new[i] = c /\ subscriptions'[s][c] = l + i
  /\ subscriptions' \in [Sessions -> [Channels -> 0..Len(emitters')]]
  /\ doubled \subseteq doubled' /\ doubled' \subseteq Sessions
  /\ s \notin doubled' => \A i, j \in 1..Len(new) : new[i] = new[j] => i = j

LEMMA AttachLeaves ==
  ASSUME Inv, NEW s \in Sessions, NEW new \in Seq(Channels), NEW l \in Nat, l = Len(emitters),
         Attach(s, new)
  PROVE  LeftByAttach(s, new, l)
<1>. DEFINE Newest(c) == CHOOSE i \in 1..Len(new) : new[i] = c /\ \A j \in i + 1..Len(new) : new[j] # c
<1>1. PICK n \in Nat : n = Len(new)
  OBVIOUS
<1>2. PICK more : more = [i \in 1..n |-> [session |-> s, channel |-> new[i]]]
  OBVIOUS
<1>3. more \in Seq([session : Sessions, channel : Channels]) /\ Len(more) = n
  BY <1>1, <1>2
<1>4. emitters' = emitters \o more
  BY <1>1, <1>2 DEF Attach
<1>5. /\ emitters' \in Seq([session : Sessions, channel : Channels])
      /\ Len(emitters') = l + n
      /\ \A i \in 1..l : emitters'[i] = emitters[i]
      /\ \A i \in 1..n : emitters'[l + i] = [session |-> s, channel |-> new[i]]
  <2>1. emitters \in Seq([session : Sessions, channel : Channels])
    BY DEF Inv, SubscriptionsAreAttached, TypeOK
  <2>. QED  BY <1>2, <1>3, <1>4, <2>1, ConcatProperties
<1>6. subscriptions \in [Sessions -> [Channels -> 0..l]]
  BY DEF Inv, SubscriptionsAreAttached, TypeOK
<1>7. ASSUME NEW c, NEW i \in 1..n, new[i] = c
      PROVE  Newest(c) \in 1..n /\ new[Newest(c)] = c
  <2>1. \E k \in 1..Len(new) : new[k] = new[i] /\ \A j \in k + 1..Len(new) : new[j] # new[i]
    BY <1>1, LastOne
  <2>2. \E k \in 1..Len(new) : new[k] = c /\ \A j \in k + 1..Len(new) : new[j] # c
    BY <1>7, <2>1
  <2>. QED  BY <1>1, <2>2
<1>8. PICK newest : newest = [c \in Channels |-> Newest(c)]
  OBVIOUS
<1>. HIDE DEF Newest
<1>9. PICK row : row = [c \in Channels |-> IF \E i \in 1..n : new[i] = c THEN l + newest[c]
                                           ELSE subscriptions[s][c]]
  OBVIOUS
<1>10. subscriptions' = [subscriptions EXCEPT ![s] = row]
  <2>1. subscriptions' = [subscriptions EXCEPT ![s] = [c \in Channels |->
          IF \E i \in 1..Len(new) : new[i] = c
          THEN Len(emitters) + (CHOOSE i \in 1..Len(new) :
                                  new[i] = c /\ \A j \in i + 1..Len(new) : new[j] # c)
          ELSE @[c]]]
    BY DEF Attach
  <2>2. \A c \in Channels : newest[c] = CHOOSE i \in 1..Len(new) :
                                          new[i] = c /\ \A j \in i + 1..Len(new) : new[j] # c
    BY <1>8 DEF Newest
  <2>3. row = [c \in Channels |->
          IF \E i \in 1..Len(new) : new[i] = c
          THEN Len(emitters) + (CHOOSE i \in 1..Len(new) :
                                  new[i] = c /\ \A j \in i + 1..Len(new) : new[j] # c)
          ELSE subscriptions[s][c]]
    BY ONLY <1>1, <1>9, <2>2, l = Len(emitters)
  <2>4. subscriptions' = [subscriptions EXCEPT ![s] = [c \in Channels |->
          IF \E i \in 1..Len(new) : new[i] = c
          THEN Len(emitters) + (CHOOSE i \in 1..Len(new) :
                                  new[i] = c /\ \A j \in i + 1..Len(new) : new[j] # c)
          ELSE subscriptions[s][c]]]
    BY <1>6, <2>1
  <2>. QED  BY ONLY <2>3, <2>4
<1>11. ASSUME NEW c \in Channels
       PROVE  \/ (\A i \in 1..n : new[i] # c) /\ row[c] = subscriptions[s][c]
              \/ \E i \in 1..n : new[i] = c /\ row[c] = l + i
  BY <1>7, <1>8, <1>9
<1>12. row \in [Channels -> 0..(l + n)]
  <2>1. ASSUME NEW c \in Channels
        PROVE  row[c] \in 0..(l + n)
    BY <1>1, <1>6, <1>11, <2>1
  <2>. QED  BY <1>9, <2>1
<1>13. subscriptions' \in [Sessions -> [Channels -> 0..(l + n)]]
  BY <1>1, <1>6, <1>10, <1>12
<1>14. /\ \A x \in Sessions \ {s} : subscriptions'[x] = subscriptions[x]
       /\ subscriptions'[s] = row
  BY <1>6, <1>10
<1>15. /\ attached' = attached \cup (l + 1..l + n)
       /\ l + n <= MaxEmitters
  BY <1>1 DEF Attach
<1>16. /\ doubled \subseteq doubled' /\ doubled' \subseteq Sessions
       /\ s \notin doubled' => \A i, j \in 1..n : new[i] = new[j] => i = j
  BY <1>1 DEF Attach, Inv, SubscriptionsAreAttached, TypeOK
<1>17. ASSUME NEW c \in Channels
       PROVE  \/ (\A i \in 1..n : new[i] # c) /\ subscriptions'[s][c] = subscriptions[s][c]
              \/ \E i \in 1..n : new[i] = c /\ subscriptions'[s][c] = l + i
  <2>1. subscriptions'[s][c] = row[c]
    BY <1>14
  <2>. QED  BY <1>11, <2>1
<1>18. subscriptions' \in [Sessions -> [Channels -> 0..Len(emitters')]]
  <2>1. PICK m : m = Len(emitters') /\ m = l + n
    BY <1>5
  <2>. QED  BY ONLY <1>13, <2>1
<1>. QED  BY ONLY <1>1, <1>5, <1>14, <1>15, <1>16, <1>17, <1>18 DEF LeftByAttach

(* The replies that SUBSCRIBE writes.                                      *)
LEMMA AttachWrites ==
  ASSUME Inv, NEW s \in Sessions, NEW new \in Seq(Channels), Attach(s, new)
  PROVE  \E more \in Seq(Written) :
           /\ inbox' = [inbox EXCEPT ![s] = @ \o more]
           /\ \A i \in 1..Len(more) : more[i].kind = "subscribe"
<1>1. PICK n \in Nat : n = Len(new)
  OBVIOUS
<1>2. PICK count : count = [i \in 1..n |-> Cardinality(Subscribed(s) \cup {new[j] : j \in 1..i})]
  OBVIOUS
<1>3. ASSUME NEW i \in 1..n
      PROVE  count[i] \in Nat
  <2>1. PICK T : T = {new[j] : j \in 1..i}
    OBVIOUS
  <2>2. IsFiniteSet(T)
    BY <1>1, <2>1, ElementsAreFinite
  <2>3. IsFiniteSet(Subscribed(s) \cup T)
    BY <2>2, SubscribedIsFinite, FS_Union
  <2>. QED  BY <1>2, <2>1, <2>3, FS_CardinalityType
<1>4. PICK more : more = [i \in 1..n |-> [kind |-> "subscribe", channel |-> new[i], number |-> count[i]]]
  OBVIOUS
<1>5. more \in Seq(Written) /\ Len(more) = n
  <2>1. ASSUME NEW i \in 1..n
        PROVE  more[i] \in Written
    BY <1>1, <1>3, <1>4 DEF Written
  <2>. QED  BY <1>4, <2>1
<1>6. inbox' = [inbox EXCEPT ![s] = @ \o more]
  BY <1>1, <1>2, <1>4 DEF Attach
<1>. QED  BY <1>4, <1>5, <1>6

(* No message of q is younger than p.                                      *)
NoneYounger(q, p) ==
  \A i \in 1..Len(q) : q[i].kind = "message" => q[i].number <= p

LEMMA GrowsNoYounger ==
  ASSUME NEW q \in Seq(Written), NEW more \in Seq(Written), NEW p \in Nat, NEW r \in Nat, p <= r,
         NoneYounger(q, p), \A i \in 1..Len(more) : more[i].kind = "message" => more[i].number = r
  PROVE  q \o more \in Seq(Written) /\ NoneYounger(q \o more, r)
<1>1. PICK w : w = q \o more
  OBVIOUS
<1>2. /\ w \in Seq(Written) /\ Len(w) = Len(q) + Len(more)
      /\ \A i \in 1..Len(w) : w[i] = IF i <= Len(q) THEN q[i] ELSE more[i - Len(q)]
  BY <1>1, ConcatProperties
<1>3. ASSUME NEW i \in 1..Len(w), w[i].kind = "message"
      PROVE  w[i].number <= r
  <2>1. CASE i <= Len(q)
    <3>1. i \in 1..Len(q) /\ w[i] = q[i]
      BY <1>2, <2>1
    <3>2. q[i] \in Written
      BY <3>1, ElementOfSeq
    <3>3. q[i].number \in Nat
      BY <3>2 DEF Written
    <3>4. q[i].number <= p
      BY <1>3, <3>1 DEF NoneYounger
    <3>. QED  BY <2>1, <3>1, <3>3, <3>4
  <2>2. CASE i > Len(q)
    <3>1. i - Len(q) \in 1..Len(more) /\ w[i] = more[i - Len(q)]
      BY <1>2, <2>2
    <3>. QED  BY <1>3, <3>1
  <2>. QED  BY <1>2, <2>1, <2>2
<1>. QED  BY <1>1, <1>2, <1>3 DEF NoneYounger

LEMMA InboxesAreOld ==
  ASSUME Inv, NEW s \in Sessions
  PROVE  inbox[s] \in Seq(Written) /\ NoneYounger(inbox[s], published)
BY DEF Inv, SubscriptionsAreAttached, TypeOK, MessagesAreOld, NoneYounger

(* The part of the invariant about messages.                               *)
LEMMA MessagesStay ==
  ASSUME \A s \in Sessions : NoneYounger(inbox[s], published)'
  PROVE  MessagesAreOld'
BY DEF MessagesAreOld, NoneYounger

LEMMA AttachMessages ==
  ASSUME Inv, NEW s \in Sessions, NEW new \in Seq(Channels), Attach(s, new)
  PROVE  /\ inbox' \in [Sessions -> Seq(Written)]
         /\ MessagesAreOld'
<1>1. PICK more \in Seq(Written) :
        /\ inbox' = [inbox EXCEPT ![s] = @ \o more]
        /\ \A i \in 1..Len(more) : more[i].kind = "subscribe"
  BY AttachWrites
<1>2. PICK p \in Nat : p = published /\ published' = p
  BY DEF Attach, Inv, SubscriptionsAreAttached, TypeOK
<1>3. ASSUME NEW x \in Sessions
      PROVE  inbox'[x] \in Seq(Written) /\ NoneYounger(inbox'[x], p)
  <2>1. PICK q \in Seq(Written) : q = inbox[x] /\ NoneYounger(q, p)
    BY <1>2, InboxesAreOld
  <2>2. inbox \in [Sessions -> Seq(Written)]
    BY DEF Inv, SubscriptionsAreAttached, TypeOK
  <2>3. CASE x = s
    <3>1. q \o more \in Seq(Written) /\ NoneYounger(q \o more, p)
      BY <1>1, <2>1, GrowsNoYounger
    <3>2. inbox'[x] = q \o more
      BY <1>1, <2>1, <2>2, <2>3
    <3>. QED  BY <3>1, <3>2
  <2>4. CASE x # s
    BY <1>1, <2>1, <2>2, <2>4
  <2>. QED  BY <2>3, <2>4
<1>4. inbox' \in [Sessions -> Seq(Written)]
  BY <1>1, <1>3 DEF Inv, SubscriptionsAreAttached, TypeOK
<1>. QED  BY <1>2, <1>3, <1>4, MessagesStay DEF NoneYounger

LEMMA SubscribeInv ==
  ASSUME Inv, NEW s \in Sessions, NEW channels \in Seq(Channels), SubscribeCommand(s, channels)
  PROVE  Inv'
<1>1. PICK new : new = Without(channels, Subscribed(s))
  OBVIOUS
<1>2. new \in Seq(Channels \ Subscribed(s))
  <2>1. PICK C : C = Subscribed(s)
    OBVIOUS
  <2>. QED  BY <1>1, <2>1, WithoutIsRest
<1>3. new \in Seq(Channels) /\ \A i \in 1..Len(new) : subscriptions[s][new[i]] = 0
  <2>1. PICK D : D = Channels \ Subscribed(s)
    OBVIOUS
  <2>2. new \in Seq(D)
    BY <1>2, <2>1
  <2>3. \A i \in 1..Len(new) : new[i] \in D
    BY <2>2, ElementOfSeq
  <2>4. new \in Seq(Channels)
    BY <2>1, <2>2, <2>3
  <2>. QED  BY <2>1, <2>3, <2>4 DEF Subscribed
<1>4. Attach(s, new)
  BY <1>1 DEF SubscribeCommand
<1>5. PICK l \in Nat : l = Len(emitters)
  BY DEF Inv, SubscriptionsAreAttached, TypeOK
<1>. DEFINE n == Len(new)
<1>6. n \in Nat
  BY <1>3
<1>7. LeftByAttach(s, new, l)
  BY <1>3, <1>4, <1>5, AttachLeaves
<1>8. TypeOK'
  <2>1. /\ connected' = connected /\ published' = published
        /\ counted' = counted /\ crashed' = crashed
    BY <1>4 DEF Attach
  <2>2. inbox' \in [Sessions -> Seq(Written)]
    BY <1>3, <1>4, AttachMessages
  <2>3. attached' \subseteq 1..Len(emitters')
    <3>1. attached \subseteq 1..l
      BY <1>5 DEF Inv, SubscriptionsAreAttached, TypeOK
    <3>2. attached' = attached \cup (l + 1..l + n) /\ Len(emitters') = l + n
      BY <1>7 DEF LeftByAttach
    <3>3. 1..l \subseteq 1..(l + n) /\ (l + 1..l + n) \subseteq 1..(l + n)
      BY <1>6
    <3>. QED  BY <3>1, <3>2, <3>3
  <2>. QED  BY <1>7, <2>1, <2>2, <2>3 DEF Inv, SubscriptionsAreAttached, TypeOK, LeftByAttach
<1>9. ASSUME NEW x \in Sessions, NEW c \in Channels, NEW i
      PROVE  i \in Callbacks(x, c)' <=>
               \/ i \in Callbacks(x, c)
               \/ x = s /\ \E j \in 1..n : i = l + j /\ new[j] = c
  <2>1. attached \subseteq 1..l
    BY <1>5 DEF Inv, SubscriptionsAreAttached, TypeOK
  <2>2. i \in Callbacks(x, c)' <=> /\ i \in 1..(l + n) /\ i \in attached'
                                  /\ emitters'[i].channel = c /\ emitters'[i].session = x
    BY <1>7 DEF Callbacks, Listeners, LeftByAttach
  <2>3. i \in Callbacks(x, c) <=> /\ i \in 1..l /\ i \in attached
                                 /\ emitters[i].channel = c /\ emitters[i].session = x
    BY <1>5 DEF Callbacks, Listeners
  <2>4. CASE i \in 1..l
    <3>1. emitters'[i] = emitters[i] /\ i \in 1..(l + n)
      <4>1. \A k \in 1..l : emitters'[k] = emitters[k]
        BY <1>7 DEF LeftByAttach
      <4>. QED  BY <1>6, <2>4, <4>1
    <3>2. i \in attached' <=> i \in attached
      <4>1. attached' = attached \cup (l + 1..l + n)
        BY <1>7 DEF LeftByAttach
      <4>2. i \notin l + 1..l + n
        BY <1>6, <2>4
      <4>. QED  BY <4>1, <4>2
    <3>3. \A j \in 1..n : i # l + j
      BY <1>6, <2>4
    <3>. QED  BY <2>2, <2>3, <2>4, <3>1, <3>2, <3>3
  <2>5. CASE i \in l + 1..l + n
    <3>1. PICK j \in 1..n : i = l + j
      BY <2>5
    <3>2. emitters'[i] = [session |-> s, channel |-> new[j]]
      BY <1>7, <3>1 DEF LeftByAttach
    <3>5. i \in attached' /\ i \in 1..(l + n)
      BY <1>6, <1>7, <2>5 DEF LeftByAttach
    <3>3. i \notin 1..l
      BY <2>5
    <3>4. (\E k \in 1..n : i = l + k /\ new[k] = c) <=> new[j] = c
      BY <3>1
    <3>. QED  BY <2>2, <2>3, <3>2, <3>5, <3>3, <3>4
  <2>6. CASE i \notin 1..(l + n)
    BY <2>2, <2>3, <2>6
  <2>. QED  BY <2>4, <2>5, <2>6
<1>10. ASSUME NEW x \in Sessions, NEW c \in Channels
       PROVE  /\ subscriptions'[x][c] # 0 => subscriptions'[x][c] \in Callbacks(x, c)'
              /\ x \notin doubled' => Callbacks(x, c)' \subseteq {subscriptions'[x][c]}
  <2>1. /\ subscriptions[x][c] # 0 => subscriptions[x][c] \in Callbacks(x, c)
        /\ x \notin doubled => Callbacks(x, c) \subseteq {subscriptions[x][c]}
    BY DEF Inv, SubscriptionsAreAttached
  <2>2. 0 \notin Callbacks(x, c)
    BY DEF Callbacks, Listeners
  <2>3. CASE x # s \/ \A i \in 1..n : new[i] # c
    <3>1. subscriptions'[x][c] = subscriptions[x][c]
      BY <1>7, <2>3 DEF LeftByAttach
    <3>2. Callbacks(x, c)' = Callbacks(x, c)
      BY <1>9, <2>3
    <3>. QED  BY <1>7, <2>1, <3>1, <3>2 DEF LeftByAttach
  <2>4. CASE x = s /\ \E i \in 1..n : new[i] = c
    <3>1. PICK k \in 1..n : new[k] = c /\ subscriptions'[s][c] = l + k
      BY <1>7, <2>4 DEF LeftByAttach
    <3>2. subscriptions[s][c] = 0
      BY <1>3, <1>6, <3>1
    <3>3. x \notin doubled' => Callbacks(x, c) = {}
      BY <1>7, <2>1, <2>2, <2>4, <3>2 DEF LeftByAttach
    <3>4. l + k \in Callbacks(x, c)'
      BY <1>9, <2>4, <3>1
    <3>5. ASSUME x \notin doubled', NEW i \in Callbacks(x, c)'
          PROVE  i = l + k
      <4>1. PICK j \in 1..n : i = l + j /\ new[j] = c
        BY <1>9, <2>4, <3>3, <3>5
      <4>2. \A a, b \in 1..n : new[a] = new[b] => a = b
        BY <1>7, <2>4, <3>5 DEF LeftByAttach
      <4>. QED  BY <3>1, <4>1, <4>2
    <3>. QED  BY <2>4, <3>1, <3>4, <3>5
  <2>. QED  BY <2>3, <2>4
<1>11. SubscriptionsAreAttached'
  BY <1>8, <1>10 DEF SubscriptionsAreAttached
<1>. QED  BY <1>3, <1>4, <1>7, <1>11, AttachMessages DEF Inv, ListenersAreBounded, LeftByAttach

(***************************************************************************)
(* The other commands.                                                     *)
(***************************************************************************)
LEMMA UnsubscribeInv ==
  ASSUME Inv, NEW s \in Sessions, NEW C \in SUBSET Channels, UnsubscribeCommand(s, C)
  PROVE  Inv'
<1>1. /\ attached' = attached \ {subscriptions[s][c] : c \in C}
      /\ subscriptions' = [subscriptions EXCEPT ![s] = [c \in Channels |-> IF c \in C THEN 0 ELSE @[c]]]
      /\ UNCHANGED <<emitters, inbox, connected, published, counted, crashed, doubled>>
  BY DEF UnsubscribeCommand
<1>2. subscriptions \in [Sessions -> [Channels -> 0..Len(emitters)]]
  BY DEF Inv, SubscriptionsAreAttached, TypeOK
<1>3. ASSUME NEW x \in Sessions, NEW c \in Channels
      PROVE  subscriptions'[x][c] = IF x = s /\ c \in C THEN 0 ELSE subscriptions[x][c]
  BY <1>1, <1>2
<1>4. TypeOK'
  <2>1. subscriptions' \in [Sessions -> [Channels -> 0..Len(emitters)]]
    <3>1. PICK n \in Nat : n = Len(emitters)
      BY DEF Inv, SubscriptionsAreAttached, TypeOK
    <3>2. subscriptions' \in [Sessions -> [Channels -> 0..n]]
      BY <1>1, <1>2, <3>1
    <3>. QED  BY <3>1, <3>2
  <2>. QED  BY <1>1, <2>1 DEF Inv, SubscriptionsAreAttached, TypeOK
<1>5. ASSUME NEW x \in Sessions, NEW c \in Channels, NEW i
      PROVE  i \in Callbacks(x, c)' <=>
               i \in Callbacks(x, c) /\ \A e \in C : subscriptions[s][e] # i
  BY <1>1 DEF Callbacks, Listeners
<1>6. ASSUME NEW x \in Sessions, NEW c \in Channels
      PROVE  /\ subscriptions'[x][c] # 0 => subscriptions'[x][c] \in Callbacks(x, c)'
             /\ x \notin doubled' => Callbacks(x, c)' \subseteq {subscriptions'[x][c]}
  <2>1. /\ subscriptions[x][c] # 0 => subscriptions[x][c] \in Callbacks(x, c)
        /\ x \notin doubled => Callbacks(x, c) \subseteq {subscriptions[x][c]}
    BY DEF Inv, SubscriptionsAreAttached
  <2>2. CASE x = s /\ c \in C
    <3>1. subscriptions'[x][c] = 0
      BY <1>3, <2>2
    <3>2. subscriptions[x][c] \notin Callbacks(x, c)'
      BY <1>5, <2>2
    <3>. QED  BY <1>1, <1>5, <2>1, <3>1, <3>2
  <2>3. CASE ~(x = s /\ c \in C)
    <3>1. subscriptions'[x][c] = subscriptions[x][c]
      BY <1>3, <2>3
    <3>2. subscriptions[x][c] # 0 => \A e \in C : subscriptions[s][e] # subscriptions[x][c]
      <4>. SUFFICES ASSUME subscriptions[x][c] # 0, NEW e \in C,
                           subscriptions[s][e] = subscriptions[x][c]
                    PROVE  FALSE
        OBVIOUS
      <4>1. subscriptions[s][e] \in Callbacks(s, e) /\ subscriptions[s][e] \in Callbacks(x, c)
        BY <2>1 DEF Inv, SubscriptionsAreAttached
      <4>2. x = s /\ c = e
        BY <4>1 DEF Callbacks, Listeners
      <4>. QED  BY <2>3, <4>2
    <3>3. subscriptions[x][c] # 0 => subscriptions[x][c] \in Callbacks(x, c)'
      BY <1>5, <2>1, <3>2
    <3>. QED  BY <1>1, <1>5, <2>1, <3>1, <3>3
  <2>. QED  BY <2>2, <2>3
<1>7. SubscriptionsAreAttached'
  BY <1>4, <1>6 DEF SubscriptionsAreAttached
<1>. QED  BY <1>1, <1>7 DEF Inv, ListenersAreBounded, MessagesAreOld

(* A closed socket and a process that ended touch nothing the invariant    *)
(* looks at.                                                               *)
LEMMA DisconnectInv ==
  ASSUME Inv, connected' \subseteq Sessions, crashed' \in BOOLEAN,
         UNCHANGED <<emitters, attached, subscriptions, inbox, published, counted, doubled>>
  PROVE  Inv'
<1>1. TypeOK'
  <2>1. TypeOK
    BY DEF Inv, SubscriptionsAreAttached
  <2>2. /\ emitters' = emitters /\ attached' = attached /\ subscriptions' = subscriptions
        /\ inbox' = inbox /\ published' = published /\ counted' = counted /\ doubled' = doubled
    OBVIOUS
  <2>. QED  BY <2>1, <2>2 DEF TypeOK
<1>2. ASSUME NEW x, NEW c
      PROVE  Callbacks(x, c)' = Callbacks(x, c)
  BY DEF Callbacks, Listeners
<1>3. SubscriptionsAreAttached'
  BY <1>1, <1>2 DEF Inv, SubscriptionsAreAttached
<1>4. ListenersAreBounded'
  BY DEF Inv, ListenersAreBounded
<1>5. MessagesAreOld'
  BY DEF Inv, MessagesAreOld
<1>. QED  BY <1>3, <1>4, <1>5 DEF Inv

(* What PUBLISH writes to a session.                                       *)
LEMMA CopiesAreMessages ==
  ASSUME Inv, NEW s \in Sessions, NEW c \in Channels
  PROVE  /\ Copies(s, c) \in Seq(Written)
         /\ Len(Copies(s, c)) = IF s \in connected THEN Cardinality(Callbacks(s, c)) ELSE 0
         /\ \A i \in 1..Len(Copies(s, c)) :
              Copies(s, c)[i] = [kind |-> "message", channel |-> c, number |-> published + 1]
<1>1. PICK n \in Nat : n = Cardinality(Callbacks(s, c))
  BY ListenersAreFew
<1>2. PICK m : m = [kind |-> "message", channel |-> c, number |-> published + 1]
  OBVIOUS
<1>3. m \in Written
  BY <1>2 DEF Written, Inv, SubscriptionsAreAttached, TypeOK
<1>4. CASE s \notin connected
  BY <1>4, EmptySeq DEF Copies
<1>5. CASE s \in connected
  <2>1. PICK q : q = [i \in 1..n |-> m]
    OBVIOUS
  <2>2. q \in Seq(Written) /\ Len(q) = n /\ \A i \in 1..n : q[i] = m
    BY <1>3, <2>1
  <2>3. Copies(s, c) = q
    BY <1>1, <1>2, <1>5, <2>1 DEF Copies
  <2>. QED  BY <1>1, <1>2, <1>5, <2>2, <2>3
<1>. QED  BY <1>4, <1>5

LEMMA PublishInv ==
  ASSUME Inv, NEW c \in Channels, PublishCommand(c)
  PROVE  Inv'
<1>1. PICK p \in Nat : p = published /\ published' = p + 1 /\ p + 1 \in 0..MaxMessages
  BY BoundsAssumption DEF PublishCommand, Inv, SubscriptionsAreAttached, TypeOK
<1>2. ASSUME NEW s \in Sessions
      PROVE  inbox'[s] \in Seq(Written) /\ NoneYounger(inbox'[s], p + 1)
  <2>1. PICK q \in Seq(Written) : q = inbox[s] /\ NoneYounger(q, p)
    BY <1>1, InboxesAreOld
  <2>2. PICK more \in Seq(Written) :
          more = Copies(s, c) /\ \A i \in 1..Len(more) : more[i].number = p + 1
    <3>1. PICK more : more = Copies(s, c)
      OBVIOUS
    <3>2. more \in Seq(Written)
      BY <3>1, CopiesAreMessages
    <3>3. \A i \in 1..Len(more) :
            more[i] = [kind |-> "message", channel |-> c, number |-> published + 1]
      BY <3>1, CopiesAreMessages
    <3>4. \A i \in 1..Len(more) : more[i].number = p + 1
      BY ONLY <1>1, <3>3
    <3>. QED  BY <3>1, <3>2, <3>4
  <2>3. inbox'[s] = q \o more
    BY <2>1, <2>2 DEF PublishCommand
  <2>4. q \o more \in Seq(Written) /\ NoneYounger(q \o more, p + 1)
    BY <2>1, <2>2, GrowsNoYounger
  <2>. QED  BY <2>3, <2>4
<1>3. MessagesAreOld'
  BY <1>1, <1>2, MessagesStay DEF NoneYounger
<1>4. TypeOK'
  <2>1. inbox' \in [Sessions -> Seq(Written)]
    BY <1>2 DEF PublishCommand
  <2>2. counted' \in 0..MaxEmitters
    BY ListenersAreFew DEF PublishCommand
  <2>. QED  BY <1>1, <2>1, <2>2 DEF PublishCommand, Inv, SubscriptionsAreAttached, TypeOK
<1>. QED  BY <1>3, <1>4 DEF PublishCommand, Inv, SubscriptionsAreAttached, Callbacks, Listeners,
                            ListenersAreBounded

LEMMA InitInv == Init => Inv
<1>. SUFFICES ASSUME Init PROVE Inv
  OBVIOUS
<1>1. /\ emitters \in Seq([session : Sessions, channel : Channels]) /\ Len(emitters) = 0
      /\ \A s \in Sessions : inbox[s] \in Seq(Written) /\ Len(inbox[s]) = 0
  BY EmptySeq DEF Init
<1>2. TypeOK
  <2>1. subscriptions \in [Sessions -> [Channels -> 0..Len(emitters)]]
    <3>1. 0 \in 0..Len(emitters)
      BY <1>1
    <3>2. subscriptions = [s \in Sessions |-> [c \in Channels |-> 0]]
      BY DEF Init
    <3>. QED  BY ONLY <3>1, <3>2
  <2>2. inbox \in [Sessions -> Seq(Written)]
    BY <1>1 DEF Init
  <2>3. emitters \in Seq([session : Sessions, channel : Channels])
    BY <1>1
  <2>4. /\ attached \subseteq 1..Len(emitters)
        /\ connected \subseteq Sessions /\ doubled \subseteq Sessions
        /\ crashed \in BOOLEAN
    BY DEF Init
  <2>5. published \in 0..MaxMessages /\ counted \in 0..MaxEmitters
    BY BoundsAssumption DEF Init
  <2>. QED  BY <2>1, <2>2, <2>3, <2>4, <2>5 DEF TypeOK
<1>. QED  BY <1>1, <1>2, BoundsAssumption
          DEF Init, Inv, SubscriptionsAreAttached, Callbacks, Listeners, ListenersAreBounded,
              MessagesAreOld

LEMMA NextInv == Inv /\ [Next]_vars => Inv'
<1>. SUFFICES ASSUME Inv, [Next]_vars PROVE Inv'
  OBVIOUS
<1>1. ASSUME NEW s \in connected, NEW channels \in SeqOf(Channels, MaxNamed) \ {<<>>},
             SubscribeCommand(s, channels)
      PROVE  Inv'
  <2>1. s \in Sessions
    BY DEF Inv, SubscriptionsAreAttached, TypeOK
  <2>2. channels \in Seq(Channels)
    BY DEF SeqOf
  <2>. QED  BY <1>1, <2>1, <2>2, SubscribeInv
<1>2. ASSUME NEW s \in connected, NEW C \in SUBSET Channels, UnsubscribeCommand(s, C)
      PROVE  Inv'
  <2>1. s \in Sessions
    BY DEF Inv, SubscriptionsAreAttached, TypeOK
  <2>. QED  BY <1>2, <2>1, UnsubscribeInv
<1>3. ASSUME NEW s \in connected, Disconnect(s)
      PROVE  Inv'
  BY <1>3, DisconnectInv DEF Disconnect, Inv, SubscriptionsAreAttached, TypeOK
<1>4. CASE EmitterTimeout
  BY <1>4, DisconnectInv DEF EmitterTimeout, Inv, SubscriptionsAreAttached, TypeOK
<1>5. ASSUME NEW c \in Channels, PublishCommand(c)
      PROVE  Inv'
  BY <1>5, PublishInv
<1>6. CASE UNCHANGED vars
  BY <1>6 DEF vars, Inv, SubscriptionsAreAttached, TypeOK, Callbacks, Listeners,
              ListenersAreBounded, MessagesAreOld
<1>. QED  BY <1>1, <1>2, <1>3, <1>4, <1>5, <1>6 DEF Next

(***************************************************************************)
(* The theorems.                                                           *)
(***************************************************************************)
THEOREM PubSubInvariance == Spec => []Inv
BY InitInv, NextInv, PTL DEF Spec

(* What a session holds for a channel is an emitter of its own, on that    *)
(* channel, whose callback is attached, and the session has no other there,*)
(* unless it named a channel twice (Session.subscribe, Session.unSubscribe,*)
(* SubscribeCommand).                                                      *)
THEOREM SubscriptionsStayAttached == Spec => []SubscriptionsAreAttached
<1>1. Inv => SubscriptionsAreAttached
  BY DEF Inv
<1>. QED  BY <1>1, PubSubInvariance, PTL

(***************************************************************************)
(* What one PUBLISH does.                                                  *)
(***************************************************************************)

(* Only PUBLISH publishes.                                                 *)
LEMMA PublishedByPublish ==
  ASSUME Inv, [Next]_vars, published' # published
  PROVE  \E d \in Channels : PublishCommand(d)
<1>. SUFFICES ASSUME ~\E d \in Channels : PublishCommand(d) PROVE FALSE
  OBVIOUS
<1>1. ASSUME NEW s, NEW channels, SubscribeCommand(s, channels)
      PROVE  FALSE
  <2>1. Attach(s, Without(channels, Subscribed(s)))
    BY <1>1 DEF SubscribeCommand
  <2>2. published' = published
    BY <2>1 DEF Attach
  <2>. QED  BY <2>2
<1>2. ASSUME NEW s, NEW C, UnsubscribeCommand(s, C)
      PROVE  FALSE
  BY <1>2 DEF UnsubscribeCommand
<1>. QED  BY <1>1, <1>2 DEF Next, vars, Disconnect, EmitterTimeout

(* A session that named no channel twice has one callback where it is      *)
(* subscribed and none elsewhere.                                          *)
LEMMA OneCallback ==
  ASSUME Inv, NEW s \in Sessions \ doubled, NEW c \in Channels
  PROVE  Cardinality(Callbacks(s, c)) = IF c \in Subscribed(s) THEN 1 ELSE 0
<1>1. /\ subscriptions[s][c] # 0 => subscriptions[s][c] \in Callbacks(s, c)
      /\ Callbacks(s, c) \subseteq {subscriptions[s][c]}
  BY DEF Inv, SubscriptionsAreAttached
<1>2. CASE c \in Subscribed(s)
  <2>1. PICK K, x : K = Callbacks(s, c) /\ x = subscriptions[s][c]
    OBVIOUS
  <2>2. K = {x}
    BY <1>1, <1>2, <2>1 DEF Subscribed
  <2>. QED  BY <1>2, <2>1, <2>2, FS_Singleton
<1>3. CASE c \notin Subscribed(s)
  <2>1. subscriptions[s][c] = 0
    BY <1>3 DEF Subscribed
  <2>2. PICK K : K = Callbacks(s, c)
    OBVIOUS
  <2>3. K = {}
    BY <1>1, <2>1, <2>2 DEF Callbacks, Listeners
  <2>. QED  BY <1>3, <2>2, <2>3, FS_EmptySet
<1>. QED  BY <1>2, <1>3

(* What PUBLISH adds to each inbox.                                        *)
Added(s, d, p, q, more) ==
  /\ q = inbox[s] /\ inbox'[s] = q \o more
  /\ \A i \in 1..Len(q) : q[i].kind = "message" => q[i].number <= p
  /\ Len(more) = IF s \in connected THEN Cardinality(Callbacks(s, d)) ELSE 0
  /\ \A i \in 1..Len(more) :
       more[i] = [kind |-> "message", channel |-> d, number |-> p + 1]

LEMMA PublishAdds ==
  ASSUME Inv, NEW d \in Channels, PublishCommand(d), NEW s \in Sessions, NEW p \in Nat, p = published
  PROVE  \E q \in Seq(Written), more \in Seq(Written) :
           Added(s, d, p, q, more)
<1>1. PICK q \in Seq(Written) : q = inbox[s] /\ NoneYounger(q, p)
  BY InboxesAreOld
<1>2. PICK more : more = Copies(s, d)
  OBVIOUS
<1>3. more \in Seq(Written)
  BY <1>2, CopiesAreMessages
<1>4. Len(more) = IF s \in connected THEN Cardinality(Callbacks(s, d)) ELSE 0
  BY <1>2, CopiesAreMessages
<1>5. \A i \in 1..Len(more) :
        more[i] = [kind |-> "message", channel |-> d, number |-> published + 1]
  BY <1>2, CopiesAreMessages
<1>6. inbox'[s] = q \o more
  BY <1>1, <1>2 DEF PublishCommand
<1>. QED  BY <1>1, <1>3, <1>4, <1>5, <1>6 DEF NoneYounger, Added

(* The positions of an inbox at which a new message is read.               *)
Heard(q, c, p) ==
  {i \in 1..Len(q) : q[i] = [kind |-> "message", channel |-> c, number |-> p]}

LEMMA HeardIsNew ==
  ASSUME NEW q \in Seq(Written), NEW more \in Seq(Written), NEW p \in Nat, NEW c, NEW d,
         \A i \in 1..Len(q) : q[i].kind = "message" => q[i].number <= p,
         \A i \in 1..Len(more) : more[i] = [kind |-> "message", channel |-> d, number |-> p + 1],
         Len(more) <= 1
  PROVE  /\ IsFiniteSet(Heard(q \o more, c, p + 1))
         /\ Cardinality(Heard(q \o more, c, p + 1)) <= 1
         /\ Cardinality(Heard(q \o more, c, p + 1)) = 1 => Len(more) = 1 /\ c = d
         /\ Len(q \o more) - Len(q) = Len(more)
<1>1. PICK w : w = q \o more
  OBVIOUS
<1>2. /\ Len(w) = Len(q) + Len(more) /\ Len(q) \in Nat /\ Len(more) \in Nat
      /\ \A i \in 1..Len(w) : w[i] = IF i <= Len(q) THEN q[i] ELSE more[i - Len(q)]
  BY <1>1, ConcatProperties
<1>3. PICK H : H = Heard(w, c, p + 1)
  OBVIOUS
<1>4. ASSUME NEW i \in H
      PROVE  i = Len(q) + 1 /\ Len(more) = 1 /\ c = d
  <2>1. i \in 1..Len(w) /\ w[i] = [kind |-> "message", channel |-> c, number |-> p + 1]
    BY <1>3 DEF Heard
  <2>2. i > Len(q)
    <3>. SUFFICES ASSUME i <= Len(q) PROVE FALSE
      BY <1>2, <2>1
    <3>1. i \in 1..Len(q) /\ q[i] = [kind |-> "message", channel |-> c, number |-> p + 1]
      <4>1. PICK m : m = [kind |-> "message", channel |-> c, number |-> p + 1]
        OBVIOUS
      <4>2. w[i] = m /\ i \in 1..Len(w)
        BY <2>1, <4>1
      <4>3. i \in 1..Len(q)
        BY <1>2, <4>2
      <4>4. q[i] = m
        BY <1>2, <4>2, <4>3
      <4>. QED  BY <4>1, <4>3, <4>4
    <3>2. q[i].kind = "message" /\ q[i].number = p + 1
      BY <3>1
    <3>. QED  BY <3>1, <3>2
  <2>3. i - Len(q) = 1 /\ Len(more) = 1
    <3>1. i \in 1..(Len(q) + Len(more))
      BY <1>2, <2>1
    <3>2. PICK a \in Nat, b \in Nat : a = Len(q) /\ b = Len(more) /\ b <= 1
      BY <1>2
    <3>3. i \in 1..(a + b) /\ i > a
      BY <2>2, <3>1, <3>2
    <3>4. i - a = 1 /\ b = 1
      BY ONLY <3>2, <3>3, a \in Nat, b \in Nat
    <3>. QED  BY <3>2, <3>4
  <2>4. more[1] = [kind |-> "message", channel |-> c, number |-> p + 1]
    <3>1. w[i] = more[i - Len(q)]
      BY <1>2, <2>1, <2>2
    <3>. QED  BY <2>1, <2>3, <3>1
  <2>5. more[1] = [kind |-> "message", channel |-> d, number |-> p + 1]
    BY <2>3
  <2>. QED  BY <1>2, <2>1, <2>3, <2>4, <2>5
<1>5. H \in SUBSET {Len(q) + 1}
  BY <1>4
<1>6. IsFiniteSet({Len(q) + 1}) /\ Cardinality({Len(q) + 1}) = 1
  BY FS_Singleton
<1>7. IsFiniteSet(H) /\ Cardinality(H) <= 1
  BY <1>5, <1>6, FS_Subset
<1>8. Cardinality(H) = 1 => \E i : i \in H
  <2>1. Cardinality(H) = 1 => \E x : H = {x}
    BY <1>7, FS_Singleton
  <2>. QED  BY <2>1
<1>. QED  BY <1>1, <1>2, <1>3, <1>4, <1>7, <1>8

(* A message reaches every connected subscriber once and nobody else,      *)
(* unless it named a channel twice (SubscribeCommand, Session.unSubscribe, *)
(* RespServerContext.publish).                                             *)
THEOREM MessagesAreHeardOnce == Spec => SubscribersHearOnce
<1>1. ASSUME Inv, [Next]_vars, published' # published,
             NEW c \in Channels, NEW s \in Sessions \ doubled
      PROVE  LET heard == Cardinality({i \in 1..Len(inbox'[s]) :
                            inbox'[s][i] = [kind |-> "message", channel |-> c, number |-> published']})
                 sent == Len(inbox'[s]) - Len(inbox[s])
             IN /\ heard <= 1
                /\ heard = 1 => s \in connected /\ c \in Subscribed(s)
                /\ s \in connected /\ Subscribed(s) = Channels => sent = 1
  <2>1. PICK d \in Channels : PublishCommand(d)
    BY <1>1, PublishedByPublish
  <2>2. PICK p \in Nat : p = published /\ published' = p + 1
    BY <1>1, <2>1, BoundsAssumption DEF PublishCommand, Inv, SubscriptionsAreAttached, TypeOK
  <2>3. PICK q \in Seq(Written), more \in Seq(Written) : Added(s, d, p, q, more)
    BY <1>1, <2>1, <2>2, PublishAdds
  <2>4. Cardinality(Callbacks(s, d)) = IF d \in Subscribed(s) THEN 1 ELSE 0
    BY <1>1, OneCallback
  <2>5. Len(more) = IF s \in connected /\ d \in Subscribed(s) THEN 1 ELSE 0
    BY <2>3, <2>4 DEF Added
  <2>6. /\ Cardinality(Heard(q \o more, c, p + 1)) <= 1
        /\ Cardinality(Heard(q \o more, c, p + 1)) = 1 => Len(more) = 1 /\ c = d
        /\ Len(q \o more) - Len(q) = Len(more)
    <3>1. Len(more) <= 1
      BY <2>5
    <3>2. \A i \in 1..Len(q) : q[i].kind = "message" => q[i].number <= p
      BY <2>3 DEF Added
    <3>3. \A i \in 1..Len(more) : more[i] = [kind |-> "message", channel |-> d, number |-> p + 1]
      BY <2>3 DEF Added
    <3>. QED  BY <3>1, <3>2, <3>3, HeardIsNew
  <2>7. PICK heard, sent : /\ heard = Cardinality(Heard(q \o more, c, p + 1))
                           /\ sent = Len(q \o more) - Len(q)
    OBVIOUS
  <2>8. /\ heard <= 1
        /\ heard = 1 => s \in connected /\ c \in Subscribed(s)
        /\ s \in connected /\ Subscribed(s) = Channels => sent = 1
    BY <2>5, <2>6, <2>7
  <2>. QED  BY <2>2, <2>3, <2>7, <2>8 DEF Heard, Added
<1>2. Inv /\ [Next]_vars =>
        [published' # published =>
           \A c \in Channels : \A s \in Sessions \ doubled :
             LET heard == Cardinality({i \in 1..Len(inbox'[s]) :
                            inbox'[s][i] = [kind |-> "message", channel |-> c, number |-> published']})
                 sent == Len(inbox'[s]) - Len(inbox[s])
             IN /\ heard <= 1
                /\ heard = 1 => s \in connected /\ c \in Subscribed(s)
                /\ s \in connected /\ Subscribed(s) = Channels => sent = 1]_vars
  BY <1>1
<1>. QED  BY <1>2, PubSubInvariance, PTL DEF Spec, SubscribersHearOnce

(* The copies of a message that PUBLISH writes: each is of a listener of   *)
(* its own, so they are no more than the listeners that the reply counts.  *)
LEMMA CopiesHaveListeners ==
  ASSUME Inv, NEW d \in Channels, PublishCommand(d)
  PROVE  Cardinality(UNION {{s} \X (Len(inbox[s]) + 1..Len(inbox'[s])) : s \in Sessions})
           <= Cardinality(Listeners(d))
<1>1. PICK before : before = [s \in Sessions |-> Len(inbox[s])]
  OBVIOUS
<1>2. PICK after : after = [s \in Sessions |-> Len(inbox'[s])]
  OBVIOUS
<1>3. PICK P : P = UNION {{s} \X (before[s] + 1..after[s]) : s \in Sessions}
  OBVIOUS
<1>4. PICK L : L = Listeners(d)
  OBVIOUS
<1>5. PICK K : K = [s \in Sessions |-> Callbacks(s, d)]
  OBVIOUS
<1>6. PICK who : who = [i \in L |-> emitters[i].session]
  OBVIOUS
<1>7. \A s \in Sessions : \A i \in K[s] : i \in L /\ who[i] = s
  BY <1>4, <1>5, <1>6 DEF Callbacks
<1>8. \A s \in Sessions : /\ before[s] \in Nat /\ after[s] \in Nat
                          /\ after[s] <= before[s] + Cardinality(K[s])
                          /\ Cardinality(K[s]) \in Nat /\ IsFiniteSet(K[s])
  <2>. TAKE s \in Sessions
  <2>1. PICK p \in Nat : p = published
    BY DEF Inv, SubscriptionsAreAttached, TypeOK
  <2>2. PICK q \in Seq(Written), more \in Seq(Written) : Added(s, d, p, q, more)
    BY <2>1, PublishAdds
  <2>3. IsFiniteSet(Callbacks(s, d)) /\ Cardinality(Callbacks(s, d)) \in Nat
    BY ListenersAreFew
  <2>4. Len(q \o more) = Len(q) + Len(more)
    BY ConcatProperties
  <2>. QED  BY <1>1, <1>2, <1>5, <2>2, <2>3, <2>4 DEF Added
<1>9. PICK nth : nth = [s \in Sessions |->
                          CHOOSE f : f \in Bijection(1..Cardinality(K[s]), K[s])]
  OBVIOUS
<1>10. ASSUME NEW s \in Sessions
       PROVE  nth[s] \in Bijection(1..Cardinality(K[s]), K[s])
  <2>1. ExistsBijection(1..Cardinality(K[s]), K[s])
    BY <1>8, FS_CardinalityType
  <2>2. \E f : f \in Bijection(1..Cardinality(K[s]), K[s])
    BY <2>1 DEF ExistsBijection
  <2>. QED  BY <1>9, <2>2
<1>11. PICK g : g = [x \in P |-> nth[x[1]][x[2] - before[x[1]]]]
  OBVIOUS
<1>12. ASSUME NEW x \in P
       PROVE  /\ x[1] \in Sessions /\ x = <<x[1], x[2]>> /\ x[2] \in Nat
              /\ x[2] - before[x[1]] \in 1..Cardinality(K[x[1]])
              /\ g[x] \in K[x[1]]
  <2>1. PICK s \in Sessions : x \in {s} \X (before[s] + 1..after[s])
    BY <1>3
  <2>2. x[1] = s /\ x[2] \in before[s] + 1..after[s] /\ x = <<x[1], x[2]>>
    BY <2>1
  <2>3. x[2] - before[s] \in 1..Cardinality(K[s]) /\ x[2] \in Nat
    BY <1>8, <2>2
  <2>4. nth[s][x[2] - before[s]] \in K[s]
    BY <1>10, <2>3 DEF Bijection, Injection
  <2>. QED  BY <1>11, <2>2, <2>3, <2>4
<1>13. g \in [P -> L]
  BY <1>7, <1>11, <1>12
<1>14. ASSUME NEW x \in P, NEW y \in P, g[x] = g[y]
       PROVE  x = y
  <2>1. x[1] = y[1]
    BY <1>7, <1>12, <1>14
  <2>2. PICK s \in Sessions : s = x[1] /\ s = y[1]
    BY <1>12, <2>1
  <2>3. nth[s][x[2] - before[s]] = nth[s][y[2] - before[s]]
    BY <1>11, <1>14, <2>2
  <2>4. /\ x[2] - before[s] \in 1..Cardinality(K[s])
        /\ y[2] - before[s] \in 1..Cardinality(K[s])
    BY <1>12, <2>2
  <2>5. x[2] - before[s] = y[2] - before[s]
    BY <1>10, <2>3, <2>4 DEF Bijection, Injection, IsInjective
  <2>6. x[2] = y[2]
    BY <1>8, <1>12, <2>5
  <2>. QED  BY <1>12, <2>1, <2>6
<1>15. g \in Injection(P, L)
  BY <1>13, <1>14 DEF Injection, IsInjective
<1>16. IsFiniteSet(L)
  BY <1>4, ListenersAreFew
<1>17. Cardinality(P) <= Cardinality(L)
  BY <1>15, <1>16, FS_Injection
<1>18. P = UNION {{s} \X (Len(inbox[s]) + 1..Len(inbox'[s])) : s \in Sessions}
  <2>1. \A s \in Sessions : /\ before[s] = Len(inbox[s])
                            /\ after[s] = Len(inbox'[s])
    BY <1>1, <1>2
  <2>. QED  BY ONLY <1>3, <2>1
<1>. QED  BY <1>4, <1>17, <1>18

(* The reply to PUBLISH counts at least every copy that was written        *)
(* (PublishCommand, RespServerContext.publish).                            *)
THEOREM CopiesAreCounted == Spec => PublishCountsEveryCopy
<1>1. ASSUME Inv, [Next]_vars, published' # published
      PROVE  counted' >= Cardinality(
               UNION {{s} \X (Len(inbox[s]) + 1..Len(inbox'[s])) : s \in Sessions})
  <2>1. PICK d \in Channels : PublishCommand(d)
    BY <1>1, PublishedByPublish
  <2>2. counted' = Cardinality(Listeners(d))
    BY <2>1 DEF PublishCommand
  <2>3. Cardinality(UNION {{s} \X (Len(inbox[s]) + 1..Len(inbox'[s])) : s \in Sessions})
          <= Cardinality(Listeners(d))
    BY <1>1, <2>1, CopiesHaveListeners
  <2>. QED  BY <2>2, <2>3
<1>2. Inv /\ [Next]_vars =>
        [published' # published =>
           counted' >= Cardinality(
             UNION {{s} \X (Len(inbox[s]) + 1..Len(inbox'[s])) : s \in Sessions})]_vars
  BY <1>1
<1>. QED  BY <1>2, PubSubInvariance, PTL DEF Spec, PublishCountsEveryCopy
=============================================================================
