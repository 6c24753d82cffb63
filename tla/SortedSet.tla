----------------------------- MODULE SortedSet ------------------------------
(***************************************************************************)
(* One sorted set under the methods of its class and under the commands of *)
(* a database that holds it.  A key that is missing is an empty set.       *)
(* The parameters of the actions named h are the heights that randomLevel  *)
(* draws; every height has a positive probability.                         *)
(***************************************************************************)
EXTENDS SkipList

CONSTANTS
  Scores,   \* bound: the scores of the instance
  Limits,   \* inputs: the ends of score ranges
  Indices   \* inputs: the ends of index ranges

ASSUME ScoresAssumption == Scores \subseteq Int /\ 0 \in Scores
ASSUME RangesAssumption == Limits \subseteq Int /\ Indices \subseteq Int

VARIABLES
  zset,     \* the SortedSet
  answer    \* the last request and its reply

vars == <<zset, answer>>

Heights == 1..MaxLevel

Answer(request, reply) == answer' = [request |-> request, reply |-> reply]

ScoreOf(z, m) == IF Has(z, m) THEN z.map[m] ELSE Null

(***************************************************************************)
(* The methods.                                                            *)
(***************************************************************************)
AddScore(m, s, h) ==
  /\ zset' = Add(zset, m, s, h)
  /\ Answer(<<"add", m, s>>, ScoreOf(zset, m))

IncrByScore(m, d, h) ==
  /\ ScoreOf(IncrBy(zset, d, m, h), m) \in Scores
  /\ zset' = IncrBy(zset, d, m, h)
  /\ Answer(<<"incrBy", m, d>>, ScoreOf(zset', m))

RemMember(m) ==
  /\ zset' = Rem(zset, m)
  /\ Answer(<<"rem", m>>, ScoreOf(zset, m))

RemRanks(a, b) ==
  /\ zset' = RemRangeByRank(zset, a, b)
  /\ Answer(<<"remRangeByRank", a, b>>, zset.length - zset'.length)

RemScores(min, max) ==
  /\ zset' = RemRangeByScore(zset, min, max)
  /\ Answer(<<"remRangeByScore", min, max>>, zset.length - zset'.length)

Empty ==
  /\ zset' = EmptySet
  /\ Answer(<<"empty">>, Null)

(***************************************************************************)
(* The commands that change a set.                                         *)
(***************************************************************************)

(* Database.merge logs element.value of the strings that toArray returns,  *)
(* which is undefined and has no toString: it throws before it gets the    *)
(* key.  ZADD answers with the message of the exception.                   *)
ZAddCommand(m, s) ==
  /\ Answer(<<"zadd", m, s>>, <<"error">>)
  /\ UNCHANGED zset

(* A new member is added with 0 first, so that two heights are drawn.      *)
ZIncrByCommand(m, d, h1, h2) ==
  LET y == IF Has(zset, m) THEN zset ELSE Add(zset, m, 0, h1) IN
  /\ ScoreOf(IncrBy(y, d, m, h2), m) \in Scores
  /\ zset' = IncrBy(y, d, m, h2)
  /\ Answer(<<"zincrby", m, d>>, ScoreOf(zset', m))

(* A set that is empty afterwards is taken out of the database.            *)
ZRemCommand(m, n) ==
  LET y == Rem(zset, m)
      z == Rem(y, n)
      removed == {x \in {m} : Has(zset, x)} \cup {x \in {n} : Has(y, x)}
  IN /\ zset' = IF z.length = 0 THEN EmptySet ELSE z
     /\ Answer(<<"zrem", m, n>>, Cardinality(removed))

(***************************************************************************)
(* The commands that read a set.                                           *)
(***************************************************************************)
ZCard(z) == z.length
ZScore(z, m) == ScoreOf(z, m)
ZRank(z, m) == IF Has(z, m) THEN Rank(z, m) ELSE Null
ZCount(z, min, max) == Count(z, min, max)

(* Mutant: the end of the range is not in it.                              *)
ZRangeOpen(z, start, end) ==
  LET from == AtLeastZero(FromStart(z, start))
      to == IF end < 0 THEN AtLeastZero(z.length + end) ELSE end - 1
  IN IF from > to \/ from > z.length THEN <<>> ELSE SetRange(z, from, to)

(* An end counted from the end of the set comes out one too high: -1 is    *)
(* the length, which range cuts down, but -2 is the last member.           *)
ZRange(z, start, end) ==
  LET from == AtLeastZero(FromStart(z, start))
      to == IF end < 0 THEN AtLeastZero(z.length + 1 + end) ELSE end
  IN IF from > to \/ from > z.length THEN <<>> ELSE SetRange(z, from, to)

(* LIMIT offset count, for an offset of 0 or more; without it the count is *)
(* the length of the set.                                                  *)
ZRangeByScore(z, min, max, minEx, maxEx, offset, count) ==
  LET run == RangeByScore(z, min, max, minEx, maxEx)
      end == IF count < 0 \/ offset + count > Len(run) THEN Len(run) ELSE offset + count
  IN SubSeq(run, offset + 1, end)

Init == /\ zset = EmptySet
        /\ answer = [request |-> <<"none">>, reply |-> Null]

Next ==
  \/ \E m \in Members, s \in Scores, h \in Heights : AddScore(m, s, h) \/ IncrByScore(m, s, h)
  \/ \E m \in Members, s \in Scores : ZAddCommand(m, s)
  \/ \E m \in Members, d \in Scores, h1, h2 \in Heights : ZIncrByCommand(m, d, h1, h2)
  \/ \E m \in Members : RemMember(m)
  \/ \E m, n \in Members : ZRemCommand(m, n)
  \/ \E a, b \in Indices : RemRanks(a, b)
  \/ \E min, max \in Limits : RemScores(min, max)
  \/ Empty

Spec == Init /\ [][Next]_vars

-----------------------------------------------------------------------------

NodeScores == [m \in Nodes(zset) |-> zset.node[m].value]

Promise == INSTANCE ScoreMap WITH scores <- NodeScores

Order == Promise!Ranking(zset.map)
Position(n) == IF n = HeadNode THEN 0 ELSE CHOOSE i \in DOMAIN Order : Order[i] = n

(* Sorted sets of the instance, and requests of a known shape.             *)
TypeOK ==
  /\ Nodes(zset) \subseteq Members
  /\ \A n \in DOMAIN zset.node :
       /\ zset.node[n].value \in Scores /\ zset.node[n].prev \in Nodes(zset) \cup {Null}
       /\ \A i \in DOMAIN zset.node[n].next :
            Link(zset, n, i) \in [to : Nodes(zset) \cup {Null}, span : Nat]
  /\ zset.level \in Heights /\ zset.length \in Nat /\ zset.tail \in Nodes(zset) \cup {Null}
  /\ DOMAIN zset.map \subseteq Members

(* The lowest level of the list has the members of the map, each of them   *)
(* once, by score and then by name, and the links back, the tail and the   *)
(* length agree with it: _map and the nodes are written in different       *)
(* places of every method.                                                 *)
ListIsInOrder ==
  /\ TypeOK
  /\ NodeScores = zset.map
  /\ \A m \in Members : ZScore(zset, m) = Promise!ScoreOf(m)
  /\ MembersInOrder(zset) = Order
  /\ ZCard(zset) = Len(Order)
  /\ zset.tail = IF Order = <<>> THEN Null ELSE Last(Order)
  /\ \A i \in DOMAIN Order : zset.node[Order[i]].prev = IF i = 1 THEN Null ELSE Order[i - 1]

(* On every level in use a link leads to the next node that is high enough *)
(* and its span is the way to it, or to the end of the list: _insert,      *)
(* _removeNode and the raising and lowering of _level keep it so.          *)
SpansAreDistances ==
  \A n \in DOMAIN zset.node : \A i \in DOMAIN zset.node[n].next :
    LET ahead == {k \in (Position(n) + 1)..Len(Order) : i \in DOMAIN zset.node[Order[k]].next}
    IN i <= zset.level =>
         Link(zset, n, i) =
           IF ahead = {} THEN [to |-> Null, span |-> Len(Order) - Position(n)]
           ELSE [to |-> Order[Min(ahead)], span |-> Min(ahead) - Position(n)]

(* What is asked by position: ZRANK is the position in the order, and the  *)
(* node at that index is the member again, but the empty string has no     *)
(* rank; ZRANGE is a slice of the order when its end counts from the       *)
(* front, or is -1 (SortedSet.rank, _get and range, ZRankCommand,          *)
(* ZRangeCommand).                                                         *)
RanksArePositions ==
  /\ \A m \in Members \ {0} : ZRank(zset, m) = IF Has(zset, m) THEN Position(m) - 1 ELSE Null
  /\ \A i \in 1..(Len(Order) - 1) : NodeAt(zset, i) = Order[i + 1]
  /\ \A a \in Indices, b \in {-1} \cup (Indices \cap Nat) :
       LET n == Len(Order)
           from == IF a >= 0 THEN a ELSE IF n + a < 0 THEN 0 ELSE n + a
       IN ZRange(zset, a, b) = SubSeq(Order, from + 1, IF b = -1 \/ b >= n THEN n ELSE b + 1)

(* The members that ZRANGEBYSCORE asks for, in order.                      *)
Between(min, max, minEx, maxEx) ==
  LET inside == {m \in DOMAIN zset.map :
                   /\ IF minEx THEN min < zset.map[m] ELSE min <= zset.map[m]
                   /\ IF maxEx THEN zset.map[m] < max ELSE zset.map[m] <= max}
  IN Promise!Ranking([m \in inside |-> zset.map[m]])

(* What is asked by score: ZRANGEBYSCORE finds the members whose scores    *)
(* lie in the range, with open and closed ends, and LIMIT cuts a piece out *)
(* of them; ZCOUNT, which adds up spans instead, agrees with it on every   *)
(* range that does not hold exactly one member of several                  *)
(* (SortedSet.rangeByScore and count, ZRangeByScoreCommand, ZCountCommand).*)
ScoreRangesAreExact ==
  \A min, max \in Limits, minEx, maxEx \in BOOLEAN :
    LET expected == Between(min, max, minEx, maxEx) IN
    /\ ZRangeByScore(zset, min, max, minEx, maxEx, 0, zset.length) = expected
    /\ ZRangeByScore(zset, min, max, minEx, maxEx, 1, -1) = SubSeq(expected, 2, Len(expected))
    /\ ZRangeByScore(zset, min, max, minEx, maxEx, 0, 1) =
         SubSeq(expected, 1, IF expected = <<>> THEN 0 ELSE 1)
    /\ LET n == Len(Between(min, max, FALSE, FALSE)) IN
       n # 1 \/ zset.length = 1 => ZCount(zset, min, max) = n

(* The skip list is as good as a map from members to scores: each method   *)
(* and command changes the scores that the same request changes there, and *)
(* has the same reply.  The map's ZADD adds its member, as documented, or  *)
(* answers an error and leaves no trace: the code does the second, always. *)
ImplementsScoreMap == Promise!Spec

=============================================================================
