------------------------------ MODULE SkipList ------------------------------
(***************************************************************************)
(* The class SortedSet: a map from members to scores, and a skip list of   *)
(* nodes ordered by score and then by member.  A link of level i points at *)
(* the next node of height i or more, and its span is the number of nodes  *)
(* that it passes over, the one it points at included.                     *)
(*                                                                         *)
(* A sorted set is a record: node, the nodes by member and the head; tail, *)
(* level and length, the fields of the class; map, the scores by member.   *)
(* Levels count from 1, where the code counts from 0.  Members are numbers *)
(* in the order of the strings they stand for, 0 is the empty string.      *)
(* Every set of the program is made with unique = false.                   *)
(***************************************************************************)
EXTENDS SequencesExt, Integers

CONSTANTS
  Members,   \* the members of the instance
  MaxLevel,  \* 32 in the code: the height of the head
  HeadNode,  \* _head
  Null       \* null

ASSUME MembersAssumption == Members \subseteq Nat /\ Null \notin Nat
ASSUME HeadAssumption == HeadNode \notin Members /\ HeadNode # Null
ASSUME LevelAssumption == MaxLevel \in Nat \ {0}

EmptySet ==
  [node |-> [n \in {HeadNode} |-> [value |-> 0, prev |-> Null,
                                   next |-> [i \in 1..MaxLevel |-> [to |-> Null, span |-> 0]]]],
   tail |-> Null, level |-> 1, length |-> 0, map |-> <<>>]

Link(z, n, i) == z.node[n].next[i]
Nodes(z) == DOMAIN z.node \ {HeadNode}
First(z) == Link(z, HeadNode, 1).to

(* The nodes with a score below s, and those before <<s, m>>.              *)
Lower(z, s) == {n \in Nodes(z) : z.node[n].value < s}
Before(z, s, m) == Lower(z, s) \cup {n \in Nodes(z) : z.node[n].value = s /\ n < m}
Has(z, m) == m \in DOMAIN z.map

(***************************************************************************)
(* Descending the levels.  A stop is a node with the sum of the spans that *)
(* led to it.  On each level the descent rides on as long as the next stop *)
(* is in Ahead; the result has the last stop of every level, which is what *)
(* the code keeps in update and rank.                                      *)
(***************************************************************************)
Stops(S) == [at : S, gone : Int]

NextStop(z, i, p) == [at |-> Link(z, p.at, i).to, gone |-> p.gone + Link(z, p.at, i).span]

Ride(z, i, p, Ahead) ==
  LET ride[q \in Stops({n \in DOMAIN z.node : i \in DOMAIN z.node[n].next})] ==
        IF NextStop(z, i, q) \in Ahead THEN ride[NextStop(z, i, q)] ELSE q
  IN ride[p]

Descend(z, top, from, Ahead) ==
  LET last[i \in 1..(top + 1)] ==
        IF i > top THEN [at |-> from, gone |-> 0] ELSE Ride(z, i, last[i + 1], Ahead)
  IN last

Path(z, Ahead) == Descend(z, z.level, HeadNode, Ahead)

(* Those of T among the nodes from n on along the lowest level, as long as *)
(* they are in S.                                                          *)
Walk(z, n, S, T) ==
  LET walk[x \in DOMAIN z.node \cup {Null}] ==
        IF x \notin S THEN <<>>
        ELSE (IF x \in T THEN <<x>> ELSE <<>>) \o walk[Link(z, x, 1).to]
  IN walk[n]

MembersInOrder(z) == Walk(z, First(z), Nodes(z), Nodes(z))

(***************************************************************************)
(* _insert of a member that has no node, at height h.                      *)
(***************************************************************************)

Insert(z, m, s, h) ==
  LET path == Path(z, Stops(Before(z, s, m)))
      top == IF h > z.level THEN h ELSE z.level
      at(i) == IF i > z.level THEN HeadNode ELSE path[i].at
      past(i) == path[1].gone - (IF i > z.level THEN 0 ELSE path[i].gone)
      old(i) ==
        IF i > z.level THEN [Link(z, HeadNode, i) EXCEPT !.span = z.length] ELSE Link(z, at(i), i)
      relinked(x, i) ==
        CASE i > top \/ x # at(i) -> Link(z, x, i)
          [] x = at(i) /\ i <= h -> [to |-> m, span |-> past(i) + 1]
          [] x = at(i) /\ h < i /\ i <= top -> [old(i) EXCEPT !.span = @ + 1]
      new == [value |-> s, prev |-> IF at(1) = HeadNode THEN Null ELSE at(1),
              next |-> [i \in 1..h |-> [old(i) EXCEPT !.span = @ - past(i)]]]
  IN [z EXCEPT !.node = [x \in DOMAIN z.node \cup {m} |->
                           IF x = m THEN new
                           ELSE [z.node[x] EXCEPT !.next = [i \in DOMAIN @ |-> relinked(x, i)],
                                                  !.prev = IF x = old(1).to THEN m ELSE @]],
               !.tail = IF old(1).to = Null THEN m ELSE @,
               !.level = top, !.length = @ + 1]

(***************************************************************************)
(* _removeNode and _remove.                                                *)
(***************************************************************************)

(* Mutant: a link that passes over n is left as it was.                    *)
BypassBlind(z, x, n, i) ==
  IF Link(z, x, i).to = n
  THEN [to |-> Link(z, n, i).to, span |-> Link(z, x, i).span + Link(z, n, i).span - 1]
  ELSE Link(z, x, i)

(* The link of level i that led to n, or over it, once n is gone.          *)
Bypass(z, x, n, i) ==
  IF Link(z, x, i).to = n
  THEN [to |-> Link(z, n, i).to, span |-> Link(z, x, i).span + Link(z, n, i).span - 1]
  ELSE [Link(z, x, i) EXCEPT !.span = @ - 1]

(* n is the next node after path on every level that it has.               *)
RemoveNode(z, n, path) ==
  LET relinked(x, i) ==
        IF i <= z.level /\ x = path[i].at THEN Bypass(z, x, n, i) ELSE Link(z, x, i)
      after == Link(z, n, 1).to
  IN [z EXCEPT !.node = [x \in DOMAIN z.node \ {n} |->
                           [z.node[x] EXCEPT !.next = [i \in DOMAIN @ |-> relinked(x, i)],
                                             !.prev = IF x = after THEN z.node[n].prev ELSE @]],
               !.tail = IF after = Null THEN z.node[n].prev ELSE @,
               !.level = Max({1} \cup {i \in 1..@ : relinked(HeadNode, i).to # Null})]

(* _remove: the node of m, if it is where the score s says.                *)
Unlink(z, m, s) ==
  LET path == Path(z, Stops(Before(z, s, m)))
      n == Link(z, path[1].at, 1).to
  IN IF n = m /\ z.node[n].value = s
     THEN [RemoveNode(z, n, path) EXCEPT !.length = @ - 1]
     ELSE z

(***************************************************************************)
(* The methods that change a set.  h is what randomLevel draws.            *)
(***************************************************************************)

Mapped(map, m, s) == [x \in DOMAIN map \cup {m} |-> IF x = m THEN s ELSE map[x]]

(* Mutant: the new score is linked in beside the old one's place.          *)
AddInPlace(z, m, s, h) ==
  IF Has(z, m)
  THEN [z EXCEPT !.node[m].value = s, !.map[m] = s]
  ELSE [Insert(z, m, s, h) EXCEPT !.map = Mapped(@, m, s)]

Add(z, m, s, h) ==
  IF Has(z, m) /\ z.map[m] = s THEN z
  ELSE LET y == IF Has(z, m) THEN Unlink(z, m, z.map[m]) ELSE z
       IN [Insert(y, m, s, h) EXCEPT !.map = Mapped(@, m, s)]

Forget(z, S) == [z EXCEPT !.map = [m \in DOMAIN @ \ S |-> @[m]]]

Rem(z, m) == IF Has(z, m) THEN Forget(Unlink(z, m, z.map[m]), {m}) ELSE z

(* Mutant: a negative score, too, is taken for a member that is missing.   *)
IncrByPositive(z, d, m, h) ==
  IF Has(z, m) /\ z.map[m] > 0 THEN Add(z, m, z.map[m] + d, h) ELSE Add(z, m, d, h)

(* A score of 0 is falsy, and so taken for a member that is missing.       *)
IncrBy(z, d, m, h) ==
  IF Has(z, m) /\ z.map[m] # 0 THEN Add(z, m, z.map[m] + d, h) ELSE Add(z, m, d, h)

(* The loops at the end of the two methods below: nodes go one by one, the *)
(* path is that of the first.                                              *)
RemoveRun(z, run, path) ==
  LET left[n \in 0..Len(run)] == IF n = 0 THEN z ELSE RemoveNode(left[n - 1], run[n], path)
  IN Forget([left[Len(run)] EXCEPT !.length = @ - Len(run)], Range(run))

(* An index that counts from the end when it is negative.                  *)
FromStart(z, index) == IF index < 0 THEN z.length + index ELSE index
AtLeastZero(n) == IF n < 0 THEN 0 ELSE n

(* end is exclusive.                                                       *)
RemRangeByRank(z, start, end) ==
  LET from == AtLeastZero(FromStart(z, start))
      to == IF FromStart(z, end) > z.length THEN z.length ELSE FromStart(z, end)
      path == Path(z, [at : Nodes(z), gone : 0..from])
      rest == Walk(z, Link(z, path[1].at, 1).to, Nodes(z), Nodes(z))
      most == AtLeastZero(to - path[1].gone)
  IN CASE z.length = 0 \/ from > FromStart(z, end) \/ from >= z.length -> z
       [] z.length > 0 /\ from = 0 /\ to = z.length -> EmptySet
       [] OTHER -> RemoveRun(z, SubSeq(rest, 1, IF most > Len(rest) THEN Len(rest) ELSE most), path)

RemRangeByScore(z, min, max) ==
  LET path == Path(z, Stops(Lower(z, min)))
      low == {n \in Nodes(z) : z.node[n].value <= max}
      run == Walk(z, Link(z, path[1].at, 1).to, low, low)
  IN CASE z.length = 0 -> z
       [] z.length > 0 /\ min <= z.node[First(z)].value /\ max >= z.node[z.tail].value -> EmptySet
       [] OTHER -> RemoveRun(z, run, path)

(***************************************************************************)
(* The methods that read a set.                                            *)
(***************************************************************************)

(* _first: the first node with a score of min or more.                     *)
FirstFrom(z, min) ==
  IF z.tail = Null \/ z.node[z.tail].value < min THEN Null
  ELSE Link(z, Path(z, Stops(Lower(z, min)))[1].at, 1).to

(* _get: the node at an index above 0.                                     *)
NodeAt(z, index) ==
  LET last == Path(z, [at : Nodes(z), gone : 0..(index + 1)])[1]
  IN IF last.gone = index + 1 THEN last.at ELSE Null

(* The empty string is falsy: its node is never the one that is sought.    *)
Rank(z, m) ==
  LET last == Path(z, Stops(Before(z, z.map[m], m) \cup {m}))[1]
  IN IF Has(z, m) /\ m # 0 /\ last.at = m THEN last.gone - 1 ELSE Null

(* What a range of scores meets first: min is above all, or max below all, *)
(* or the range is reversed.                                               *)
Misses(z, min, max) ==
  max < min \/ min > z.node[z.tail].value \/ max < z.node[First(z)].value
Covers(z, min, max) == min <= z.node[First(z)].value /\ max >= z.node[z.tail].value

(* Mutant: the steps between the nodes of the range are not repaired.      *)
CountSteps(z, min, max) ==
  LET first == FirstFrom(z, min)
      ahead == Stops({n \in Nodes(z) : z.node[n].value <= max})
  IN CASE z.length = 0 -> 0
       [] z.length > 0 /\ Covers(z, min, max) -> z.length
       [] z.length > 0 /\ Misses(z, min, max) -> 0
       [] OTHER -> Descend(z, Len(z.node[first].next), first, ahead)[1].gone

(* The steps from the first node of the range to its last; one more is     *)
(* added unless there are none, where there is one node all the same.      *)
Count(z, min, max) ==
  LET first == FirstFrom(z, min)
      ahead == Stops({n \in Nodes(z) : z.node[n].value <= max})
      steps == Descend(z, Len(z.node[first].next), first, ahead)[1].gone
  IN CASE z.length = 0 -> 0
       [] z.length > 0 /\ Covers(z, min, max) -> z.length
       [] z.length > 0 /\ Misses(z, min, max) -> 0
       [] OTHER -> IF steps = 0 THEN 0 ELSE steps + 1

(* stop is inclusive.                                                      *)
SetRange(z, start, stop) ==
  LET from == AtLeastZero(FromStart(z, start))
      to == IF FromStart(z, stop) >= z.length THEN z.length - 1 ELSE FromStart(z, stop)
      first == IF from > 0 THEN NodeAt(z, from) ELSE First(z)
  IN IF z.length = 0 \/ from > FromStart(z, stop) \/ from >= z.length THEN <<>>
     ELSE SubSeq(Walk(z, first, Nodes(z), Nodes(z)), 1, to - from + 1)

RangeByScore(z, min, max, minEx, maxEx) ==
  LET low == {n \in Nodes(z) : z.node[n].value <= max}
      pushed == {n \in low : /\ minEx => z.node[n].value # min
                             /\ maxEx => z.node[n].value # max}
  IN CASE z.length = 0 -> <<>>
       [] z.length > 0 /\ ~minEx /\ ~maxEx /\ Covers(z, min, max) -> MembersInOrder(z)
       [] z.length > 0 /\ Misses(z, min, max) -> <<>>
       [] OTHER -> Walk(z, FirstFrom(z, min), low, pushed)

=============================================================================
