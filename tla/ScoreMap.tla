------------------------------ MODULE ScoreMap ------------------------------
(***************************************************************************)
(* What a sorted set promises: a map from members to scores, whose order   *)
(* is that of the scores and, for equal scores, of the members.            *)
(***************************************************************************)
EXTENDS SequencesExt, Integers

CONSTANTS
  Members,  \* the members of the instance
  Scores,   \* the scores
  Limits,   \* inputs: the ends of score ranges
  Indices,  \* inputs: the ends of index ranges
  Null      \* the reply for a member that is not there

VARIABLES
  scores,   \* a function from the members that are there to their scores
  answer    \* the last request and its reply

vars == <<scores, answer>>

Ranking(f) ==
  CHOOSE order \in [1..Cardinality(DOMAIN f) -> DOMAIN f] :
    \A i, j \in DOMAIN order : i < j =>
      LET m == order[i]
          n == order[j]
      IN f[m] < f[n] \/ (f[m] = f[n] /\ m < n)

Without(f, S) == [m \in DOMAIN f \ S |-> f[m]]

ScoreOf(m) == IF m \in DOMAIN scores THEN scores[m] ELSE Null
Raised(m, d) == IF m \in DOMAIN scores THEN scores[m] + d ELSE d

(* The members at the indices from a up to, but not including, b, where a  *)
(* negative index counts from the end.                                     *)
Slice(f, a, b) ==
  LET n == Cardinality(DOMAIN f)
      index(x) == IF x < 0 THEN n + x ELSE x
  IN {Ranking(f)[i + 1] : i \in {j \in 0..(n - 1) : index(a) <= j /\ j < index(b)}}

WithScore(f, min, max) == {m \in DOMAIN f : min <= f[m] /\ f[m] <= max}

Answer(request, reply) == answer' = [request |-> request, reply |-> reply]

SetScore(m, s, request, reply) ==
  /\ scores' = [n \in DOMAIN scores \cup {m} |-> IF n = m THEN s ELSE scores[n]]
  /\ Answer(request, reply)

Take(S, request, reply) ==
  /\ scores' = Without(scores, S)
  /\ Answer(request, reply)

Init == /\ scores = <<>>
        /\ answer = [request |-> <<"none">>, reply |-> Null]

(* ZADD adds its member, or gives it the new score, and answers how many   *)
(* it has added; or it answers an error and leaves the map as it was.      *)
ZAdd(m, s) ==
  \/ SetScore(m, s, <<"zadd", m, s>>, <<"integer", Cardinality({m} \ DOMAIN scores)>>)
  \/ Take({}, <<"zadd", m, s>>, <<"error">>)

Next ==
  \/ \E m \in Members, s \in Scores :
       \/ SetScore(m, s, <<"add", m, s>>, ScoreOf(m))
       \/ ZAdd(m, s)
  \/ \E m \in Members, d \in Scores :
       \/ SetScore(m, Raised(m, d), <<"incrBy", m, d>>, Raised(m, d))
       \/ SetScore(m, Raised(m, d), <<"zincrby", m, d>>, Raised(m, d))
  \/ \E m \in Members : Take({m}, <<"rem", m>>, ScoreOf(m))
  \/ \E m, n \in Members :
       Take({m, n}, <<"zrem", m, n>>, Cardinality({m, n} \cap DOMAIN scores))
  \/ \E a, b \in Indices : LET S == Slice(scores, a, b) IN
       Take(S, <<"remRangeByRank", a, b>>, Cardinality(S))
  \/ \E min, max \in Limits : LET S == WithScore(scores, min, max) IN
       Take(S, <<"remRangeByScore", min, max>>, Cardinality(S))
  \/ Take(DOMAIN scores, <<"empty">>, Null)

Spec == Init /\ [][Next]_vars

=============================================================================
