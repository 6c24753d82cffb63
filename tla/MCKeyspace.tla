----------------------------- MODULE MCKeyspace -----------------------------
(* Instances of Keyspace for TLC.                                          *)
EXTENDS KeyspaceRefinement

CONSTANT text

MCTtls == {0, 1}
MCTexts == {text}
MCValues == {text, 1}
MCIncrements == {text, 1}
NoIncrements == {}

(* In halves and below 2: the index 1 is 0.5, which SELECT and MOVE take,  *)
(* -2 and 4 are refused.                                                   *)
MCIndices == {-2, 0, 1, 4}

(* In halves and below 1: one database, and two indices that are refused.  *)
OneIndex == {-2, 0, 2}

(* The answer is no guard of any action: states that differ in it only     *)
(* need not be told apart.                                                 *)
StateView == <<dbs, now, currentDb>>

=============================================================================
