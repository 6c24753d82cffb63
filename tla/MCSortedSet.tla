---------------------------- MODULE MCSortedSet -----------------------------
(* Instances of SortedSet for TLC.                                         *)
EXTENDS SortedSet

MCMembers == 0..2
MCScores == -1..1
MCLimits == -2..2
MCIndices == -3..3

(* The answer is no guard of any action.                                   *)
StateView == zset

=============================================================================
