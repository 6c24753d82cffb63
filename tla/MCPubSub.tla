------------------------------ MODULE MCPubSub ------------------------------
(* Instances of PubSub for TLC.                                            *)
EXTENDS PubSub, TLC

Symmetry == Permutations(Sessions) \cup Permutations(Channels)
=============================================================================
