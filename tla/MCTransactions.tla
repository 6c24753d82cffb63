--------------------------- MODULE MCTransactions ---------------------------
(* Instances of Transactions for TLC.                                      *)
EXTENDS Transactions, TLC

OpsTransaction == {"push", "read", "wait", "select", "multi", "exec"}
OpsPipeline == {"write", "throw", "wait", "subscribe", "arity", "unknown", "multi",
                "exec", "discard"}

Symmetry == Permutations(Sessions)
=============================================================================
