SPECIFICATION Spec
CONSTANTS
  Sessions = {s1, s2}
  Dbs = {0, 1}
  Ops <- OpsTransaction
  MaxRequests = 5
  MaxChunk = 2
  MaxCalls = 1
  NoQueue = NoQueue
\* The clients may stop sending: the bound on requests ends every behaviour.
CHECK_DEADLOCK FALSE
SYMMETRY Symmetry
INVARIANTS RunsAreContiguous OneReplyEach
PROPERTIES QueuedRequestsWait
