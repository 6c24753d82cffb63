SPECIFICATION Spec
CONSTANTS
  Sessions = {s1, s2}
  Dbs = {0}
  Ops <- OpsPipeline
  MaxRequests = 4
  MaxChunk = 3
  MaxCalls = 0
  NoQueue = NoQueue
\* The clients may stop sending: the bound on requests ends every behaviour.
CHECK_DEADLOCK FALSE
INVARIANTS ErroredIffRefused AllOrNothing RepliesInOrder OneReplyEach
PROPERTIES RequestsSettle
