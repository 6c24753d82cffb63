SPECIFICATION Spec
CONSTANTS
  Sockets = {c1, c2}
  Names = {n1}
  Kinds <- MCKinds
  MaxRequests = 3
  MaxCloses = 1
  None = None
\* The clients may stop sending: the bound on requests ends every behaviour.
CHECK_DEADLOCK FALSE
INVARIANTS UncutRequestsRun LoneRequestsGetTheirReply
PROPERTIES NamesStayWithTheirConnection LoneRequestsAreAnswered
