SPECIFICATION Spec
CONSTANTS
  Keys = {k1, k2}
  Sessions = {s1}
  MaxElements = 3
  MaxBlocking = 2
  BatchSizes = {1, 2}
  None = None
  Nil = Nil
  Refused = Refused
  Rejected = Rejected
\* The clients may stop sending: the bounds end every behaviour.
CHECK_DEADLOCK FALSE
INVARIANTS OneMovePerRequest
