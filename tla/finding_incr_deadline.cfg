SPECIFICATION Spec
CONSTANTS
  Keys = {k1}
  Absent = Absent
  Undefined = Undefined
  Text = text
  text = text
  ListBody = ListBody
  Indices = {0}
  Parts = 2
  DbCount = 1
  Sessions = {s1}
  NoSession = NoSession
  Epoch = 3
  MaxNow = 5
  Ttls <- MCTtls
  Second = 2
  MaxSafe = 2
  Increments <- MCIncrements
  Values <- MCValues
PROPERTIES IncrKeepsDeadline
