SPECIFICATION Spec
CONSTANTS
  Keys = {k1}
  Absent = Absent
  Undefined = Undefined
  Text = text
  text = text
  ListBody = ListBody
  Indices <- MCIndices
  Parts = 2
  DbCount = 2
  Sessions = {s1, s2}
  NoSession = NoSession
  Epoch = 3
  MaxNow = 5
  Ttls <- MCTtls
  Second = 2
  MaxSafe = 1
  Increments <- NoIncrements
  Values <- MCTexts
VIEW StateView
PROPERTIES ImplementsExpiringMap SessionsKeepToTheirDb
