SPECIFICATION Spec
CONSTANTS
  Keys = {k1, k2}
  Absent = Absent
  Undefined = Undefined
  Text = text
  text = text
  ListBody = ListBody
  Indices <- OneIndex
  Parts = 2
  DbCount = 1
  Sessions = {s1}
  NoSession = NoSession
  Epoch = 3
  MaxNow = 5
  Ttls <- MCTtls
  Second = 2
  MaxSafe = 1
  Increments <- MCIncrements
  Values <- MCTexts
VIEW StateView
INVARIANTS TypeOK
PROPERTIES LivesAreNotLengthened ImplementsExpiringMap ItemsMoveWhole
