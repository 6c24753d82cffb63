SPECIFICATION Spec
CONSTANTS
  Keys = {k1, k2}
  Members = {a, b}
  ErrorText = ErrorText
  Fields = {f, constructor, proto}
  Inherited = {constructor, proto}
  Proto = proto
  Values = {v, Empty}
  Empty = Empty
  Indices <- MCIndices
  Counts <- MCCounts
  Malformed = Malformed
  Builtin = Builtin
  Blob = Blob
  Absent = Absent
  MaxLength = 3
VIEW StateView
INVARIANTS ListReadsAreExact NoListIsEmpty
PROPERTIES ListEditsAreExact FailuresChangeNothing RepliesTellChanges EditsKeepDeadlines
