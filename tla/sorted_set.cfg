SPECIFICATION Spec
CONSTANTS
  Members <- MCMembers
  MaxLevel = 3
  HeadNode = HeadNode
  Null = Null
  Scores <- MCScores
  Limits <- MCLimits
  Indices <- MCIndices
VIEW StateView
INVARIANTS ListIsInOrder SpansAreDistances RanksArePositions ScoreRangesAreExact
PROPERTIES ImplementsScoreMap
