SPECIFICATION Spec
CONSTANTS
  Sessions = {s1, s2}
  Dbs = {0, 1}
  Codes = {Unparsable, Blank, code}
  Unparsable = Unparsable
  Blank = Blank
  Texts = {"1.5"}
  Ops <- AllOfThem
  MaxSteps = 5
  MaxDepth = 3
  NoQueue = NoQueue
\* The clients may stop sending: the bound on commands ends every behaviour.
CHECK_DEADLOCK FALSE
SYMMETRY Symmetry
VIEW StateView
INVARIANTS ScriptsReadTheirWrites ExecRunsItsQueue
PROPERTIES ScriptsRespectTransactions
