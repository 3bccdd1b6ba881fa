\* Every pair of arguments behind every alignment, own and other readers.
SPECIFICATION Spec
CONSTANTS
  None = None
  Scenarios <- MCScenarios
\* A message is exchanged once.
CHECK_DEADLOCK FALSE
INVARIANT TypeOK
INVARIANT WellFormed
INVARIANT ReadsExact
