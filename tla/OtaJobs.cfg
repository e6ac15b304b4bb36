SPECIFICATION FairSpec
CONSTANTS
  j1 = j1
  j2 = j2
  main = main
  data = data
  other = other
  Jobs = {j1, j2}
  Main = main
  Types = {main, data, other}
  Handlers = {main, data}
  None = None
  Docs <- MCDocs
  MaxFaults <- MCFaults
  MaxQ = 2
INVARIANTS SuccessIsTrue
PROPERTIES JobEnds VerdictDelivered
CHECK_DEADLOCK FALSE
