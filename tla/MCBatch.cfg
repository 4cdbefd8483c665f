SPECIFICATION Spec
CONSTANTS
  c1 = c1
  c2 = c2
  c3 = c3
  Calls = {c1, c2, c3}
  UnsafeCalls = {c3}
  Operations <- MCOperations
  BasePath <- MCBasePath
  MaxBatchRequests = 2
  MaxExecutions = 2
SYMMETRY Symmetry
INVARIANTS  DoneIsDone SubrequestsStayHome
\* the calls are used up
CHECK_DEADLOCK FALSE
