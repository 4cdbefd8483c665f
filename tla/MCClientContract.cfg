SPECIFICATION FairSpec
CONSTANTS
  Callers = {c1}
  Methods <- MCMethods
  MaxRetries = 2
  RetryUnsafe <- NoneUnsafe
  Limited = FALSE
  Statuses <- AllStatuses
  Bodies <- AllBodies
  MaxVersion = 3
  MaxGeneration = 1
INVARIANT ExpiredOnlyMeanwhile
PROPERTIES ImplementsContract EveryCallReturns CancelledCallReturns
\* every call may have returned
CHECK_DEADLOCK FALSE
