SPECIFICATION Spec
CONSTANTS
  Callers = {c1, c2}
  Methods <- MCMethods
  MaxRetries = 1
  RetryUnsafe <- OneUnsafe
  Limited = TRUE
  Statuses <- FewStatuses
  Bodies <- FewBodies
  MaxVersion = 3
  MaxGeneration = 0
INVARIANTS TypeOK MutationAtMostOnce NoLostUpdate SuccessIsFinal RejectionIsFinal RefusalIsFinal NoOpenBody
\* every call may have returned
CHECK_DEADLOCK FALSE
