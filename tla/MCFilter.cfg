SPECIFICATION ScanSpec
CONSTANT Filters <- MCFilters
INVARIANTS ScanIsExact MeaningKept
PROPERTY NothingBoundIsReported
\* a scan ends
CHECK_DEADLOCK FALSE
