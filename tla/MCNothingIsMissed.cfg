SPECIFICATION ScanSpec
CONSTANT Filters <- MCFilters
INVARIANT NothingIsMissed
CHECK_DEADLOCK FALSE
