SPECIFICATION Spec
CONSTANTS
  MaxDuration = 2047
  Second = 40
  BackoffBase = 4
  BackoffJitter = 2
  MaxShift = 4
  MaxRetries = 12
  Seconds <- MCSeconds
  Dates <- MCDates
  Caps <- MCCaps
INVARIANTS SleepIsPositive CapHolds RetryAfterHonoured
PROPERTY BackoffGrows
\* the sleeps of one Do end with its last retry
CHECK_DEADLOCK FALSE
