SPECIFICATION FairSpec
CONSTANTS
  MaxRetries = 2
  Limits = {0, 2}
  Statuses = {200, 206, 302, 304, 307, 404, 503}
  MaxLength = 4
INVARIANTS SuccessIsWhole TokenStaysWithGraph BodiesClosed
PROPERTIES StreamsOnce DownloadReturns
\* a download ends
CHECK_DEADLOCK FALSE
