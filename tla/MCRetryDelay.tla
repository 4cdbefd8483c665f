---------------------------- MODULE MCRetryDelay ----------------------------
(* RetryDelay with a 12-bit duration counted in units of 25 ms: a second is *)
(* 40 units, the base delay 4 and the jitter 2, as in retry.go:62.          *)
EXTENDS RetryDelay

\* 51 s is the last delay that fits, 52 s wraps to a negative duration and
\* 103 s to a positive one shorter than a second.
MCSeconds == {0, 1, 2, 51, 52, 103, 2047}
MCDates == {-2047, -1, 0, 1, 3, 90, 2047}
\* no cap, caps below the base delay, the base delay, and above it
MCCaps == {-1, 0, 1, 3, 4, 30, 70, 2047}
=============================================================================
