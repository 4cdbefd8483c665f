----------------------------- MODULE RetryDelay -----------------------------
(***************************************************************************)
(* How long the client sleeps before a retry (src/retry.go): Retry-After   *)
(* in seconds or as a date, or exponential backoff with jitter, capped by  *)
(* WithMaxRetryDelay.  A time.Duration is an integer of fixed width that   *)
(* wraps; durations are counted in a unit the constants choose.            *)
(*                                                                         *)
(* The machine is the sequence of sleeps of one Do whose every attempt     *)
(* fails in a retryable way.                                               *)
(***************************************************************************)
EXTENDS Integers

CONSTANTS
  MaxDuration,    \* math.MaxInt64
  Second,         \* time.Second
  BackoffBase,    \* backoffBase, retry.go:63
  BackoffJitter,  \* backoffJitter, retry.go:64
  MaxShift,       \* maxBackoffShift, retry.go:71
  Seconds,        \* delay-seconds the service may send: what strconv.Atoi accepts
  Dates,          \* HTTP-dates it may send, as the time left until them
  Caps,           \* values of WithMaxRetryDelay
  MaxRetries      \* WithMaxRetries: the sleeps of one Do

ASSUME DurationAssumption ==
  /\ MaxDuration \in Nat \ {0} /\ Second \in Nat \ {0} /\ BackoffBase \in Nat \ {0}
  /\ BackoffJitter \in Nat \ {0} /\ MaxShift \in Nat /\ MaxRetries \in Nat
  /\ Second <= MaxDuration /\ BackoffBase <= MaxDuration
ASSUME InputAssumption ==
  /\ Seconds \subseteq 0 .. MaxDuration
  /\ Dates \subseteq (-MaxDuration) .. MaxDuration
  /\ Caps \subseteq (-MaxDuration) .. MaxDuration

\* Two's complement: the value of x in a word whose largest value is MaxDuration.
Wrap(x) == ((x + MaxDuration + 1) % (2 * (MaxDuration + 1))) - MaxDuration - 1

\* Retry-After as the client reads it.
NoHeader == [kind |-> "none"]
Headers == {NoHeader} \cup [kind : {"seconds"}, value : Seconds]
                      \cup [kind : {"date"}, value : Dates]

\* retryAfterDelay: does the header name a delay, and which one.
Announced(header) == header.kind = "seconds" \/ (header.kind = "date" /\ header.value > 0)

\* Mutant: the seconds are taken for a Duration.
RetryAfterUnscaled(header) == header.value

RetryAfterDelay(header) ==
  IF header.kind = "seconds" THEN Wrap(header.value * Second) ELSE header.value

\* Mutant: an attempt past the last shift is taken for the first.
ClampOver(attempt) == IF attempt < 0 \/ attempt > MaxShift THEN 0 ELSE attempt

Clamp(attempt) == IF attempt < 0 THEN 0 ELSE IF attempt > MaxShift THEN MaxShift ELSE attempt

\* backoffBase << n, for the shifts Clamp allows.
Shifted[n \in 0 .. MaxShift] == IF n = 0 THEN BackoffBase ELSE 2 * Shifted[n - 1]

\* "shifting no further keeps the arithmetic inside int64" (retry.go:67)
ASSUME ShiftAssumption == Shifted[MaxShift] + BackoffJitter - 1 <= MaxDuration

Backoff(attempt, jitter) == Wrap(Wrap(Shifted[Clamp(attempt)]) + jitter)

UncappedRetryDelay(header, attempt, jitter) ==
  IF Announced(header) THEN RetryAfterDelay(header) ELSE Backoff(attempt, jitter)

\* Mutants of Capped: no floor; no cap.
CappedOnly(delay, cap) == IF cap > 0 /\ delay > cap THEN cap ELSE delay
CappedNever(delay, cap) == IF delay <= 0 THEN BackoffBase ELSE delay

\* The tail of retryDelay: cap first, then the floor under what is not positive.
Capped(delay, cap) ==
  IF cap > 0 /\ delay > cap THEN cap
  ELSE IF delay <= 0 THEN BackoffBase
  ELSE delay

RetryDelay(header, attempt, jitter, cap) ==
  Capped(UncappedRetryDelay(header, attempt, jitter), cap)

-----------------------------------------------------------------------------
VARIABLES
  cap,      \* maxDelay of the client
  attempt,  \* the attempt that has just failed, -1 before the first one
  header,   \* the Retry-After it was answered with
  delay     \* the sleep the client takes

vars == <<cap, attempt, header, delay>>

Init ==
  /\ cap \in Caps
  /\ attempt = -1
  /\ header = NoHeader
  /\ delay = 0

\* client.go:313 and 320: an attempt before the last one failed, with an answer
\* or without one (no header).
Fail(h, jitter) ==
  /\ attempt + 1 < MaxRetries
  /\ attempt' = attempt + 1
  /\ header' = h
  /\ delay' = RetryDelay(h, attempt + 1, jitter, cap)
  /\ UNCHANGED cap

Next == \E h \in Headers, jitter \in 0 .. BackoffJitter - 1 : Fail(h, jitter)

Spec == Init /\ [][Next]_vars

-----------------------------------------------------------------------------
\* "a zero or negative sleep would busy-loop the retry path against the
\* service" (retry.go:37): whatever the header, the attempt and the cap, and
\* also where the arithmetic wraps, the sleep is positive.
SleepIsPositive == attempt >= 0 => delay > 0

\* WithMaxRetryDelay "caps retry sleeps, including Retry-After values"
\* (client.go:119), wrapped ones too: the one sleep longer than a positive cap is the
\* base delay, the floor that is applied after the cap.
CapHolds == cap > 0 /\ delay > cap => delay = BackoffBase

\* Without a header the backoff never backs down: the next sleep is at least
\* the previous one up to jitter, twice it until the shift saturates, and a
\* cap only ever replaces a longer sleep (retry.go:65 on the float version
\* that wrapped at attempt 37).
BackoffGrows ==
  [][ header = NoHeader /\ header' = NoHeader /\ attempt >= 0 =>
      \/ delay' = cap
      \/ attempt >= MaxShift /\ delay' + BackoffJitter > delay
      \/ attempt < MaxShift /\ delay' > 2 * (delay - BackoffJitter) ]_vars

\* A Retry-After in range is honoured: the client waits at least as long as it
\* was told to, or as long as the cap lets it.
RetryAfterHonoured ==
  header.kind = "seconds" /\ header.value * Second <= MaxDuration /\ header.value > 0 =>
     \/ delay >= header.value * Second
     \/ cap > 0 /\ delay = cap
=============================================================================
