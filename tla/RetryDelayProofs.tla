-------------------------- MODULE RetryDelayProofs --------------------------
(***************************************************************************)
(* The sleeps of RetryDelay for every width of a duration, every cap and   *)
(* every header: they are in range, positive, and within cap and floor.    *)
(***************************************************************************)
EXTENDS RetryDelay, WellFoundedInduction, TLAPS

\* Wrapping yields a duration whatever integer it is given.
LEMMA WrapType ==
  ASSUME NEW x \in Int
  PROVE  Wrap(x) \in (-MaxDuration - 1) .. MaxDuration
<1> DEFINE m == 2 * (MaxDuration + 1)
           y == x + MaxDuration + 1
<1>1. m \in Nat \ {0} /\ y \in Int
  BY DurationAssumption
<1>2. y % m \in 0 .. m - 1
  <2> HIDE DEF m, y
  <2> QED BY <1>1
<1> QED BY <1>2, DurationAssumption DEF Wrap

\* Induction over Nat, for a set instead of a predicate.
LEMMA NatSetInduction ==
  ASSUME NEW S, 0 \in S, \A n \in Nat : n \in S => n + 1 \in S
  PROVE  Nat \subseteq S
<1> DEFINE T == Nat \ S
           R == {p \in Nat \X Nat : p[1] < p[2]}
<1> SUFFICES ASSUME T # {} PROVE FALSE
  OBVIOUS
<1>1. IsWellFoundedOn(R, Nat)
  BY NatLessThanWellFounded DEF OpToRel
<1>2. PICK x \in T : \A y \in T : <<y, x>> \notin R
  <2>1. T \subseteq Nat
    OBVIOUS
  <2> HIDE DEF T, R
  <2> QED BY <1>1, <2>1, WFMin
<1>3. x \in Nat /\ x - 1 \in Nat /\ (x - 1) + 1 = x
  OBVIOUS
<1>4. x - 1 \in T /\ <<x - 1, x>> \in R
  BY <1>3
<1> QED BY <1>2, <1>4

\* There is a function that doubles the base delay n times.
Doubling(n) ==
  {f \in [0 .. n -> Nat \ {0}] : f[0] = BackoffBase /\ \A i \in 0 .. n - 1 : f[i + 1] = 2 * f[i]}

LEMMA DoublingExists == \A n \in Nat : Doubling(n) # {}
<1> DEFINE T == {n \in Nat : Doubling(n) # {}}
<1>1. 0 \in T
  <2> DEFINE f == [i \in 0 .. 0 |-> BackoffBase]
  <2>1. f \in Doubling(0)
    BY DurationAssumption DEF Doubling
  <2> QED BY <2>1
<1>2. ASSUME NEW n \in Nat, n \in T PROVE n + 1 \in T
  <2>1. PICK f \in Doubling(n) : TRUE
    BY <1>2
  <2>2. /\ f \in [0 .. n -> Nat \ {0}] /\ f[0] = BackoffBase
        /\ \A i \in 0 .. n - 1 : f[i + 1] = 2 * f[i]
    BY <2>1 DEF Doubling
  <2> DEFINE g == [i \in 0 .. n + 1 |-> IF i = n + 1 THEN 2 * f[n] ELSE f[i]]
  <2>3. g \in [0 .. n + 1 -> Nat \ {0}] /\ g[0] = BackoffBase
    BY <2>2
  <2>4. ASSUME NEW i \in 0 .. (n + 1) - 1 PROVE g[i + 1] = 2 * g[i]
    <3>1. g[i] = f[i]
      OBVIOUS
    <3>2. CASE i = n
      BY <3>1, <3>2
    <3>3. CASE i # n
      <4>1. i \in 0 .. n - 1 /\ g[i + 1] = f[i + 1]
        BY <3>3
      <4> QED BY <2>2, <3>1, <4>1
    <3> QED BY <3>2, <3>3
  <2> HIDE DEF g
  <2>5. g \in Doubling(n + 1)
    BY <2>3, <2>4 DEF Doubling
  <2> QED BY <2>5
<1> HIDE DEF T
<1>3. Nat \subseteq T
  BY <1>1, <1>2, NatSetInduction
<1> QED BY <1>3 DEF T

\* Shifted is what its equation says: each shift doubles the delay.
LEMMA ShiftedDoubles ==
  /\ Shifted \in [0 .. MaxShift -> Nat \ {0}]
  /\ \A n \in 0 .. MaxShift - 1 : Shifted[n + 1] = 2 * Shifted[n]
<1> DEFINE Body(f) == [n \in 0 .. MaxShift |-> IF n = 0 THEN BackoffBase ELSE 2 * f[n - 1]]
<1>1. PICK f \in Doubling(MaxShift) : TRUE
  BY DoublingExists, DurationAssumption
<1>2. /\ f \in [0 .. MaxShift -> Nat \ {0}] /\ f[0] = BackoffBase
      /\ \A i \in 0 .. MaxShift - 1 : f[i + 1] = 2 * f[i]
  BY <1>1 DEF Doubling
<1>3. f = Body(f)
  <2>1. ASSUME NEW n \in 0 .. MaxShift, n # 0 PROVE f[n] = 2 * f[n - 1]
    <3>1. n - 1 \in 0 .. MaxShift - 1 /\ (n - 1) + 1 = n
      BY <2>1, DurationAssumption
    <3> QED BY <1>2, <3>1
  <2> QED BY <1>2, <2>1
<1>4. Shifted = Body(Shifted)
  <2>1. Shifted = CHOOSE h : h = Body(h)
    BY DEF Shifted
  <2>2. \E h : h = Body(h)
    BY <1>3
  <2> HIDE DEF Body
  <2> QED BY <2>1, <2>2, Zenon
<1>5. Shifted[0] = BackoffBase /\ DOMAIN Shifted = 0 .. MaxShift
  BY <1>4, DurationAssumption
<1>6. ASSUME NEW n \in 0 .. MaxShift - 1 PROVE Shifted[n + 1] = 2 * Shifted[n]
  <2>1. n + 1 \in 0 .. MaxShift /\ n + 1 # 0 /\ (n + 1) - 1 = n
    BY DurationAssumption
  <2>2. Body(Shifted)[n + 1] = 2 * Shifted[n]
    BY <2>1
  <2> QED BY <1>4, <2>2
<1> DEFINE T == {n \in Nat : n <= MaxShift => Shifted[n] \in Nat \ {0}}
<1>7. Nat \subseteq T
  <2>1. 0 \in T
    BY <1>5, DurationAssumption
  <2>2. ASSUME NEW n \in Nat, n \in T, n + 1 <= MaxShift PROVE Shifted[n + 1] \in Nat \ {0}
    <3>1. n \in 0 .. MaxShift - 1 /\ n <= MaxShift
      BY <2>2, DurationAssumption
    <3>2. Shifted[n] \in Nat \ {0}
      BY <2>2, <3>1
    <3> QED BY <1>6, <3>1, <3>2
  <2>3. \A n \in Nat : n \in T => n + 1 \in T
    BY <2>2
  <2> HIDE DEF T
  <2> QED BY <2>1, <2>3, NatSetInduction
<1>8. \A n \in 0 .. MaxShift : Shifted[n] \in Nat \ {0}
  BY <1>7
<1>9. Shifted \in [0 .. MaxShift -> Nat \ {0}]
  <2> HIDE DEF Body
  <2>1. Shifted = [n \in 0 .. MaxShift |-> Shifted[n]]
    BY <1>4 DEF Body
  <2> QED BY <1>8, <2>1
<1> QED BY <1>6, <1>9

\* The tail of retryDelay returns a positive duration whatever it is given, and
\* no other than the base delay above a positive cap.
LEMMA CappedBounds ==
  ASSUME NEW d \in (-MaxDuration - 1) .. MaxDuration,
         NEW limit \in (-MaxDuration) .. MaxDuration
  PROVE  /\ Capped(d, limit) \in 1 .. MaxDuration
         /\ limit > 0 /\ Capped(d, limit) > limit => Capped(d, limit) = BackoffBase
BY DurationAssumption DEF Capped

\* The delay before the cap is a duration.
LEMMA UncappedType ==
  ASSUME NEW h \in Headers, NEW a \in Nat, NEW j \in 0 .. BackoffJitter - 1
  PROVE  UncappedRetryDelay(h, a, j) \in (-MaxDuration - 1) .. MaxDuration
<1>1. CASE h.kind = "seconds"
  <2>1. h.value \in Nat
    <3>1. h \in [kind : {"seconds"}, value : Seconds]
      BY <1>1 DEF Headers, NoHeader
    <3>2. h.value \in Seconds
      BY <3>1
    <3>3. h.value \in 0 .. MaxDuration
      BY <3>2, InputAssumption
    <3> QED BY <3>3
  <2>2. h.value * Second \in Int
    BY <2>1, DurationAssumption
  <2> QED BY <1>1, <2>2, WrapType DEF UncappedRetryDelay, Announced, RetryAfterDelay
<1>2. CASE h.kind = "date" /\ h.value > 0
  <2>1. h.value \in (-MaxDuration) .. MaxDuration
    <3>1. h \in [kind : {"date"}, value : Dates]
      BY <1>2 DEF Headers, NoHeader
    <3>2. h.value \in Dates
      BY <3>1
    <3> QED BY <3>2, InputAssumption
  <2> QED BY <1>2, <2>1, DurationAssumption DEF UncappedRetryDelay, Announced, RetryAfterDelay
<1>3. CASE ~Announced(h)
  <2>1. Clamp(a) \in 0 .. MaxShift
    BY DurationAssumption DEF Clamp
  <2>2. Shifted[Clamp(a)] \in Int
    BY <2>1, ShiftedDoubles
  <2>3. Wrap(Shifted[Clamp(a)]) + j \in Int
    BY <2>2, WrapType, DurationAssumption
  <2>4. Backoff(a, j) \in (-MaxDuration - 1) .. MaxDuration
    BY <2>3, WrapType DEF Backoff
  <2> QED BY <1>3, <2>4 DEF UncappedRetryDelay
<1> QED BY <1>1, <1>2, <1>3 DEF Announced

-----------------------------------------------------------------------------
\* Durations are in range, and the header is one the client can read.
TypeOK ==
  /\ cap \in Caps
  /\ attempt \in -1 .. MaxRetries - 1
  /\ header \in Headers
  /\ delay \in (-MaxDuration - 1) .. MaxDuration

\* TypeOK is inductive together with the two bounds on the sleep.
Bounds == TypeOK /\ SleepIsPositive /\ CapHolds

\* Every sleep of every Do is positive, fits a Duration and obeys the cap,
\* Retry-After and wrapped arithmetic included (retry.go:31).
THEOREM SleepBounds == Spec => []Bounds
<1>1. Init => Bounds
  <2> SUFFICES ASSUME Init PROVE Bounds
    OBVIOUS
  <2>1. cap \in (-MaxDuration) .. MaxDuration
    BY InputAssumption DEF Init
  <2>2. TypeOK
    BY DurationAssumption DEF Init, TypeOK, Headers
  <2> QED BY <2>1, <2>2, DurationAssumption DEF Init, Bounds, SleepIsPositive, CapHolds
<1>2. Bounds /\ [Next]_vars => Bounds'
  <2> SUFFICES ASSUME Bounds, [Next]_vars PROVE Bounds'
    OBVIOUS
  <2>1. CASE Next
    <3>1. PICK h \in Headers, jitter \in 0 .. BackoffJitter - 1 : Fail(h, jitter)
      BY <2>1 DEF Next
    <3>2. attempt + 1 \in Nat /\ cap \in (-MaxDuration) .. MaxDuration
      BY InputAssumption, DurationAssumption DEF Bounds, TypeOK
    <3>3. /\ delay' \in 1 .. MaxDuration
          /\ cap > 0 /\ delay' > cap => delay' = BackoffBase
      BY <3>1, <3>2, UncappedType, CappedBounds DEF Fail, RetryDelay
    <3>4. TypeOK'
      BY <3>1, <3>3, DurationAssumption DEF Fail, Bounds, TypeOK
    <3> QED BY <3>1, <3>3, <3>4, DurationAssumption DEF Fail, Bounds, SleepIsPositive, CapHolds
  <2>2. CASE UNCHANGED vars
    BY <2>2 DEF vars, Bounds, TypeOK, SleepIsPositive, CapHolds
  <2> QED BY <2>1, <2>2
<1> QED BY <1>1, <1>2, PTL DEF Spec

\* The single-property form of SleepBounds for the floor under the sleep.
THEOREM PositiveSleeps == Spec => []SleepIsPositive
<1>1. Bounds => SleepIsPositive
  BY DEF Bounds
<1> QED BY <1>1, SleepBounds, PTL

\* And for the cap.
THEOREM CappedSleeps == Spec => []CapHolds
<1>1. Bounds => CapHolds
  BY DEF Bounds
<1> QED BY <1>1, SleepBounds, PTL

-----------------------------------------------------------------------------
\* A number that is a duration is not changed by wrapping.
LEMMA WrapInRange ==
  ASSUME NEW x \in 0 .. MaxDuration
  PROVE  Wrap(x) = x
<1> DEFINE m == 2 * (MaxDuration + 1)
           y == x + MaxDuration + 1
<1>1. m \in Nat \ {0} /\ y \in 0 .. m - 1
  BY DurationAssumption
<1>2. y % m = y
  <2> HIDE DEF m, y
  <2> QED BY <1>1
<1> QED BY <1>2, DurationAssumption DEF Wrap

\* A Retry-After in range is slept in full, or for as long as the cap lets it.
LEMMA InRangeIsHonoured ==
  ASSUME NEW h \in Headers, NEW a \in Nat, NEW j \in 0 .. BackoffJitter - 1,
         NEW limit \in (-MaxDuration) .. MaxDuration,
         h.kind = "seconds", h.value * Second <= MaxDuration, h.value > 0
  PROVE  \/ RetryDelay(h, a, j, limit) >= h.value * Second
         \/ limit > 0 /\ RetryDelay(h, a, j, limit) = limit
<1>1. h.value \in Nat \ {0}
  <2>1. h \in [kind : {"seconds"}, value : Seconds]
    BY DEF Headers, NoHeader
  <2>2. h.value \in Seconds
    BY <2>1
  <2>3. h.value \in 0 .. MaxDuration
    BY <2>2, InputAssumption
  <2> QED BY <2>3
<1> DEFINE d == h.value * Second
<1>2. d \in 1 .. MaxDuration
  <2>1. d \in Nat \ {0}
    BY <1>1, DurationAssumption
  <2> QED BY <2>1, DurationAssumption
<1>3. UncappedRetryDelay(h, a, j) = d
  <2>1. UncappedRetryDelay(h, a, j) = Wrap(d)
    BY DEF UncappedRetryDelay, Announced, RetryAfterDelay
  <2> HIDE DEF d
  <2> QED BY <1>2, <2>1, WrapInRange
<1> HIDE DEF d
<1>4. RetryDelay(h, a, j, limit) = IF limit > 0 /\ d > limit THEN limit ELSE d
  BY <1>2, <1>3, DurationAssumption DEF RetryDelay, Capped
<1>5. \/ RetryDelay(h, a, j, limit) >= d
      \/ limit > 0 /\ RetryDelay(h, a, j, limit) = limit
  BY <1>2, <1>4
<1> QED BY <1>5 DEF d

\* The client never comes back before the time the service named, unless it was
\* given a cap (retry.go:41, client.go:119).
THEOREM HonouredSleeps == Spec => []RetryAfterHonoured
<1>1. Init => RetryAfterHonoured
  BY DEF Init, NoHeader, RetryAfterHonoured
<1>2. Bounds /\ RetryAfterHonoured /\ [Next]_vars => RetryAfterHonoured'
  <2> SUFFICES ASSUME Bounds, RetryAfterHonoured, [Next]_vars PROVE RetryAfterHonoured'
    OBVIOUS
  <2>1. CASE Next
    <3>1. PICK h \in Headers, jitter \in 0 .. BackoffJitter - 1 : Fail(h, jitter)
      BY <2>1 DEF Next
    <3>2. attempt + 1 \in Nat /\ cap \in (-MaxDuration) .. MaxDuration
      BY InputAssumption, DurationAssumption DEF Bounds, TypeOK
    <3>3. header' = h /\ cap' = cap /\ delay' = RetryDelay(h, attempt + 1, jitter, cap)
      BY <3>1 DEF Fail
    <3>4. h.kind = "seconds" /\ h.value * Second <= MaxDuration /\ h.value > 0 =>
            \/ RetryDelay(h, attempt + 1, jitter, cap) >= h.value * Second
            \/ cap > 0 /\ RetryDelay(h, attempt + 1, jitter, cap) = cap
      BY <3>2, InRangeIsHonoured
    <3> QED BY <3>3, <3>4 DEF RetryAfterHonoured
  <2>2. CASE UNCHANGED vars
    BY <2>2 DEF vars, RetryAfterHonoured
  <2> QED BY <2>1, <2>2
<1> QED BY <1>1, <1>2, SleepBounds, PTL DEF Spec

-----------------------------------------------------------------------------
LEMMA LastIsLargest == \A n \in 0 .. MaxShift : Shifted[n] <= Shifted[MaxShift]
<1> DEFINE T == {k \in Nat : k <= MaxShift => Shifted[MaxShift - k] <= Shifted[MaxShift]}
<1>1. 0 \in T
  BY ShiftedDoubles, DurationAssumption
<1>2. ASSUME NEW k \in Nat, k \in T, k + 1 <= MaxShift
      PROVE  Shifted[MaxShift - (k + 1)] <= Shifted[MaxShift]
  <2> DEFINE n == MaxShift - (k + 1)
  <2>1. n \in 0 .. MaxShift - 1 /\ n + 1 = MaxShift - k /\ k <= MaxShift
    BY <1>2, DurationAssumption
  <2>2. n \in 0 .. MaxShift /\ MaxShift \in 0 .. MaxShift
    BY <2>1, DurationAssumption
  <2> HIDE DEF n
  <2>3. Shifted[n + 1] = 2 * Shifted[n] /\ Shifted[n] \in Nat /\ Shifted[MaxShift] \in Nat
    BY <2>1, <2>2, ShiftedDoubles
  <2>4. Shifted[n + 1] <= Shifted[MaxShift]
    BY <1>2, <2>1
  <2>5. Shifted[n] <= Shifted[MaxShift]
    BY <2>3, <2>4
  <2> QED BY <2>5 DEF n
<1>3. \A k \in Nat : k \in T => k + 1 \in T
  BY <1>2
<1> HIDE DEF T
<1>4. Nat \subseteq T
  BY <1>1, <1>3, NatSetInduction
<1>5. ASSUME NEW n \in 0 .. MaxShift PROVE Shifted[n] <= Shifted[MaxShift]
  <2>1. MaxShift - n \in Nat /\ MaxShift - n <= MaxShift /\ MaxShift - (MaxShift - n) = n
    BY DurationAssumption
  <2>2. MaxShift - n \in T
    BY <1>4, <2>1
  <2> QED BY <2>1, <2>2 DEF T
<1> QED BY <1>5

\* Saturated, the backoff stays inside a Duration: nothing wraps.
LEMMA BackoffInRange ==
  ASSUME NEW a \in Nat, NEW j \in 0 .. BackoffJitter - 1
  PROVE  /\ Clamp(a) \in 0 .. MaxShift /\ Shifted[Clamp(a)] \in Nat \ {0}
         /\ Backoff(a, j) = Shifted[Clamp(a)] + j
         /\ Backoff(a, j) \in 1 .. MaxDuration
<1> DEFINE s == Shifted[Clamp(a)]
<1>1. Clamp(a) \in 0 .. MaxShift
  BY DurationAssumption DEF Clamp
<1>2. s \in Nat \ {0}
  BY <1>1, ShiftedDoubles
<1>3. s <= Shifted[MaxShift] /\ Shifted[MaxShift] \in Nat
  BY <1>1, LastIsLargest, ShiftedDoubles, DurationAssumption
<1>4. Backoff(a, j) = Wrap(Wrap(s) + j)
  BY DEF Backoff
<1> HIDE DEF s
<1>5. s \in 0 .. MaxDuration /\ s + j \in 1 .. MaxDuration
  BY <1>2, <1>3, ShiftAssumption, DurationAssumption
<1>6. Wrap(s) = s
  BY <1>5, WrapInRange
<1>7. Wrap(s + j) = s + j
  BY <1>5, WrapInRange
<1> QED BY <1>1, <1>2, <1>4, <1>5, <1>6, <1>7 DEF s

\* A sleep without a header is the backoff of its attempt, or the cap.
BackedOff ==
  header = NoHeader /\ attempt >= 0 =>
    \E j \in 0 .. BackoffJitter - 1 :
      \/ delay = Shifted[Clamp(attempt)] + j
      \/ delay = cap /\ cap < Shifted[Clamp(attempt)] + j

LEMMA NextBackoff ==
  ASSUME TypeOK, NEW j \in 0 .. BackoffJitter - 1, Fail(NoHeader, j)
  PROVE  \/ delay' = Shifted[Clamp(attempt + 1)] + j
         \/ delay' = cap /\ cap < Shifted[Clamp(attempt + 1)] + j
<1>1. attempt + 1 \in Nat /\ cap \in (-MaxDuration) .. MaxDuration
  BY InputAssumption, DurationAssumption DEF TypeOK
<1>2. delay' = Capped(Backoff(attempt + 1, j), cap)
  BY DEF Fail, RetryDelay, UncappedRetryDelay, Announced, NoHeader
<1>3. /\ Backoff(attempt + 1, j) = Shifted[Clamp(attempt + 1)] + j
      /\ Backoff(attempt + 1, j) \in 1 .. MaxDuration
  BY <1>1, BackoffInRange
<1> QED BY <1>1, <1>2, <1>3, DurationAssumption DEF Capped

\* Without a header the backoff never backs down (retry.go:65): it doubles up to
\* the last shift, stays there, and gives way to the cap alone.
THEOREM BackoffNeverShrinks == Spec => BackoffGrows
<1>1. Init => BackedOff
  BY DEF Init, BackedOff
<1>2. Bounds /\ BackedOff /\ [Next]_vars => BackedOff'
  <2> SUFFICES ASSUME Bounds, BackedOff, [Next]_vars PROVE BackedOff'
    OBVIOUS
  <2>1. CASE Next
    <3>1. PICK h \in Headers, jitter \in 0 .. BackoffJitter - 1 : Fail(h, jitter)
      BY <2>1 DEF Next
    <3>2. header' = h /\ cap' = cap /\ attempt' = attempt + 1
      BY <3>1 DEF Fail
    <3>3. h = NoHeader => \/ delay' = Shifted[Clamp(attempt + 1)] + jitter
                          \/ delay' = cap /\ cap < Shifted[Clamp(attempt + 1)] + jitter
      BY <3>1, NextBackoff DEF Bounds
    <3> QED BY <3>2, <3>3 DEF BackedOff
  <2>2. CASE UNCHANGED vars
    BY <2>2 DEF vars, BackedOff
  <2> QED BY <2>1, <2>2
<1>3. ASSUME Bounds, BackedOff, Next, header = NoHeader, header' = NoHeader, attempt >= 0
      PROVE  \/ delay' = cap
             \/ attempt >= MaxShift /\ delay' + BackoffJitter > delay
             \/ attempt < MaxShift /\ delay' > 2 * (delay - BackoffJitter)
  <2>1. PICK h \in Headers, j \in 0 .. BackoffJitter - 1 : Fail(h, j)
    BY <1>3 DEF Next
  <2>2. Fail(NoHeader, j)
    BY <1>3, <2>1 DEF Fail
  <2>3. delay' = cap \/ delay' = Shifted[Clamp(attempt + 1)] + j
    BY <1>3, <2>2, NextBackoff DEF Bounds
  <2>4. attempt \in Nat /\ attempt + 1 \in Nat /\ delay \in Int /\ cap \in Int
    BY <1>3, InputAssumption, DurationAssumption DEF Bounds, TypeOK
  <2> DEFINE s == Shifted[Clamp(attempt)]
             u == Shifted[Clamp(attempt + 1)]
  <2>5. s \in Nat \ {0} /\ u \in Nat \ {0}
    BY <2>4, BackoffInRange
  <2>6. delay < s + BackoffJitter
    <3>1. PICK i \in 0 .. BackoffJitter - 1 : delay = s + i \/ (delay = cap /\ cap < s + i)
      BY <1>3 DEF BackedOff
    <3> HIDE DEF s, u
    <3> QED BY <2>4, <2>5, <3>1, DurationAssumption
  <2>7. CASE attempt >= MaxShift
    <3>1. u = s
      BY <2>4, <2>7, DurationAssumption DEF Clamp
    <3> HIDE DEF s
    <3> QED BY <2>3, <2>4, <2>5, <2>6, <2>7, <3>1, DurationAssumption
  <2>8. CASE attempt < MaxShift
    <3>1. attempt \in 0 .. MaxShift - 1 /\ Clamp(attempt) = attempt /\ Clamp(attempt + 1) = attempt + 1
      BY <2>4, <2>8, DurationAssumption DEF Clamp
    <3>2. u = 2 * s
      BY <3>1, ShiftedDoubles
    <3>3. delay' = cap \/ delay' = u + j
      BY <2>3
    <3> HIDE DEF s, u
    <3> QED BY <2>4, <2>5, <2>6, <2>8, <3>2, <3>3, DurationAssumption
  <2> QED BY <2>4, <2>7, <2>8, DurationAssumption
<1>4. Bounds /\ BackedOff /\ [Next]_vars =>
      [header = NoHeader /\ header' = NoHeader /\ attempt >= 0 =>
        \/ delay' = cap
        \/ attempt >= MaxShift /\ delay' + BackoffJitter > delay
        \/ attempt < MaxShift /\ delay' > 2 * (delay - BackoffJitter)]_vars
  BY <1>3
<1> QED BY <1>1, <1>2, <1>4, SleepBounds, PTL DEF Spec, BackoffGrows
=============================================================================
