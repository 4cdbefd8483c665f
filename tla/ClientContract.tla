--------------------------- MODULE ClientContract ---------------------------
(***************************************************************************)
(* The refinement mapping under which Client.Do implements RequestContract.*)
(***************************************************************************)
EXTENDS Client

\* What the outcome tells the caller about the effect of its call.
Told(c) ==
  IF ~Returned(c) THEN "none"
  ELSE IF TurnedDown(result[c]) THEN "rejected"
  ELSE IF Success(result[c].status) THEN "done"
  ELSE "unknown"

Phase(c) == IF pc[c] \in {"idle", "returned"} THEN pc[c] ELSE "open"

Contract == INSTANCE RequestContract WITH
  AtLeastOnce <- RetryUnsafe,
  MaxEffects <- MaxRetries + 1,
  phase <- [c \in Callers |-> Phase(c)],
  mutates <- [c \in Callers |-> Mutates(c)],
  effects <- applied,
  outcome <- [c \in Callers |-> Told(c)]

\* Do keeps its contract: effects and outcomes relate as RequestContract says.
ImplementsContract == Contract!Spec
=============================================================================
