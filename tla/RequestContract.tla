--------------------------- MODULE RequestContract ---------------------------
(***************************************************************************)
(* What a call of Do promises about its effect on the service, whatever    *)
(* happened underneath.  A read has none.  A mutation has at most one      *)
(* unless the client was told to retry mutations, and then at most one per *)
(* attempt.  The outcome is honest: "done" means the effect is there,      *)
(* "rejected" that there is none and never will be, and "unknown" makes no *)
(* claim: the effect may even happen after the call has returned.          *)
(***************************************************************************)
EXTENDS Naturals

CONSTANTS
  Callers,
  AtLeastOnce,  \* may a mutation of each caller be repeated?
  MaxEffects    \* effects of one call when it may

VARIABLES
  phase,    \* "idle", "open" or "returned"
  mutates,  \* may the call have an effect?
  effects,  \* how many it had
  outcome   \* what the caller was told

vars == <<phase, mutates, effects, outcome>>

Init ==
  /\ phase = [c \in Callers |-> "idle"]
  /\ mutates = [c \in Callers |-> FALSE]
  /\ effects = [c \in Callers |-> 0]
  /\ outcome = [c \in Callers |-> "none"]

Limit(c) == IF AtLeastOnce[c] THEN MaxEffects ELSE 1

Call(c, m) ==
  /\ phase[c] = "idle"
  /\ phase' = [phase EXCEPT ![c] = "open"]
  /\ mutates' = [mutates EXCEPT ![c] = m]
  /\ UNCHANGED <<effects, outcome>>

Effect(c) ==
  /\ phase[c] # "idle" /\ mutates[c]
  /\ effects[c] < Limit(c)
  /\ outcome[c] = "rejected" => AtLeastOnce[c]
  /\ effects' = [effects EXCEPT ![c] = @ + 1]
  /\ UNCHANGED <<phase, mutates, outcome>>

Return(c, o) ==
  /\ phase[c] = "open"
  /\ o = "done" /\ mutates[c] => effects[c] > 0
  /\ o = "rejected" => effects[c] = 0 \/ AtLeastOnce[c]
  /\ phase' = [phase EXCEPT ![c] = "returned"]
  /\ outcome' = [outcome EXCEPT ![c] = o]
  /\ UNCHANGED <<mutates, effects>>

\* Do refuses a request whose body does not marshal before anything else.
Refuse(c, m) ==
  /\ phase[c] = "idle"
  /\ phase' = [phase EXCEPT ![c] = "returned"]
  /\ mutates' = [mutates EXCEPT ![c] = m]
  /\ outcome' = [outcome EXCEPT ![c] = "rejected"]
  /\ UNCHANGED effects

Next == \E c \in Callers :
  \/ \E m \in BOOLEAN : Call(c, m) \/ Refuse(c, m)
  \/ Effect(c)
  \/ \E o \in {"done", "rejected", "unknown"} : Return(c, o)

Spec == Init /\ [][Next]_vars
=============================================================================
