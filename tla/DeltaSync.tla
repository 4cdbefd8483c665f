------------------------------ MODULE DeltaSync ------------------------------
(***************************************************************************)
(* A replica kept in step with a Graph collection by rounds of Delta       *)
(* (src/iterate.go:95): an initial full sync from the delta path, then one *)
(* round after the other from the deltaLink the last one returned, while   *)
(* the collection changes, requests fail and the program crashes.          *)
(*                                                                         *)
(* Delta and the page loop under it are the repository's.  The service and *)
(* the program that applies what Delta returns are external: the service   *)
(* logs changes and serves them PageSize at a time from the position a     *)
(* link stands for, and the program does what the doc of Delta tells it,   *)
(* in the order that survives a crash: apply the items, then persist the   *)
(* link; after an error it starts over from the link it has.               *)
(***************************************************************************)
EXTENDS Naturals, Sequences

CONSTANTS
  Keys,         \* the items of the collection
  PageSize,     \* changes the service serves per page
  MaxPages,     \* WithMaxPages, 0 for none
  MaxChanges,   \* bound: changes to the collection
  MaxFailures   \* bound: failed requests and crashes together

ASSUME SyncAssumption ==
  /\ PageSize \in Nat \ {0} /\ MaxPages \in Nat /\ MaxChanges \in Nat /\ MaxFailures \in Nat

VARIABLES
  log,      \* the changes of the collection, each the key that was changed
  failures, \* how many requests failed and crashes happened
  pc,       \* the program: "idle", in Delta ("drain") or past it ("apply")
  at,       \* Delta: the position of the link to fetch next
  pages,    \* pages fetched in this round
  items,    \* the items collected, as positions in the log
  fresh,    \* the deltaLink Delta returns, a position
  persisted,\* the link the program persisted; 0 is the delta path
  replica   \* the position of the change the program has of each key, 0 for none

vars == <<log, failures, pc, at, pages, items, fresh, persisted, replica>>

Init ==
  /\ log = << >>
  /\ failures = 0
  /\ pc = "idle"
  /\ at = 0 /\ pages = 0 /\ items = << >> /\ fresh = 0
  /\ persisted = 0
  /\ replica = [k \in Keys |-> 0]

\* The collection changes.
Change(k) ==
  /\ Len(log) < MaxChanges
  /\ log' = Append(log, k)
  /\ UNCHANGED <<failures, pc, at, pages, items, fresh, persisted, replica>>

\* Mutant: the pages of all rounds are counted together.
CountedOn == pages

FirstPage == 0

\* The program calls Delta with the link it persisted.
Delta ==
  /\ pc = "idle"
  /\ pc' = "drain"
  /\ at' = persisted /\ pages' = FirstPage /\ items' = << >> /\ fresh' = 0
  /\ UNCHANGED <<log, failures, persisted, replica>>

\* The positions the page behind position p holds, and whether more follow.
Until(p) == IF p + PageSize < Len(log) THEN p + PageSize ELSE Len(log)
Run(from, to) == [i \in 1 .. to - from |-> from + i]

\* Mutant: only the last page is returned.
LastOnly == Run(at, Until(at))

Gathered == items \o Run(at, Until(at))

\* A page of Delta: its items are appended; a nextLink is followed, and the
\* deltaLink of the last page is what Delta returns.
Drain ==
  /\ pc = "drain" /\ (MaxPages > 0 => pages < MaxPages)
  /\ pages' = pages + 1
  /\ items' = Gathered
  /\ IF Until(at) < Len(log)
     THEN at' = Until(at) /\ UNCHANGED <<pc, fresh>>
     ELSE pc' = "apply" /\ fresh' = Len(log) /\ UNCHANGED at
  /\ UNCHANGED <<log, failures, persisted, replica>>

\* Delta returns an error: a request failed, or the pages were too many.  What
\* it collected is returned with it, and the program does not use it.
DrainFails ==
  /\ pc = "drain"
  /\ \/ failures < MaxFailures /\ failures' = failures + 1
     \/ MaxPages > 0 /\ pages >= MaxPages /\ UNCHANGED failures
  /\ pc' = "idle"
  /\ UNCHANGED <<log, at, pages, items, fresh, persisted, replica>>

\* The program applies what Delta returned, item by item.
Apply ==
  /\ pc = "apply" /\ items # << >>
  /\ replica' = [replica EXCEPT ![log[Head(items)]] = Head(items)]
  /\ items' = Tail(items)
  /\ UNCHANGED <<log, failures, pc, at, pages, fresh, persisted>>

\* Then it persists the link.
Persist ==
  /\ pc = "apply" /\ items = << >>
  /\ persisted' = fresh
  /\ pc' = "idle"
  /\ UNCHANGED <<log, failures, at, pages, items, fresh, replica>>

\* It crashes; what it applied and persisted stays.
Crash ==
  /\ pc # "idle" /\ failures < MaxFailures
  /\ failures' = failures + 1
  /\ pc' = "idle"
  /\ UNCHANGED <<log, at, pages, items, fresh, persisted, replica>>

Program == Delta \/ Drain \/ DrainFails \/ Apply \/ Persist

Next == (\E k \in Keys : Change(k)) \/ Program \/ Crash

Spec == Init /\ [][Next]_vars

\* The program calls Delta again and again; a drain goes on as long as no
\* request fails, and failures are finite.
FairSpec == Spec /\ WF_vars(Delta \/ Apply \/ Persist) /\ WF_vars(Drain \/ DrainFails)

-----------------------------------------------------------------------------
\* The last change of key k among the first n, 0 when there is none.
LastChange(k, n) ==
  LET changes == {i \in 1 .. n : log[i] = k}
  IN  IF changes = {} THEN 0 ELSE CHOOSE i \in changes : \A j \in changes : j <= i

\* "Skipping it would lose the sync position" (iterate.go:101): what the
\* persisted link stands for, the replica has, whichever changes, failures and
\* crashes fell into the rounds.  No later round would bring it again.
NoChangeLost == \A k \in Keys : replica[k] >= LastChange(k, persisted)

\* Once the collection is left alone, the replica becomes the collection, unless
\* the backlog is more than a round's page bound lets through: Delta then fails
\* round after round from the same link, and no position is ever gained.
Backlog == Len(log) - persisted
CaughtUp == Backlog = 0 /\ \A k \in Keys : replica[k] = LastChange(k, Len(log))
CatchesUp == <>[](CaughtUp \/ (MaxPages > 0 /\ Backlog > MaxPages * PageSize))
=============================================================================
