--------------------------- MODULE DeltaSyncProofs ---------------------------
(***************************************************************************)
(* A replica kept by rounds of Delta loses no change, for any collection,  *)
(* any page size and page bound, any number of changes, and failures and   *)
(* crashes at any point.                                                   *)
(***************************************************************************)
EXTENDS DeltaSync, SequenceTheorems, WellFoundedInduction, TLAPS

Typed ==
  /\ log \in Seq(Keys)
  /\ pc \in {"idle", "drain", "apply"}
  /\ at \in Nat /\ fresh \in Nat /\ persisted \in Nat /\ persisted <= Len(log)
  /\ items \in Seq(Nat)
  /\ replica \in [Keys -> Nat]

\* The replica has the changes up to position n, or later ones of the same items.
Has(n) == \A i \in 1 .. n : replica[log[i]] >= i

\* The items in hand are the positions from one on, without a gap.
After(n) == \A i \in 1 .. Len(items) : items[i] = n + i

\* What Delta has gathered are the changes from the persisted link to the link it
\* follows next.
Gathering ==
  pc = "drain" => /\ persisted <= at /\ at <= Len(log)
                  /\ Len(items) = at - persisted /\ After(persisted)

\* What is left to apply are the last of the changes before the new link, and the
\* replica has those before them.
Applied == fresh - Len(items)
Applying ==
  pc = "apply" => /\ fresh <= Len(log)
                  /\ Applied \in Nat /\ persisted <= Applied
                  /\ After(Applied) /\ Has(Applied)

IInv == Typed /\ Has(persisted) /\ Gathering /\ Applying

-----------------------------------------------------------------------------
\* A nonempty set of positions has a last one.
LEMMA LastExists ==
  ASSUME NEW n \in Nat, NEW S \in SUBSET (1 .. n), S # {}
  PROVE  \E i \in S : \A j \in S : j <= i
<1> DEFINE T == {n - i : i \in S}
           R == {p \in Nat \X Nat : p[1] < p[2]}
<1>1. T \subseteq Nat /\ T # {}
  <2>1. \A i \in S : n - i \in Nat
    OBVIOUS
  <2>2. PICK i \in S : TRUE
    OBVIOUS
  <2>3. n - i \in T
    BY <2>2
  <2> QED BY <2>1, <2>3
<1>2. IsWellFoundedOn(R, Nat)
  BY NatLessThanWellFounded DEF OpToRel
<1>3. PICK x \in T : \A y \in T : <<y, x>> \notin R
  <2> HIDE DEF T, R
  <2> QED BY <1>1, <1>2, WFMin
<1>4. PICK i \in S : x = n - i
  OBVIOUS
<1>5. ASSUME NEW j \in S PROVE j <= i
  <2>1. <<n - j, x>> \notin R
    BY <1>3
  <2> QED BY <1>4, <2>1
<1> QED BY <1>5

LEMMA InitInv == Init => IInv
BY DEF Init, IInv, Typed, Has, Gathering, Applying

\* New changes are logged after all that the replica, Delta and the program know.
LEMMA ChangeKeeps == ASSUME IInv, NEW k \in Keys, Change(k) PROVE IInv'
<1> USE DEF IInv, Change
<1>1. /\ Len(log') = Len(log) + 1 /\ log' \in Seq(Keys)
      /\ \A i \in 1 .. Len(log) : log'[i] = log[i]
  BY DEF Typed
<1>2. Typed'
  BY <1>1 DEF Typed
<1>3. ASSUME NEW n \in Nat, n <= Len(log), Has(n) PROVE Has(n)'
  BY <1>1, <1>3 DEF Typed, Has
<1>4. Has(persisted)'
  BY <1>3 DEF Typed
<1>5. Gathering'
  BY <1>1 DEF Typed, Gathering, After
<1>6. Applying'
  <2> SUFFICES ASSUME pc' = "apply" PROVE Applying'
    BY DEF Applying
  <2>1. /\ Applied \in Nat /\ fresh \in Nat /\ fresh <= Len(log) /\ persisted <= Applied
        /\ After(Applied) /\ Has(Applied)
    BY DEF Typed, Applying
  <2>2. PICK a \in Nat : a = Applied
    BY <2>1
  <2>3. Applied' = a /\ a <= Len(log)
    BY <2>1, <2>2 DEF Typed, Applied
  <2>4. Has(a)' /\ After(a)'
    BY <1>3, <2>1, <2>2, <2>3 DEF After
  <2> QED BY <1>1, <2>1, <2>2, <2>3, <2>4 DEF Typed, Applying
<1> QED BY <1>2, <1>4, <1>5, <1>6

LEMMA DeltaKeeps == ASSUME IInv, Delta PROVE IInv'
BY DEF IInv, Delta, Typed, Has, Gathering, Applying, After

\* A page continues where the items end.
LEMMA DrainKeeps == ASSUME IInv, Drain PROVE IInv'
<1> DEFINE to == Until(at)
           page == Run(at, to)
<1>1. /\ pc = "drain" /\ items' = items \o page /\ UNCHANGED <<log, failures, persisted, replica>>
      /\ \/ to < Len(log) /\ at' = to /\ UNCHANGED <<pc, fresh>>
         \/ ~(to < Len(log)) /\ pc' = "apply" /\ fresh' = Len(log) /\ UNCHANGED at
  BY DEF Drain, Gathered
<1>2. to \in Nat /\ at <= to /\ to <= Len(log) /\ at \in Nat /\ persisted \in Nat /\ Len(log) \in Nat
  BY <1>1, SyncAssumption DEF IInv, Typed, Gathering, Until
<1> HIDE DEF to
<1>3. page \in Seq(Nat) /\ Len(page) = to - at /\ \A i \in 1 .. to - at : page[i] = at + i
  BY <1>2 DEF Run
<1> HIDE DEF page
<1>4. /\ items \in Seq(Nat) /\ persisted <= at /\ Len(items) = at - persisted
      /\ \A i \in 1 .. Len(items) : items[i] = persisted + i
  BY <1>1 DEF IInv, Typed, Gathering, After
<1>5. /\ items' \in Seq(Nat) /\ Len(items') = to - persisted
      /\ \A i \in 1 .. Len(items') : items'[i] = persisted + i
  BY <1>1, <1>2, <1>3, <1>4
<1>6. Typed'
  BY <1>1, <1>2, <1>5 DEF IInv, Typed
<1>7. Has(persisted)'
  BY <1>1 DEF IInv, Has
<1>8. Gathering'
  BY <1>1, <1>2, <1>5 DEF Gathering, After
<1>9. Applying'
  <2> SUFFICES ASSUME pc' = "apply" PROVE Applying'
    BY DEF Applying
  <2>1. fresh' = to /\ to = Len(log)
    BY <1>1, <1>2
  <2>2. Applied' = persisted
    BY <1>2, <1>5, <2>1 DEF Applied
  <2> QED BY <1>1, <1>2, <1>5, <1>7, <2>1, <2>2 DEF Applying, After
<1> QED BY <1>6, <1>7, <1>8, <1>9 DEF IInv

LEMMA DrainFailsKeeps == ASSUME IInv, DrainFails PROVE IInv'
BY DEF IInv, DrainFails, Typed, Has, Gathering, Applying

\* The item applied is the change after those the replica has. Applying it again
\* after a crash may set the replica of its key back, not before it.
LEMMA ApplyKeeps == ASSUME IInv, Apply PROVE IInv'
<1>1. /\ pc = "apply" /\ items # << >> /\ items' = Tail(items)
      /\ replica' = [replica EXCEPT ![log[Head(items)]] = Head(items)]
      /\ UNCHANGED <<log, failures, pc, at, pages, fresh, persisted>>
  BY DEF Apply
<1>0. PICK a \in Nat : a = Applied
  BY <1>1 DEF IInv, Applying
<1>2. /\ persisted <= a /\ Has(a) /\ After(a) /\ fresh \in Nat /\ fresh <= Len(log)
      /\ items \in Seq(Nat) /\ log \in Seq(Keys) /\ replica \in [Keys -> Nat] /\ persisted \in Nat
  BY <1>0, <1>1 DEF IInv, Typed, Applying
<1>3. /\ items' \in Seq(Nat) /\ Len(items') = Len(items) - 1 /\ Len(items) \in Nat \ {0}
      /\ Head(items) = items[1] /\ \A i \in 1 .. Len(items') : items'[i] = items[i + 1]
  BY <1>1, <1>2
<1>4. Head(items) = a + 1 /\ a + 1 <= Len(log)
  BY <1>0, <1>2, <1>3 DEF After, Applied
<1>5. Applied' = a + 1
  BY <1>0, <1>1, <1>2, <1>3 DEF Applied
<1>6. /\ replica' \in [Keys -> Nat] /\ replica'[log[a + 1]] = a + 1
      /\ \A k \in Keys : k # log[a + 1] => replica'[k] = replica[k]
  <2>1. log[a + 1] \in Keys
    BY <1>2, <1>4
  <2> QED BY <1>1, <1>2, <1>4, <2>1
<1>7. Has(a + 1)'
  <2> SUFFICES ASSUME NEW i \in 1 .. a + 1 PROVE replica'[log[i]] >= i
    BY <1>1 DEF Has
  <2>1. log[i] \in Keys
    BY <1>2, <1>4
  <2>2. i # a + 1 => replica[log[i]] >= i
    BY <1>2 DEF Has
  <2>3. CASE log[i] = log[a + 1]
    BY <1>6, <2>3
  <2>4. CASE log[i] # log[a + 1]
    <3>1. replica'[log[i]] = replica[log[i]]
      BY <1>6, <2>1, <2>4
    <3> QED BY <2>2, <2>4, <3>1
  <2> QED BY <2>3, <2>4
<1>8. Typed'
  BY <1>1, <1>3, <1>6 DEF IInv, Typed
<1>9. Has(persisted)'
  BY <1>1, <1>2, <1>7 DEF Has
<1>10. After(a + 1)'
  BY <1>2, <1>3 DEF After
<1>11. Gathering' /\ Applying'
  BY <1>1, <1>2, <1>5, <1>7, <1>10 DEF Gathering, Applying
<1> QED BY <1>8, <1>9, <1>11 DEF IInv

\* The link is persisted when nothing is left to apply.
LEMMA PersistKeeps == ASSUME IInv, Persist PROVE IInv'
<1>1. /\ pc = "apply" /\ items = << >> /\ persisted' = fresh /\ pc' = "idle"
      /\ UNCHANGED <<log, failures, at, pages, items, fresh, replica>>
  BY DEF Persist
<1>2. Applied = fresh
  BY <1>1 DEF IInv, Typed, Applied
<1>3. Has(fresh) /\ fresh <= Len(log)
  BY <1>1, <1>2 DEF IInv, Applying
<1> QED BY <1>1, <1>3 DEF IInv, Typed, Has, Gathering, Applying

LEMMA CrashKeeps == ASSUME IInv, Crash PROVE IInv'
BY DEF IInv, Crash, Typed, Has, Gathering, Applying

LEMMA StepInv == IInv /\ [Next]_vars => IInv'
<1> SUFFICES ASSUME IInv, [Next]_vars PROVE IInv'
  OBVIOUS
<1>1. CASE UNCHANGED vars
  BY <1>1 DEF vars, IInv, Typed, Has, Gathering, Applying, Applied, After
<1>2. CASE Next
  BY <1>2, ChangeKeeps, DeltaKeeps, DrainKeeps, DrainFailsKeeps, ApplyKeeps, PersistKeeps, CrashKeeps
     DEF Next, Program
<1> QED BY <1>1, <1>2

THEOREM Invariance == Spec => []IInv
<1> QED BY InitInv, StepInv, PTL DEF Spec

\* The replica is never behind the link the program persisted, whichever requests
\* failed, whenever the program crashed and however the collection changed
\* (iterate.go:95).
THEOREM NothingIsLost == Spec => []NoChangeLost
<1>1. ASSUME IInv, NEW k \in Keys PROVE replica[k] >= LastChange(k, persisted)
  <2> DEFINE changes == {i \in 1 .. persisted : log[i] = k}
  <2>1. CASE changes = {}
    BY <1>1, <2>1 DEF LastChange, IInv, Typed
  <2>2. CASE changes # {}
    <3>1. persisted \in Nat /\ changes \in SUBSET (1 .. persisted)
      BY <1>1 DEF IInv, Typed
    <3>2. LastChange(k, persisted) \in changes
      <4> HIDE DEF changes
      <4>1. \E i \in changes : \A j \in changes : j <= i
        BY <2>2, <3>1, LastExists
      <4>2. (CHOOSE i \in changes : \A j \in changes : j <= i) \in changes
        BY <4>1
      <4> QED BY <2>2, <4>2 DEF LastChange, changes
    <3> QED BY <1>1, <3>2 DEF IInv, Has
  <2> QED BY <2>1, <2>2
<1>2. IInv => NoChangeLost
  BY <1>1 DEF NoChangeLost
<1> QED BY <1>2, Invariance, PTL
=============================================================================
