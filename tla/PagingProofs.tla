---------------------------- MODULE PagingProofs ----------------------------
(***************************************************************************)
(* Traversals of any collection, by any number of ranges over the same     *)
(* iterator: a consumer that broke out of its loop is left alone, the      *)
(* bound on the pages holds, what is given is given in order, and an end   *)
(* is what it is said to be.  The walk and its items are recursive         *)
(* functions on Nat: that they are what their equations say is proved      *)
(* first, by induction with sets of numbers.                               *)
(***************************************************************************)
EXTENDS Paging, SequenceTheorems, WellFoundedInduction, TLAPS

Records ==
  /\ DOMAIN pc = Traversals /\ DOMAIN stopped = Traversals
  /\ DOMAIN got = Traversals /\ DOMAIN err = Traversals
  /\ pages \in [Traversals -> Nat]
  /\ maxPages \in Int

\* A consumer that has broken out is at the end of its range.
StoppedIsDone == \A t \in Traversals : stopped[t] => pc[t] = "done"

\* maxPages is checked before a page is counted (iterate.go:57).
WithinBound == maxPages > 0 => \A t \in Traversals : pages[t] <= maxPages

Inv == Records /\ StoppedIsDone /\ WithinBound

\* What one step of t leaves alone: every other range, and t itself once done.
OthersKept(t) ==
  /\ pc[t] # "done"
  /\ \A u \in Traversals \ {t} :
       /\ pc'[u] = pc[u] /\ stopped'[u] = stopped[u]
       /\ pages'[u] = pages[u] /\ got'[u] = got[u] /\ err'[u] = err[u]

-----------------------------------------------------------------------------
LEMMA InitInv == Init => Inv
<1> SUFFICES ASSUME Init PROVE Inv
  OBVIOUS
<1>1. Records
  BY PagingAssumption DEF Init, Records
<1>2. StoppedIsDone
  BY DEF Init, StoppedIsDone
<1>3. WithinBound
  <2>1. \A t \in Traversals : pages[t] = 0
    BY DEF Init
  <2>2. maxPages \in Int
    BY <1>1 DEF Records
  <2>3. maxPages > 0 => 0 <= maxPages
    BY <2>2
  <2> QED BY <2>1, <2>3 DEF WithinBound
<1> QED BY <1>1, <1>2, <1>3 DEF Inv

\* Every function keeps its domain, and every range minds its own entries.
LEMMA Kept ==
  ASSUME Records, NEW t \in Traversals, BeginRange(t) \/ Step(t)
  PROVE  /\ DOMAIN pc' = Traversals /\ DOMAIN stopped' = Traversals
         /\ DOMAIN got' = Traversals /\ DOMAIN err' = Traversals
         /\ OthersKept(t) /\ maxPages' = maxPages
<1> USE DEF Records, OthersKept, Goto, Fail
<1>1. CASE BeginRange(t)
  BY <1>1 DEF BeginRange
<1>2. CASE NextPage(t)
  BY <1>2 DEF NextPage, Cycle
<1>3. CASE Fetch(t)
  BY <1>3 DEF Fetch
<1>4. CASE PagesBody(t)
  BY <1>4 DEF PagesBody, Follow, Stop
<1>5. CASE ItemsBody(t)
  BY <1>5 DEF ItemsBody, Follow, Stop
<1>6. CASE DeltaBody(t)
  BY <1>6 DEF DeltaBody, Follow
<1> QED BY <1>1, <1>2, <1>3, <1>4, <1>5, <1>6 DEF Step

\* The only page counted is one within the bound.
LEMMA Counted ==
  ASSUME Records, NEW t \in Traversals, BeginRange(t) \/ Step(t)
  PROVE  \/ pages' = pages
         \/ pages' = [pages EXCEPT ![t] = @ + 1] /\ ~(maxPages > 0 /\ pages[t] >= maxPages)
BY DEF Step, BeginRange, NextPage, Exceeded, Fetch, PagesBody, ItemsBody, DeltaBody

\* A consumer breaks out by Stop only, which ends its range.
LEMMA Stopping ==
  ASSUME Records, NEW t \in Traversals, BeginRange(t) \/ Step(t), stopped'[t]
  PROVE  stopped[t] \/ pc'[t] = "done"
<1> USE DEF Records
<1>1. CASE BeginRange(t)
  BY <1>1 DEF BeginRange
<1>2. CASE NextPage(t)
  BY <1>2 DEF NextPage
<1>3. CASE Fetch(t)
  BY <1>3 DEF Fetch
<1>4. CASE PagesBody(t)
  BY <1>4 DEF PagesBody, Follow, Stop, Goto
<1>5. CASE ItemsBody(t)
  BY <1>5 DEF ItemsBody, Follow, Stop, Goto
<1>6. CASE DeltaBody(t)
  BY <1>6 DEF DeltaBody
<1> QED BY <1>1, <1>2, <1>3, <1>4, <1>5, <1>6 DEF Step

LEMMA StepInv == Inv /\ [Next]_vars => Inv'
<1> SUFFICES ASSUME Inv, [Next]_vars PROVE Inv'
  OBVIOUS
<1> USE DEF Inv
<1>1. CASE UNCHANGED vars
  BY <1>1 DEF vars, Records, StoppedIsDone, WithinBound
<1>2. CASE Next
  <2>1. PICK t \in Traversals : BeginRange(t) \/ Step(t)
    BY <1>2 DEF Next
  <2>2. OthersKept(t) /\ maxPages' = maxPages
    BY <2>1, Kept
  <2>3. Records'
    BY <2>1, Kept, Counted DEF Records
  <2>4. StoppedIsDone'
    <3>1. ASSUME NEW u \in Traversals \ {t}, stopped'[u] PROVE pc'[u] = "done"
      BY <2>2, <3>1 DEF OthersKept, StoppedIsDone
    <3>2. ASSUME stopped'[t] PROVE pc'[t] = "done"
      BY <2>1, <2>2, <3>2, Stopping DEF OthersKept, StoppedIsDone
    <3> QED BY <3>1, <3>2 DEF StoppedIsDone
  <2>5. WithinBound'
    BY <2>1, <2>2, Counted DEF Records, WithinBound
  <2> QED BY <2>3, <2>4, <2>5
<1> QED BY <1>1, <1>2

THEOREM Invariance == Spec => []Inv
<1> QED BY InitInv, StepInv, PTL DEF Spec

\* The bound on the pages is never passed, whatever the collection and however
\* many ranges there are (iterate.go:57).
THEOREM BoundHolds == Spec => []WithinBound
<1>1. Inv => WithinBound
  BY DEF Inv
<1> QED BY <1>1, Invariance, PTL

\* yield is not called again, and nothing is fetched, once it returned false
\* (iterate.go:68): a range that is stopped is done, and the steps of the others
\* leave it alone.
THEOREM StoppedForGood == Spec => BreakIsFinal
<1>1. Inv /\ [Next]_vars
      => [\A t \in Traversals : stopped[t] => UNCHANGED <<pages[t], got[t], err[t]>>]_vars
  <2> SUFFICES ASSUME Inv, Next, NEW u \in Traversals, stopped[u]
               PROVE  UNCHANGED <<pages[u], got[u], err[u]>>
    OBVIOUS
  <2>1. PICK t \in Traversals : BeginRange(t) \/ Step(t)
    BY DEF Next
  <2>2. OthersKept(t)
    BY <2>1, Kept DEF Inv
  <2>3. pc[u] = "done" /\ u # t
    BY <2>2 DEF Inv, StoppedIsDone, OthersKept
  <2> QED BY <2>2, <2>3 DEF OthersKept
<1> QED BY <1>1, Invariance, PTL DEF Spec, BreakIsFinal

-----------------------------------------------------------------------------
\* Induction over Nat, for a set instead of a predicate.
LEMMA NatSetInduction ==
  ASSUME NEW S, 0 \in S, \A n \in Nat : n \in S => n + 1 \in S
  PROVE  Nat \subseteq S
<1> DEFINE T == Nat \ S
           R == {p \in Nat \X Nat : p[1] < p[2]}
<1> SUFFICES ASSUME T # {} PROVE FALSE
  OBVIOUS
<1>1. IsWellFoundedOn(R, Nat)
  BY NatLessThanWellFounded DEF OpToRel
<1>2. PICK x \in T : \A y \in T : <<y, x>> \notin R
  <2>1. T \subseteq Nat
    OBVIOUS
  <2> HIDE DEF T, R
  <2> QED BY <1>1, <2>1, WFMin
<1>3. x \in Nat /\ x # 0
  OBVIOUS
<1>4. x - 1 \in Nat /\ (x - 1) + 1 = x
  BY <1>3
<1>5. x - 1 \in T
  BY <1>3, <1>4
<1>6. <<x - 1, x>> \in R
  BY <1>3, <1>4
<1> QED BY <1>2, <1>5, <1>6

\* Recursion on Nat: there is a function that starts with a and steps as G says.
\* It is put together from its restrictions to 0 .. n, of which there is one each.
Begins(S, a, G, n) ==
  {g \in [0 .. n -> S] : g[0] = a /\ \A i \in 0 .. n - 1 : g[i + 1] = G[<<g[i], i>>]}

Recursive(S, a, G) ==
  {f \in [Nat -> S] : f[0] = a /\ \A n \in Nat : f[n + 1] = G[<<f[n], n>>]}

LEMMA BeginningsExist ==
  ASSUME NEW S, NEW a \in S, NEW G \in [S \X Nat -> S]
  PROVE  \A n \in Nat : Begins(S, a, G, n) # {}
<1> DEFINE T == {n \in Nat : Begins(S, a, G, n) # {}}
<1>1. 0 \in T
  <2> DEFINE g == [i \in 0 .. 0 |-> a]
  <2>1. g \in Begins(S, a, G, 0)
    BY DEF Begins
  <2> QED BY <2>1
<1>2. ASSUME NEW n \in Nat, n \in T PROVE n + 1 \in T
  <2>1. PICK g \in Begins(S, a, G, n) : TRUE
    BY <1>2
  <2>2. /\ g \in [0 .. n -> S] /\ g[0] = a
        /\ \A i \in 0 .. n - 1 : g[i + 1] = G[<<g[i], i>>]
    BY <2>1 DEF Begins
  <2> DEFINE h == [i \in 0 .. n + 1 |-> IF i = n + 1 THEN G[<<g[n], n>>] ELSE g[i]]
  <2>3. G[<<g[n], n>>] \in S
    BY <2>2
  <2>4. h \in [0 .. n + 1 -> S] /\ h[0] = a
    BY <2>2, <2>3
  <2>5. ASSUME NEW i \in 0 .. (n + 1) - 1 PROVE h[i + 1] = G[<<h[i], i>>]
    <3>1. i \in 0 .. n + 1 /\ i + 1 \in 0 .. n + 1 /\ i # n + 1 /\ h[i] = g[i]
      OBVIOUS
    <3>2. CASE i = n
      BY <3>1, <3>2
    <3>3. CASE i # n
      <4>1. i \in 0 .. n - 1 /\ i + 1 # n + 1
        BY <3>3
      <4>2. h[i + 1] = g[i + 1]
        BY <3>1, <4>1
      <4> QED BY <2>2, <3>1, <4>1, <4>2
    <3> QED BY <3>2, <3>3
  <2> HIDE DEF h
  <2>6. h \in Begins(S, a, G, n + 1)
    BY <2>4, <2>5 DEF Begins
  <2> QED BY <2>6
<1> HIDE DEF T
<1>3. Nat \subseteq T
  BY <1>1, <1>2, NatSetInduction
<1> QED BY <1>3 DEF T

LEMMA BeginningsAgree ==
  ASSUME NEW S, NEW a \in S, NEW G \in [S \X Nat -> S], NEW n \in Nat,
         NEW g \in Begins(S, a, G, n), NEW h \in Begins(S, a, G, n + 1)
  PROVE  g[n] = h[n]
<1> DEFINE T == {i \in Nat : i <= n => g[i] = h[i]}
<1>1. 0 \in T
  BY DEF Begins
<1>2. ASSUME NEW i \in Nat, i \in T PROVE i + 1 \in T
  <2> SUFFICES ASSUME i + 1 <= n PROVE g[i + 1] = h[i + 1]
    OBVIOUS
  <2>1. i \in 0 .. n - 1 /\ i \in 0 .. (n + 1) - 1 /\ g[i] = h[i]
    BY <1>2
  <2> QED BY <2>1 DEF Begins
<1> HIDE DEF T
<1>3. Nat \subseteq T
  BY <1>1, <1>2, NatSetInduction
<1> QED BY <1>3 DEF T

LEMMA Recursion ==
  ASSUME NEW S, NEW a \in S, NEW G \in [S \X Nat -> S]
  PROVE  Recursive(S, a, G) # {}
<1> DEFINE B(n) == CHOOSE g \in Begins(S, a, G, n) : TRUE
           f == [n \in Nat |-> B(n)[n]]
<1>1. ASSUME NEW n \in Nat PROVE B(n) \in Begins(S, a, G, n)
  BY BeginningsExist
<1> HIDE DEF B
<1>2. ASSUME NEW n \in Nat PROVE B(n)[n] \in S
  BY <1>1 DEF Begins
<1>3. B(0)[0] = a
  BY <1>1 DEF Begins
<1>4. ASSUME NEW n \in Nat PROVE B(n + 1)[n + 1] = G[<<B(n)[n], n>>]
  <2>1. B(n + 1) \in Begins(S, a, G, n + 1) /\ B(n) \in Begins(S, a, G, n)
    BY <1>1
  <2>2. B(n)[n] = B(n + 1)[n]
    <3>1. \A g \in Begins(S, a, G, n), h \in Begins(S, a, G, n + 1) : g[n] = h[n]
      BY BeginningsAgree
    <3> QED BY <2>1, <3>1
  <2>3. n \in 0 .. (n + 1) - 1
    OBVIOUS
  <2>4. B(n + 1)[n + 1] = G[<<B(n + 1)[n], n>>]
    BY <2>1, <2>3 DEF Begins
  <2> QED BY <2>2, <2>4
<1>5. f \in [Nat -> S] /\ f[0] = a
  BY <1>2, <1>3
<1>6. ASSUME NEW n \in Nat PROVE f[n + 1] = G[<<f[n], n>>]
  <2>1. f[n] = B(n)[n] /\ f[n + 1] = B(n + 1)[n + 1]
    OBVIOUS
  <2> QED BY <1>4, <2>1
<1> HIDE DEF f
<1>7. f \in Recursive(S, a, G)
  BY <1>5, <1>6 DEF Recursive
<1> QED BY <1>7

-----------------------------------------------------------------------------
\* The walk and its items, of a collection that stays what it is.
WalkOf(s) ==
  CHOOSE f : f = [n \in Nat |-> IF n = 0 THEN Path
                                ELSE IF f[n - 1] = None THEN None ELSE s[f[n - 1]].next]

GivenBy(s, walk) ==
  CHOOSE f : f = [n \in Nat |-> IF n = 0 THEN << >>
                                ELSE IF walk[n - 1] = None THEN f[n - 1]
                                ELSE f[n - 1] \o s[walk[n - 1]].value]

LEMMA TheWalk == LinkAt = WalkOf(site) /\ ItemsOf = GivenBy(site, LinkAt)
BY DEF LinkAt, ItemsOf, WalkOf, GivenBy

LEMMA TheWalkStays ==
  ASSUME site' = site
  PROVE  LinkAt' = LinkAt /\ ItemsOf' = ItemsOf
<1>1. LinkAt' = WalkOf(site') /\ ItemsOf' = GivenBy(site', LinkAt')
  BY DEF LinkAt, ItemsOf, WalkOf, GivenBy
<1> QED BY <1>1, TheWalk

\* Every link of the walk is the one after it on its page, until there is none.
LEMMA WalkUnfolds ==
  ASSUME NEW s \in Sites
  PROVE  /\ WalkOf(s) \in [Nat -> Links \cup {None}]
         /\ WalkOf(s)[0] = Path
         /\ \A n \in Nat : WalkOf(s)[n + 1] = IF WalkOf(s)[n] = None THEN None ELSE s[WalkOf(s)[n]].next
<1> DEFINE S == Links \cup {None}
           G == [p \in S \X Nat |-> IF p[1] = None THEN None ELSE s[p[1]].next]
           Body(f) == [n \in Nat |-> IF n = 0 THEN Path
                                     ELSE IF f[n - 1] = None THEN None ELSE s[f[n - 1]].next]
<1>1. \A l \in Links : s[l].next \in S
  BY PagingAssumption DEF Page
<1>2. G \in [S \X Nat -> S]
  BY <1>1
<1>3. Path \in S
  BY PagingAssumption
<1>4. PICK f \in [Nat -> S] : f[0] = Path /\ \A n \in Nat : f[n + 1] = G[<<f[n], n>>]
  <2> HIDE DEF G, S
  <2>1. Recursive(S, Path, G) # {}
    BY <1>2, <1>3, Recursion
  <2> QED BY <2>1 DEF Recursive
<1>5. ASSUME NEW n \in Nat PROVE f[n + 1] = IF f[n] = None THEN None ELSE s[f[n]].next
  <2>1. <<f[n], n>> \in S \X Nat
    BY <1>4
  <2> QED BY <1>4, <2>1
<1>6. ASSUME NEW n \in Nat PROVE f[n] = Body(f)[n]
  <2>1. CASE n = 0
    BY <1>4, <2>1
  <2>2. CASE n # 0
    <3>1. n - 1 \in Nat /\ (n - 1) + 1 = n
      BY <2>2
    <3>2. f[n] = IF f[n - 1] = None THEN None ELSE s[f[n - 1]].next
      BY <1>5, <3>1
    <3> QED BY <2>2, <3>2
  <2> QED BY <2>1, <2>2
<1>7. f = Body(f)
  BY <1>4, <1>6
<1>8. WalkOf(s) = Body(WalkOf(s))
  <2>1. \E h : h = Body(h)
    BY <1>7
  <2> QED BY <2>1, Zenon DEF WalkOf
<1>9. WalkOf(s)[0] = Path
  BY <1>8
<1>10. ASSUME NEW n \in Nat
       PROVE  WalkOf(s)[n + 1] = IF WalkOf(s)[n] = None THEN None ELSE s[WalkOf(s)[n]].next
  <2>1. n + 1 \in Nat /\ n + 1 # 0 /\ (n + 1) - 1 = n
    OBVIOUS
  <2>2. Body(WalkOf(s))[n + 1] = IF WalkOf(s)[n] = None THEN None ELSE s[WalkOf(s)[n]].next
    BY <2>1
  <2> QED BY <1>8, <2>2
<1> DEFINE T == {n \in Nat : WalkOf(s)[n] \in S}
<1>11. Nat \subseteq T
  <2>1. 0 \in T
    BY <1>3, <1>9
  <2>2. \A n \in Nat : n \in T => n + 1 \in T
    BY <1>1, <1>10
  <2> HIDE DEF T
  <2> QED BY <2>1, <2>2, NatSetInduction
<1>12. WalkOf(s) \in [Nat -> S]
  BY <1>8, <1>11
<1> QED BY <1>9, <1>10, <1>12

\* The items are those of the pages of the walk, one page after the other.
LEMMA ItemsUnfold ==
  ASSUME NEW s \in Sites, NEW walk \in [Nat -> Links \cup {None}]
  PROVE  /\ GivenBy(s, walk) \in [Nat -> Seq(Items)]
         /\ GivenBy(s, walk)[0] = << >>
         /\ \A n \in Nat : GivenBy(s, walk)[n + 1] =
              IF walk[n] = None THEN GivenBy(s, walk)[n] ELSE GivenBy(s, walk)[n] \o s[walk[n]].value
<1> DEFINE S == Seq(Items)
           G == [p \in S \X Nat |-> IF walk[p[2]] = None THEN p[1] ELSE p[1] \o s[walk[p[2]]].value]
           Body(f) == [n \in Nat |-> IF n = 0 THEN << >>
                                     ELSE IF walk[n - 1] = None THEN f[n - 1]
                                     ELSE f[n - 1] \o s[walk[n - 1]].value]
<1>1. ASSUME NEW n \in Nat, NEW q \in S, walk[n] # None PROVE q \o s[walk[n]].value \in S
  <2>1. walk[n] \in Links
    BY <1>1
  <2>2. s[walk[n]].value \in S
    BY <2>1, PagingAssumption DEF Page
  <2> QED BY <2>2
<1>2. G \in [S \X Nat -> S]
  <2>1. ASSUME NEW p \in S \X Nat
        PROVE  (IF walk[p[2]] = None THEN p[1] ELSE p[1] \o s[walk[p[2]]].value) \in S
    <3>1. p[1] \in S /\ p[2] \in Nat
      OBVIOUS
    <3> HIDE DEF S
    <3> QED BY <1>1, <3>1
  <2> HIDE DEF S
  <2> QED BY <2>1
<1>3. << >> \in S
  OBVIOUS
<1>4. PICK f \in [Nat -> S] : f[0] = << >> /\ \A n \in Nat : f[n + 1] = G[<<f[n], n>>]
  <2> HIDE DEF G, S
  <2>1. Recursive(S, << >>, G) # {}
    BY <1>2, <1>3, Recursion
  <2> QED BY <2>1 DEF Recursive
<1>5. ASSUME NEW n \in Nat PROVE f[n + 1] = IF walk[n] = None THEN f[n] ELSE f[n] \o s[walk[n]].value
  <2>1. <<f[n], n>> \in S \X Nat
    BY <1>4
  <2>2. f[n + 1] = G[<<f[n], n>>]
    BY <1>4
  <2> HIDE DEF S
  <2> QED BY <2>1, <2>2
<1>6. ASSUME NEW n \in Nat PROVE f[n] = Body(f)[n]
  <2>1. CASE n = 0
    BY <1>4, <2>1
  <2>2. CASE n # 0
    <3>1. n - 1 \in Nat /\ (n - 1) + 1 = n
      BY <2>2
    <3>2. f[n] = IF walk[n - 1] = None THEN f[n - 1] ELSE f[n - 1] \o s[walk[n - 1]].value
      BY <1>5, <3>1
    <3> QED BY <2>2, <3>2
  <2> QED BY <2>1, <2>2
<1>7. f = Body(f)
  <2> HIDE DEF S
  <2> QED BY <1>4, <1>6
<1>8. GivenBy(s, walk) = Body(GivenBy(s, walk))
  <2>1. \E h : h = Body(h)
    BY <1>7
  <2> QED BY <2>1, Zenon DEF GivenBy
<1> DEFINE I == GivenBy(s, walk)
<1>9. I[0] = << >>
  BY <1>8
<1>10. ASSUME NEW n \in Nat PROVE I[n + 1] = IF walk[n] = None THEN I[n] ELSE I[n] \o s[walk[n]].value
  <2>1. n + 1 \in Nat /\ n + 1 # 0 /\ (n + 1) - 1 = n
    OBVIOUS
  <2>2. Body(I)[n + 1] = IF walk[n] = None THEN I[n] ELSE I[n] \o s[walk[n]].value
    BY <2>1
  <2>3. I[n + 1] = Body(I)[n + 1]
    <3> HIDE DEF Body
    <3> QED BY <1>8
  <2> HIDE DEF I, Body
  <2> QED BY <2>2, <2>3
<1> DEFINE T == {n \in Nat : I[n] \in S}
<1>11. Nat \subseteq T
  <2>1. 0 \in T
    BY <1>3, <1>9
  <2>2. ASSUME NEW n \in Nat, n \in T PROVE n + 1 \in T
    <3>1. I[n] \in S
      BY <2>2
    <3>2. I[n + 1] \in S
      <4> HIDE DEF S, I
      <4> QED BY <1>1, <1>10, <3>1
    <3> QED BY <3>2
  <2> HIDE DEF T
  <2> QED BY <2>1, <2>2, NatSetInduction
<1>12. I \in [Nat -> S]
  <2>1. \A n \in Nat : I[n] \in S
    BY <1>11
  <2> HIDE DEF S
  <2> QED BY <1>8, <2>1
<1> QED BY <1>9, <1>10, <1>12

-----------------------------------------------------------------------------
\* Where each range is on the walk.
Entries ==
  /\ site \in Sites
  /\ DOMAIN next = Traversals /\ DOMAIN first = Traversals /\ DOMAIN seen = Traversals
  /\ DOMAIN index = Traversals /\ DOMAIN link = Traversals
  /\ page \in [Traversals -> Page]

\* The links it has seen are those it has passed, and each is a link.
Passed(t) ==
  /\ seen[t] = {LinkAt[i] : i \in 0 .. pages[t] - 1}
  /\ \A i \in 0 .. pages[t] - 1 : LinkAt[i] # None

\* The page in hand is the one of the walk, or has come without a body.
OnWalk(t) ==
  page[t] = site[LinkAt[pages[t] - 1]] \/ (EmptyAnswers /\ page[t] = ZeroPage)

\* Delta remembers the deltaLink of the page before.
LinkKept(t) ==
  LET final == site[LinkAt[pages[t] - 1]].delta
  IN  kind[t] = "delta" /\ pages[t] > 0 /\ final # None => link[t] = final

\* The walk goes on, or an answer without a body has cut it off.
GoesOn(t) == next[t] = LinkAt[pages[t]] /\ got[t] = ItemsOf[pages[t]] /\ LinkKept(t)
CutOff(t) ==
  /\ EmptyAnswers /\ page[t] = ZeroPage /\ next[t] = None
  /\ pages[t] > 0 /\ got[t] = ItemsOf[pages[t] - 1]

AtHead(t) == (first[t] <=> pages[t] = 0) /\ (GoesOn(t) \/ CutOff(t))

AtFetch(t) ==
  /\ pages[t] > 0 /\ next[t] = LinkAt[pages[t] - 1] /\ Recognised(t)
  /\ got[t] = ItemsOf[pages[t] - 1]

\* What the consumer was given on top of the pages before are the first items of
\* the page in hand.
AtBody(t) ==
  LET all == ItemsOf[pages[t] - 1] \o page[t].value
  IN  /\ pages[t] > 0 /\ OnWalk(t)
      /\ index[t] \in 0 .. Len(page[t].value) /\ (kind[t] \in {"pages", "delta"} => index[t] = 0)
      /\ got[t] \in Seq(Items) /\ Len(got[t]) = Len(ItemsOf[pages[t] - 1]) + index[t]
      /\ \A i \in 1 .. Len(got[t]) : got[t][i] = all[i]

\* What it was given so far are the first of the items.
Begun(t) ==
  /\ got[t] \in Seq(Items) /\ Len(got[t]) <= Len(ItemsOf[pages[t]])
  /\ \A i \in 1 .. Len(got[t]) : got[t][i] = ItemsOf[pages[t]][i]

\* How a range may end (EndsTruthfully).
Ended(t) ==
  \/ err[t] = "none" /\ EmptyAnswers /\ page[t] = ZeroPage /\ got[t] = ItemsOf[pages[t] - 1]
  \/ err[t] = "none" /\ LinkAt[pages[t]] = None /\ got[t] = ItemsOf[pages[t]] /\ pages[t] > 0 /\ LinkKept(t)
  \/ /\ err[t] = "cycle" /\ got[t] = ItemsOf[pages[t]]
     /\ \E i \in 0 .. pages[t] - 1 : LinkAt[i] = LinkAt[pages[t]]
  \/ /\ err[t] = "max pages" /\ got[t] = ItemsOf[pages[t]]
     /\ pages[t] = maxPages /\ LinkAt[pages[t]] # None
  \/ err[t] = "get" /\ pages[t] > 0 /\ got[t] = ItemsOf[pages[t] - 1]

OnCourse(t) ==
  /\ Passed(t) /\ Begun(t)
  /\ pc[t] # "done" => err[t] = "none" /\ ~stopped[t]
  /\ pc[t] = "idle" => pages[t] = 0
  /\ pc[t] \in {"idle", "head"} => AtHead(t)
  /\ pc[t] = "fetch" => AtFetch(t)
  /\ pc[t] = "body" => AtBody(t)
  /\ pc[t] = "done" /\ ~stopped[t] => Ended(t)

Walks == Entries /\ \A t \in Traversals : OnCourse(t)

LEMMA LinkFacts ==
  ASSUME site \in Sites
  PROVE  /\ \A n \in Nat : LinkAt[n] \in Links \cup {None}
         /\ LinkAt[0] = Path /\ Path # None
         /\ \A n \in Nat : LinkAt[n + 1] = IF LinkAt[n] = None THEN None ELSE site[LinkAt[n]].next
<1>1. LinkAt = WalkOf(site)
  BY TheWalk
<1> QED BY <1>1, WalkUnfolds, PagingAssumption

LEMMA ItemFacts ==
  ASSUME site \in Sites
  PROVE  /\ \A n \in Nat : ItemsOf[n] \in Seq(Items)
         /\ ItemsOf[0] = << >>
         /\ \A n \in Nat : ItemsOf[n + 1] = IF LinkAt[n] = None THEN ItemsOf[n]
                                             ELSE ItemsOf[n] \o site[LinkAt[n]].value
<1>1. LinkAt = WalkOf(site) /\ ItemsOf = GivenBy(site, LinkAt)
  BY TheWalk
<1>2. LinkAt \in [Nat -> Links \cup {None}]
  BY <1>1, WalkUnfolds
<1> QED BY <1>1, <1>2, ItemsUnfold

\* A page of the walk, and what the items are with it.
LEMMA PageFacts ==
  ASSUME site \in Sites, NEW n \in Nat, LinkAt[n] # None
  PROVE  /\ LinkAt[n] \in Links /\ site[LinkAt[n]] \in Page
         /\ LinkAt[n + 1] = site[LinkAt[n]].next
         /\ ItemsOf[n] \in Seq(Items) /\ ItemsOf[n + 1] \in Seq(Items)
         /\ ItemsOf[n + 1] = ItemsOf[n] \o site[LinkAt[n]].value
         /\ Len(ItemsOf[n + 1]) = Len(ItemsOf[n]) + Len(site[LinkAt[n]].value)
         /\ \A i \in 1 .. Len(ItemsOf[n]) : ItemsOf[n + 1][i] = ItemsOf[n][i]
<1>1. LinkAt[n] \in Links
  BY LinkFacts
<1>2. site[LinkAt[n]] \in Page /\ site[LinkAt[n]].value \in Seq(Items)
  BY <1>1, PagingAssumption DEF Page
<1>3. ItemsOf[n] \in Seq(Items) /\ ItemsOf[n + 1] = ItemsOf[n] \o site[LinkAt[n]].value
  BY ItemFacts
<1> DEFINE v == site[LinkAt[n]].value
<1>4. v \in Seq(Items)
  BY <1>2
<1>5. ItemsOf[n + 1] = ItemsOf[n] \o v
  BY <1>3
<1> HIDE DEF v
<1>6. /\ ItemsOf[n + 1] \in Seq(Items) /\ Len(ItemsOf[n + 1]) = Len(ItemsOf[n]) + Len(v)
      /\ \A i \in 1 .. Len(ItemsOf[n]) : ItemsOf[n + 1][i] = ItemsOf[n][i]
  BY <1>3, <1>4, <1>5
<1>7. LinkAt[n + 1] = site[LinkAt[n]].next
  BY LinkFacts
<1> QED BY <1>1, <1>2, <1>3, <1>6, <1>7 DEF v

\* The items of a page more begin with those of the pages before.
LEMMA MoreItems ==
  ASSUME site \in Sites, NEW n \in Nat, LinkAt[n] # None
  PROVE  /\ ItemsOf[n] \in Seq(Items) /\ Len(ItemsOf[n]) <= Len(ItemsOf[n + 1])
         /\ \A i \in 1 .. Len(ItemsOf[n]) : ItemsOf[n + 1][i] = ItemsOf[n][i]
<1> DEFINE v == site[LinkAt[n]].value
<1>1. v \in Seq(Items)
  BY PageFacts DEF Page
<1>2. /\ ItemsOf[n] \in Seq(Items) /\ Len(ItemsOf[n + 1]) = Len(ItemsOf[n]) + Len(v)
      /\ \A i \in 1 .. Len(ItemsOf[n]) : ItemsOf[n + 1][i] = ItemsOf[n][i]
  BY PageFacts
<1> HIDE DEF v
<1> QED BY <1>1, <1>2

LEMMA InitWalks == Init => Walks
<1> SUFFICES ASSUME Init PROVE Walks
  OBVIOUS
<1> USE DEF Init
<1>1. Entries
  <2>1. ZeroPage \in Page
    BY DEF ZeroPage, Page
  <2> QED BY <2>1 DEF Entries
<1>2. site \in Sites
  OBVIOUS
<1>3. ItemsOf[0] = << >> /\ LinkAt[0] = Path
  BY <1>2, LinkFacts, ItemFacts
<1>4. ASSUME NEW t \in Traversals PROVE OnCourse(t)
  <2>1. pages[t] = 0 /\ next[t] = Path /\ first[t] /\ seen[t] = {} /\ got[t] = << >>
        /\ pc[t] = "idle" /\ err[t] = "none" /\ ~stopped[t]
    OBVIOUS
  <2>2. Passed(t)
    BY <2>1 DEF Passed
  <2>3. Begun(t)
    BY <1>3, <2>1 DEF Begun
  <2>4. AtHead(t)
    BY <1>3, <2>1 DEF AtHead, GoesOn, LinkKept
  <2> QED BY <2>1, <2>2, <2>3, <2>4 DEF OnCourse
<1> QED BY <1>1, <1>4 DEF Walks

\* A step of t is nobody else's.
LEMMA Elsewhere ==
  ASSUME Records, Entries, NEW t \in Traversals, BeginRange(t) \/ Step(t),
         NEW u \in Traversals \ {t}
  PROVE  /\ site' = site /\ kind' = kind
         /\ next'[u] = next[u] /\ first'[u] = first[u] /\ seen'[u] = seen[u]
         /\ page'[u] = page[u] /\ index'[u] = index[u] /\ link'[u] = link[u]
<1> USE DEF Records, Entries
<1>1. CASE BeginRange(t)
  BY <1>1 DEF BeginRange
<1>2. CASE NextPage(t)
  BY <1>2 DEF NextPage
<1>3. CASE Fetch(t)
  BY <1>3 DEF Fetch
<1>4. CASE PagesBody(t)
  BY <1>4 DEF PagesBody, Follow, Stop
<1>5. CASE ItemsBody(t)
  BY <1>5 DEF ItemsBody, Follow, Stop
<1>6. CASE DeltaBody(t)
  BY <1>6 DEF DeltaBody, Follow
<1> QED BY <1>1, <1>2, <1>3, <1>4, <1>5, <1>6 DEF Step

LEMMA OthersOnCourse ==
  ASSUME Records, Walks, NEW t \in Traversals, BeginRange(t) \/ Step(t),
         NEW u \in Traversals \ {t}
  PROVE  OnCourse(u)'
<1>1. /\ pc'[u] = pc[u] /\ stopped'[u] = stopped[u]
      /\ pages'[u] = pages[u] /\ got'[u] = got[u] /\ err'[u] = err[u] /\ maxPages' = maxPages
  BY Kept DEF OthersKept
<1>2. /\ site' = site /\ kind' = kind
      /\ next'[u] = next[u] /\ first'[u] = first[u] /\ seen'[u] = seen[u]
      /\ page'[u] = page[u] /\ index'[u] = index[u] /\ link'[u] = link[u]
  BY Elsewhere DEF Walks
<1>3. LinkAt' = LinkAt /\ ItemsOf' = ItemsOf
  BY <1>2, TheWalkStays
<1>4. OnCourse(u)
  BY DEF Walks
<1>5. Passed(u)' /\ Begun(u)'
  BY <1>1, <1>2, <1>3, <1>4 DEF OnCourse, Passed, Begun
<1>6. AtHead(u)' <=> AtHead(u)
  BY <1>1, <1>2, <1>3 DEF AtHead, GoesOn, CutOff, LinkKept
<1>7. AtFetch(u)' <=> AtFetch(u)
  BY <1>1, <1>2, <1>3 DEF AtFetch, Recognised
<1>8. AtBody(u)' <=> AtBody(u)
  BY <1>1, <1>2, <1>3 DEF AtBody, OnWalk
<1>9. Ended(u)' <=> Ended(u)
  BY <1>1, <1>2, <1>3 DEF Ended, LinkKept
<1> QED BY <1>1, <1>4, <1>5, <1>6, <1>7, <1>8, <1>9 DEF OnCourse

LEMMA BeginOnCourse ==
  ASSUME Records, Walks, NEW t \in Traversals, BeginRange(t)
  PROVE  Entries' /\ OnCourse(t)'
<1>1. /\ pc[t] = "idle" /\ pc' = [pc EXCEPT ![t] = "head"]
      /\ UNCHANGED <<site, maxPages, kind, next, first, seen, pages, page, index, got, link, err, stopped>>
  BY DEF BeginRange, Goto
<1>2. LinkAt' = LinkAt /\ ItemsOf' = ItemsOf /\ pc'[t] = "head"
  BY <1>1, TheWalkStays DEF Records
<1>3. OnCourse(t)
  BY DEF Walks
<1>4. Entries'
  BY <1>1 DEF Walks, Entries
<1>5. Passed(t)' /\ Begun(t)' /\ AtHead(t)'
  BY <1>1, <1>2, <1>3 DEF OnCourse, Passed, Begun, AtHead, GoesOn, CutOff, LinkKept
<1> QED BY <1>1, <1>2, <1>3, <1>4, <1>5 DEF OnCourse

\* A page more, or one of the three ends the head of the loop knows.
LEMMA HeadOnCourse ==
  ASSUME Inv, Walks, NEW t \in Traversals, NextPage(t)
  PROVE  Entries' /\ OnCourse(t)'
<1>1. /\ pc[t] = "head"
      /\ UNCHANGED <<site, maxPages, kind, next, first, page, index, got, link, stopped>>
  BY DEF NextPage
<1>2. LinkAt' = LinkAt /\ ItemsOf' = ItemsOf
  BY <1>1, TheWalkStays
<1>3. /\ OnCourse(t) /\ Passed(t) /\ Begun(t) /\ AtHead(t) /\ err[t] = "none" /\ ~stopped[t]
      /\ Entries /\ site \in Sites
  BY <1>1 DEF Walks, OnCourse, Entries
<1>4. PICK n \in Nat : n = pages[t]
  BY DEF Inv, Records
<1>5. LinkAt[n] \in Links \cup {None} /\ LinkAt[0] = Path /\ Path # None
  BY <1>3, LinkFacts
<1>6. CASE next[t] = None /\ Goto(t, "done") /\ UNCHANGED <<seen, pages, err>>
  <2>1. pc'[t] = "done" /\ pages'[t] = n
    BY <1>4, <1>6 DEF Inv, Records, Goto
  <2>2. Entries'
    BY <1>1, <1>3, <1>6 DEF Entries
  <2>3. Passed(t)' /\ Begun(t)'
    BY <1>1, <1>2, <1>3, <1>6 DEF Passed, Begun
  <2>4. Ended(t)'
    <3>1. CASE GoesOn(t)
      <4>1. LinkAt[n] = None /\ n > 0
        BY <1>4, <1>5, <1>6, <3>1 DEF GoesOn
      <4> QED BY <1>1, <1>2, <1>3, <1>4, <1>6, <3>1, <4>1 DEF GoesOn, LinkKept, Ended
    <3>2. CASE CutOff(t)
      BY <1>1, <1>2, <1>3, <1>6, <3>2 DEF CutOff, Ended
    <3> QED BY <1>3, <3>1, <3>2 DEF AtHead
  <2> QED BY <2>1, <2>2, <2>3, <2>4 DEF OnCourse
<1>7. CASE next[t] # None /\ Seen(t, next[t]) /\ Cycle(t) /\ UNCHANGED <<seen, pages>>
  <2>1. pc'[t] = "done" /\ err'[t] = "cycle" /\ pages'[t] = n
    BY <1>4, <1>7 DEF Inv, Records, Cycle, Fail, Goto
  <2>2. Entries'
    BY <1>1, <1>3, <1>7 DEF Entries
  <2>3. Passed(t)' /\ Begun(t)'
    BY <1>1, <1>2, <1>3, <1>7 DEF Passed, Begun
  <2>4. GoesOn(t)
    BY <1>3, <1>7 DEF AtHead, CutOff
  <2>5. \E i \in 0 .. n - 1 : LinkAt[i] = LinkAt[n]
    BY <1>3, <1>4, <1>7, <2>4 DEF Passed, Seen, GoesOn
  <2>6. Ended(t)'
    BY <1>1, <1>2, <1>4, <2>1, <2>4, <2>5 DEF GoesOn, Ended
  <2> QED BY <2>1, <2>2, <2>3, <2>6 DEF OnCourse
<1>8. CASE next[t] # None /\ Exceeded(t) /\ Fail(t, "max pages") /\ UNCHANGED <<seen, pages>>
  <2>1. pc'[t] = "done" /\ err'[t] = "max pages" /\ pages'[t] = n
    BY <1>4, <1>8 DEF Inv, Records, Fail, Goto
  <2>2. Entries'
    BY <1>1, <1>3, <1>8 DEF Entries
  <2>3. Passed(t)' /\ Begun(t)'
    BY <1>1, <1>2, <1>3, <1>8 DEF Passed, Begun
  <2>4. GoesOn(t)
    BY <1>3, <1>8 DEF AtHead, CutOff
  <2>5. n = maxPages
    <3>1. maxPages \in Int /\ maxPages > 0 /\ n >= maxPages
      BY <1>4, <1>8 DEF Exceeded, Inv, Records
    <3>2. n <= maxPages
      BY <1>4, <3>1 DEF Inv, WithinBound
    <3> QED BY <3>1, <3>2
  <2>6. Ended(t)'
    BY <1>1, <1>2, <1>4, <1>8, <2>1, <2>4, <2>5 DEF GoesOn, Ended
  <2> QED BY <2>1, <2>2, <2>3, <2>6 DEF OnCourse
<1>9. CASE /\ next[t] # None /\ ~Seen(t, next[t])
           /\ seen' = [seen EXCEPT ![t] = @ \cup {next[t]}]
           /\ pages' = [pages EXCEPT ![t] = @ + 1]
           /\ Goto(t, "fetch") /\ UNCHANGED err
  <2>1. pc'[t] = "fetch" /\ pages'[t] = n + 1 /\ seen'[t] = seen[t] \cup {next[t]}
    BY <1>3, <1>4, <1>9 DEF Inv, Records, Entries, Goto
  <2>2. Entries'
    BY <1>1, <1>3, <1>9 DEF Entries
  <2>3. GoesOn(t)
    BY <1>3, <1>9 DEF AtHead, CutOff
  <2>4. next[t] = LinkAt[n] /\ LinkAt[n] # None /\ got[t] = ItemsOf[n]
    BY <1>4, <1>9, <2>3 DEF GoesOn
  <2>5. Passed(t)'
    <3>1. seen'[t] = {LinkAt[i] : i \in 0 .. n}
      BY <1>3, <1>4, <2>1, <2>4 DEF Passed
    <3>2. \A i \in 0 .. n : LinkAt[i] # None
      BY <1>3, <1>4, <2>4 DEF Passed
    <3>3. 0 .. pages'[t] - 1 = 0 .. n
      BY <2>1
    <3> QED BY <1>2, <3>1, <3>2, <3>3 DEF Passed
  <2>6. Begun(t)'
    <3>1. /\ got'[t] = ItemsOf[n] /\ ItemsOf'[pages'[t]] = ItemsOf[n + 1]
      BY <1>1, <1>2, <2>1, <2>4
    <3>2. /\ ItemsOf[n] \in Seq(Items) /\ Len(ItemsOf[n]) <= Len(ItemsOf[n + 1])
          /\ \A i \in 1 .. Len(ItemsOf[n]) : ItemsOf[n + 1][i] = ItemsOf[n][i]
      BY <1>3, <2>4, MoreItems
    <3> QED BY <3>1, <3>2 DEF Begun
  <2>7. Recognised(t)'
    <3>1. CASE n = 0
      BY <1>1, <1>3, <1>4, <1>5, <2>4, <3>1 DEF AtHead, Recognised
    <3>2. CASE n # 0
      <4>1. Path \in seen[t]
        BY <1>3, <1>4, <1>5, <3>2 DEF Passed
      <4>2. next[t] # Path
        BY <1>9, <4>1 DEF Seen
      <4> QED BY <1>1, <1>3, <1>4, <3>2, <4>2 DEF AtHead, Recognised
    <3> QED BY <3>1, <3>2
  <2>8. AtFetch(t)'
    <3>1. pages'[t] > 0 /\ pages'[t] - 1 = n
      BY <2>1
    <3> QED BY <1>1, <1>2, <2>4, <2>7, <3>1 DEF AtFetch
  <2>9. err'[t] = "none" /\ ~stopped'[t]
    BY <1>1, <1>3, <1>9
  <2> QED BY <2>1, <2>2, <2>5, <2>6, <2>8, <2>9 DEF OnCourse
<1> QED BY <1>6, <1>7, <1>8, <1>9 DEF NextPage

\* The page of the walk, or one without a body, or the end.
LEMMA FetchOnCourse ==
  ASSUME Inv, Walks, NEW t \in Traversals, Fetch(t)
  PROVE  Entries' /\ OnCourse(t)'
<1>1. /\ pc[t] = "fetch"
      /\ UNCHANGED <<site, maxPages, kind, next, first, seen, pages, got, link, stopped>>
  BY DEF Fetch
<1>2. LinkAt' = LinkAt /\ ItemsOf' = ItemsOf
  BY <1>1, TheWalkStays
<1>3. /\ Passed(t) /\ Begun(t) /\ AtFetch(t) /\ err[t] = "none" /\ ~stopped[t]
      /\ Entries /\ site \in Sites /\ Recognised(t)
  BY <1>1 DEF Walks, OnCourse, Entries, AtFetch
<1>4. PICK n \in Nat : n + 1 = pages[t]
  <2>1. pages[t] \in Nat /\ pages[t] > 0
    BY <1>3 DEF Inv, Records, AtFetch
  <2>2. pages[t] - 1 \in Nat /\ (pages[t] - 1) + 1 = pages[t]
    BY <2>1
  <2> QED BY <2>2
<1>5. pages[t] - 1 = n /\ n \in 0 .. pages[t] - 1
  BY <1>4
<1>6. next[t] = LinkAt[n] /\ got[t] = ItemsOf[n] /\ LinkAt[n] # None
  BY <1>3, <1>5 DEF AtFetch, Passed
<1>7. Passed(t)' /\ Begun(t)'
  BY <1>1, <1>2, <1>3 DEF Passed, Begun
<1>8. ItemsOf[n] \in Seq(Items) /\ LinkAt[n] \in Links /\ site[LinkAt[n]] \in Page
  BY <1>3, <1>6, PageFacts
<1>9. ASSUME NEW p, p = site[LinkAt[n]] \/ (EmptyAnswers /\ p = ZeroPage),
             page' = [page EXCEPT ![t] = p], index' = [index EXCEPT ![t] = 0],
             Goto(t, "body"), UNCHANGED err
      PROVE  Entries' /\ OnCourse(t)'
  <2>1. pc'[t] = "body" /\ page'[t] = p /\ index'[t] = 0 /\ err'[t] = "none" /\ ~stopped'[t]
    BY <1>1, <1>3, <1>9 DEF Inv, Records, Entries, Goto
  <2>2. p \in Page /\ p.value \in Seq(Items)
    <3>1. ZeroPage \in Page
      BY DEF ZeroPage, Page
    <3>2. p \in Page
      BY <1>8, <1>9, <3>1
    <3> QED BY <3>2 DEF Page
  <2>3. Entries'
    BY <1>1, <1>3, <1>9, <2>2 DEF Entries
  <2>4. OnWalk(t)'
    BY <1>1, <1>2, <1>5, <1>9, <2>1 DEF OnWalk
  <2> DEFINE a == ItemsOf[n]
             v == p.value
  <2>5. a \in Seq(Items) /\ v \in Seq(Items)
    BY <1>8, <2>2
  <2>6. 0 \in 0 .. Len(v) /\ Len(a) = Len(a) + 0 /\ \A i \in 1 .. Len(a) : a[i] = (a \o v)[i]
    <3> HIDE DEF a, v
    <3> QED BY <2>5
  <2>7. AtBody(t)'
    <3>1. /\ pages'[t] > 0 /\ ItemsOf'[pages'[t] - 1] = a /\ page'[t].value = v /\ got'[t] = a
      BY <1>1, <1>2, <1>4, <1>5, <1>6, <2>1
    <3> HIDE DEF a, v
    <3> QED BY <2>1, <2>4, <2>5, <2>6, <3>1 DEF AtBody
  <2> QED BY <1>7, <2>1, <2>3, <2>7 DEF OnCourse
<1>10. ASSUME Fail(t, "get"), UNCHANGED <<page, index>>
       PROVE  Entries' /\ OnCourse(t)'
  <2>1. pc'[t] = "done" /\ err'[t] = "get"
    BY <1>10 DEF Inv, Records, Fail, Goto
  <2>2. Entries'
    BY <1>1, <1>3, <1>10 DEF Entries
  <2>3. Ended(t)'
    BY <1>1, <1>2, <1>4, <1>5, <1>6, <2>1 DEF Ended
  <2> QED BY <1>7, <2>1, <2>2, <2>3 DEF OnCourse
<1>11. \/ \E p \in {site[next[t]]} \cup (IF EmptyAnswers THEN {ZeroPage} ELSE {}) :
            /\ page' = [page EXCEPT ![t] = p] /\ index' = [index EXCEPT ![t] = 0]
            /\ Goto(t, "body") /\ UNCHANGED err
       \/ Fail(t, "get") /\ UNCHANGED <<page, index>>
  BY <1>3 DEF Fetch
<1> QED BY <1>6, <1>9, <1>10, <1>11

-----------------------------------------------------------------------------
\* The page in hand, at the body of the loop: its items come after those of the
\* pages before, and together they are the items of the pages fetched, or the
\* first of them.
LEMMA BodyFacts ==
  ASSUME Inv, Walks, NEW t \in Traversals, pc[t] = "body"
  PROVE  \E n \in Nat :
           /\ pages[t] = n + 1 /\ pages[t] - 1 = n
           /\ ItemsOf[n] \in Seq(Items) /\ ItemsOf[n + 1] \in Seq(Items)
           /\ page[t].value \in Seq(Items)
           /\ \/ /\ page[t] = site[LinkAt[n]] /\ page[t].next = LinkAt[n + 1]
                 /\ ItemsOf[n + 1] = ItemsOf[n] \o page[t].value
              \/ /\ EmptyAnswers /\ page[t] = ZeroPage /\ page[t].next = None
                 /\ ItemsOf[n] \o page[t].value = ItemsOf[n]
           /\ Len(ItemsOf[n] \o page[t].value) <= Len(ItemsOf[n + 1])
           /\ \A i \in 1 .. Len(ItemsOf[n] \o page[t].value) :
                (ItemsOf[n] \o page[t].value)[i] = ItemsOf[n + 1][i]
<1>1. Passed(t) /\ AtBody(t) /\ OnWalk(t) /\ site \in Sites /\ page[t] \in Page
  BY DEF Walks, OnCourse, Entries, AtBody
<1>2. PICK n \in Nat : pages[t] = n + 1 /\ pages[t] - 1 = n
  <2>1. pages[t] \in Nat /\ pages[t] > 0
    BY <1>1 DEF Inv, Records, AtBody
  <2>2. pages[t] - 1 \in Nat /\ (pages[t] - 1) + 1 = pages[t]
    BY <2>1
  <2> QED BY <2>2
<1>3. LinkAt[n] # None
  BY <1>1, <1>2 DEF Passed
<1>4. page[t].value \in Seq(Items)
  BY <1>1 DEF Page
<1>5. /\ ItemsOf[n] \in Seq(Items) /\ ItemsOf[n + 1] \in Seq(Items)
      /\ LinkAt[n + 1] = site[LinkAt[n]].next
      /\ ItemsOf[n + 1] = ItemsOf[n] \o site[LinkAt[n]].value
  BY <1>1, <1>3, PageFacts
<1>6. CASE page[t] = site[LinkAt[n]]
  <2>1. ItemsOf[n + 1] = ItemsOf[n] \o page[t].value /\ page[t].next = LinkAt[n + 1]
    BY <1>5, <1>6
  <2>2. Len(ItemsOf[n + 1]) \in Nat
    BY <1>5, LenProperties
  <2>3. Len(ItemsOf[n] \o page[t].value) <= Len(ItemsOf[n + 1])
    BY <2>1, <2>2
  <2> QED BY <1>2, <1>4, <1>5, <1>6, <2>1, <2>3
<1>7. CASE EmptyAnswers /\ page[t] = ZeroPage
  <2>1. page[t].value = << >> /\ page[t].next = None
    BY <1>7 DEF ZeroPage
  <2>2. ItemsOf[n] \o page[t].value = ItemsOf[n]
    BY <1>5, <2>1
  <2>3. /\ Len(ItemsOf[n]) <= Len(ItemsOf[n + 1])
        /\ \A i \in 1 .. Len(ItemsOf[n]) : ItemsOf[n + 1][i] = ItemsOf[n][i]
    BY <1>1, <1>3, MoreItems
  <2>4. \A i \in 1 .. Len(ItemsOf[n]) : ItemsOf[n][i] = ItemsOf[n + 1][i]
    BY <2>3
  <2> QED BY <1>2, <1>4, <1>5, <1>7, <2>1, <2>2, <2>3, <2>4
<1> QED BY <1>1, <1>2, <1>6, <1>7 DEF OnWalk

\* yield returned true: on to the next link, or past the page without one.
LEMMA FollowOnCourse ==
  ASSUME Inv, Walks, NEW t \in Traversals, pc[t] = "body", Follow(t),
         UNCHANGED <<site, maxPages, kind, seen, pages, page, err, stopped>>,
         got'[t] = ItemsOf[pages[t] - 1] \o page[t].value,
         kind[t] = "delta" /\ page[t].delta # None => link'[t] = page[t].delta
  PROVE  OnCourse(t)'
<1>1. LinkAt' = LinkAt /\ ItemsOf' = ItemsOf
  BY TheWalkStays
<1>2. Passed(t) /\ err[t] = "none" /\ ~stopped[t] /\ Entries /\ AtBody(t)
  BY DEF Walks, OnCourse
<1>3. pc'[t] = "head" /\ next'[t] = page[t].next /\ ~first'[t]
  BY <1>2 DEF Follow, Goto, Inv, Records, Entries
<1>4. PICK n \in Nat :
        /\ pages[t] = n + 1 /\ pages[t] - 1 = n
        /\ ItemsOf[n] \in Seq(Items) /\ page[t].value \in Seq(Items)
        /\ \/ /\ page[t] = site[LinkAt[n]] /\ page[t].next = LinkAt[n + 1]
              /\ ItemsOf[n + 1] = ItemsOf[n] \o page[t].value
           \/ /\ EmptyAnswers /\ page[t] = ZeroPage /\ page[t].next = None
              /\ ItemsOf[n] \o page[t].value = ItemsOf[n]
        /\ Len(ItemsOf[n] \o page[t].value) <= Len(ItemsOf[n + 1])
        /\ \A i \in 1 .. Len(ItemsOf[n] \o page[t].value) :
             (ItemsOf[n] \o page[t].value)[i] = ItemsOf[n + 1][i]
  BY BodyFacts
<1> DEFINE all == ItemsOf[n] \o page[t].value
<1>5. got'[t] = all /\ pages'[t] = n + 1 /\ pages'[t] - 1 = n /\ page'[t] = page[t]
  BY <1>4
<1>6. all \in Seq(Items)
  BY <1>4, ConcatProperties
<1>7. Passed(t)'
  BY <1>1, <1>2 DEF Passed
<1>8. Begun(t)'
  <2>1. Len(all) <= Len(ItemsOf[n + 1]) /\ \A i \in 1 .. Len(all) : all[i] = ItemsOf[n + 1][i]
    BY <1>4
  <2> HIDE DEF all
  <2> QED BY <1>1, <1>5, <1>6, <2>1 DEF Begun
<1>9. CASE page[t] = site[LinkAt[n]] /\ page[t].next = LinkAt[n + 1] /\ ItemsOf[n + 1] = all
  <2>1. LinkKept(t)'
    BY <1>1, <1>5, <1>9 DEF LinkKept
  <2>2. GoesOn(t)'
    BY <1>1, <1>3, <1>5, <1>9, <2>1 DEF GoesOn
  <2> QED BY <1>3, <1>5, <1>2, <1>7, <1>8, <2>2 DEF OnCourse, AtHead
<1>10. CASE EmptyAnswers /\ page[t] = ZeroPage /\ page[t].next = None /\ all = ItemsOf[n]
  <2>1. CutOff(t)'
    BY <1>1, <1>3, <1>5, <1>10 DEF CutOff
  <2> QED BY <1>3, <1>5, <1>2, <1>7, <1>8, <2>1 DEF OnCourse, AtHead
<1> QED BY <1>4, <1>9, <1>10

\* The first items of the pages before and of the page in hand are the first of
\* those of the pages fetched.
LEMMA GivenIsBegun ==
  ASSUME Inv, Walks, NEW t \in Traversals, pc[t] = "body",
         UNCHANGED <<site, pages>>, NEW g \in Seq(Items), got'[t] = g,
         Len(g) <= Len(ItemsOf[pages[t] - 1] \o page[t].value),
         \A i \in 1 .. Len(g) : g[i] = (ItemsOf[pages[t] - 1] \o page[t].value)[i]
  PROVE  Begun(t)'
<1>1. ItemsOf' = ItemsOf
  BY TheWalkStays
<1>2. PICK n \in Nat :
        /\ pages[t] = n + 1 /\ pages[t] - 1 = n
        /\ ItemsOf[n] \in Seq(Items) /\ ItemsOf[n + 1] \in Seq(Items) /\ page[t].value \in Seq(Items)
        /\ Len(ItemsOf[n] \o page[t].value) <= Len(ItemsOf[n + 1])
        /\ \A i \in 1 .. Len(ItemsOf[n] \o page[t].value) :
             (ItemsOf[n] \o page[t].value)[i] = ItemsOf[n + 1][i]
  BY BodyFacts
<1> DEFINE all == ItemsOf[n] \o page[t].value
           b == ItemsOf[n + 1]
<1>3. all \in Seq(Items) /\ b \in Seq(Items)
  BY <1>2, ConcatProperties
<1>4. /\ Len(g) <= Len(all) /\ Len(all) <= Len(b)
      /\ \A i \in 1 .. Len(g) : g[i] = all[i]
      /\ \A i \in 1 .. Len(all) : all[i] = b[i]
  BY <1>2
<1>5. pages'[t] = n + 1 /\ ItemsOf'[n + 1] = b
  BY <1>1, <1>2
<1> HIDE DEF all, b
<1>6. Len(g) <= Len(b) /\ \A i \in 1 .. Len(g) : g[i] = b[i]
  <2>1. Len(g) \in Nat /\ Len(all) \in Nat /\ Len(b) \in Nat
    BY <1>3, LenProperties
  <2> QED BY <1>4, <2>1
<1> QED BY <1>5, <1>6 DEF Begun

\* yield returned false: nothing is said of how it ends, only of what it was given.
LEMMA StopOnCourse ==
  ASSUME Inv, Walks, NEW t \in Traversals, pc[t] = "body", Stop(t),
         UNCHANGED <<site, maxPages, kind, seen, pages, page, err>>, Begun(t)'
  PROVE  OnCourse(t)'
<1>1. LinkAt' = LinkAt /\ Passed(t)
  BY TheWalkStays DEF Walks, OnCourse
<1>2. pc'[t] = "done" /\ stopped'[t]
  BY DEF Stop, Goto, Inv, Records
<1>3. Passed(t)'
  BY <1>1 DEF Passed
<1> QED BY <1>2, <1>3 DEF OnCourse

\* What a range has been given when index of the items of its page were yielded.
LEMMA GivenSoFar ==
  ASSUME Inv, Walks, NEW t \in Traversals, pc[t] = "body"
  PROVE  /\ index[t] = 0 => got[t] = ItemsOf[pages[t] - 1]
         /\ index[t] = Len(page[t].value) => got[t] = ItemsOf[pages[t] - 1] \o page[t].value
<1> DEFINE a == ItemsOf[pages[t] - 1]
           v == page[t].value
           g == got[t]
<1>1. /\ g \in Seq(Items) /\ Len(g) = Len(a) + index[t]
      /\ index[t] \in 0 .. Len(v)
      /\ \A i \in 1 .. Len(g) : g[i] = (a \o v)[i]
  BY DEF Walks, OnCourse, AtBody
<1>2. a \in Seq(Items) /\ v \in Seq(Items)
  BY BodyFacts
<1> HIDE DEF a, v, g
<1>3. a \o v \in Seq(Items) /\ Len(a \o v) = Len(a) + Len(v) /\ \A i \in 1 .. Len(a) : (a \o v)[i] = a[i]
  BY <1>2
<1>4. ASSUME index[t] = 0 PROVE g = a
  <2>1. Len(g) = Len(a) /\ \A i \in 1 .. Len(g) : g[i] = a[i]
    BY <1>1, <1>2, <1>3, <1>4
  <2> QED BY <1>1, <1>2, <2>1, SeqEqual
<1>5. ASSUME index[t] = Len(v) PROVE g = a \o v
  BY <1>1, <1>3, <1>5, SeqEqual
<1> QED BY <1>4, <1>5 DEF a, v, g

LEMMA PagesOnCourse ==
  ASSUME Inv, Walks, NEW t \in Traversals, PagesBody(t)
  PROVE  Entries' /\ OnCourse(t)'
<1>1. /\ pc[t] = "body" /\ kind[t] = "pages" /\ got' = [got EXCEPT ![t] = Gathered(t)]
      /\ UNCHANGED <<site, maxPages, kind, seen, pages, page, index, link, err>>
      /\ \/ Follow(t) /\ UNCHANGED stopped
         \/ Stop(t)
  BY DEF PagesBody
<1>2. Entries /\ index[t] = 0
  BY <1>1 DEF Walks, OnCourse, AtBody
<1>3. Entries'
  BY <1>1, <1>2 DEF Entries, Follow, Stop
<1>4. got'[t] = ItemsOf[pages[t] - 1] \o page[t].value
  BY <1>1, <1>2, GivenSoFar DEF Gathered, Inv, Records
<1>5. CASE Follow(t) /\ UNCHANGED stopped
  BY <1>1, <1>3, <1>4, <1>5, FollowOnCourse
<1>6. CASE Stop(t)
  <2>1. Begun(t)'
    <3> DEFINE g == ItemsOf[pages[t] - 1] \o page[t].value
    <3>1. g \in Seq(Items)
      BY <1>1, BodyFacts, ConcatProperties
    <3>2. Len(g) <= Len(g)
      BY <3>1, LenProperties
    <3> QED BY <1>1, <1>4, <3>1, <3>2, GivenIsBegun
  <2> QED BY <1>1, <1>3, <1>6, <2>1, StopOnCourse
<1> QED BY <1>1, <1>5, <1>6

LEMMA DeltaOnCourse ==
  ASSUME Inv, Walks, NEW t \in Traversals, DeltaBody(t)
  PROVE  Entries' /\ OnCourse(t)'
<1>1. /\ pc[t] = "body" /\ kind[t] = "delta" /\ got' = [got EXCEPT ![t] = Gathered(t)]
      /\ link' = IF page[t].delta # None THEN [link EXCEPT ![t] = page[t].delta] ELSE link
      /\ Follow(t)
      /\ UNCHANGED <<site, maxPages, kind, seen, pages, page, index, err, stopped>>
  BY DEF DeltaBody
<1>2. Entries /\ index[t] = 0
  BY <1>1 DEF Walks, OnCourse, AtBody
<1>3. Entries'
  BY <1>1, <1>2 DEF Entries, Follow
<1>4. got'[t] = ItemsOf[pages[t] - 1] \o page[t].value
  BY <1>1, <1>2, GivenSoFar DEF Gathered, Inv, Records
<1>5. page[t].delta # None => link'[t] = page[t].delta
  BY <1>1, <1>2 DEF Entries
<1> QED BY <1>1, <1>3, <1>4, <1>5, FollowOnCourse

\* An item more of the page in hand.
LEMMA OneMore ==
  ASSUME NEW a \in Seq(Items), NEW v \in Seq(Items), NEW g \in Seq(Items), NEW k \in Nat,
         k < Len(v), Len(g) = Len(a) + k,
         \A i \in 1 .. Len(g) : g[i] = (a \o v)[i]
  PROVE  /\ Append(g, v[k + 1]) \in Seq(Items)
         /\ Len(Append(g, v[k + 1])) = Len(a) + (k + 1)
         /\ Len(Append(g, v[k + 1])) <= Len(a \o v)
         /\ \A i \in 1 .. Len(Append(g, v[k + 1])) : Append(g, v[k + 1])[i] = (a \o v)[i]
<1>1. k + 1 \in 1 .. Len(v) /\ v[k + 1] \in Items
  BY LenProperties, ElementOfSeq
<1> DEFINE x == v[k + 1]
           h == Append(g, x)
<1>2. x \in Items /\ x = (a \o v)[Len(a) + (k + 1)] /\ Len(a \o v) = Len(a) + Len(v)
  BY <1>1, ConcatProperties, LenProperties
<1> HIDE DEF x
<1>3. /\ h \in Seq(Items) /\ Len(h) = Len(g) + 1 /\ h[Len(g) + 1] = x
      /\ \A i \in 1 .. Len(g) : h[i] = g[i]
  BY <1>2, AppendProperties
<1> HIDE DEF h
<1>4. Len(g) \in Nat /\ Len(a) \in Nat /\ Len(v) \in Nat
  BY LenProperties
<1>5. Len(h) = Len(a) + (k + 1) /\ Len(h) <= Len(a \o v)
  BY <1>2, <1>3, <1>4
<1>6. ASSUME NEW i \in 1 .. Len(h) PROVE h[i] = (a \o v)[i]
  <2>1. CASE i = Len(g) + 1
    <3>1. i = Len(a) + (k + 1)
      BY <1>4, <2>1
    <3> QED BY <1>2, <1>3, <2>1, <3>1
  <2>2. CASE i # Len(g) + 1
    <3>1. i \in 1 .. Len(g)
      BY <1>3, <1>4, <2>2
    <3> QED BY <1>3, <3>1
  <2> QED BY <2>1, <2>2
<1> QED BY <1>3, <1>5, <1>6 DEF h, x

LEMMA ItemsOnCourse ==
  ASSUME Inv, Walks, NEW t \in Traversals, ItemsBody(t)
  PROVE  Entries' /\ OnCourse(t)'
<1>1. /\ pc[t] = "body" /\ kind[t] \in {"items", "collect", "first"}
      /\ UNCHANGED <<site, maxPages, kind, seen, pages, page, link, err>>
  BY DEF ItemsBody
<1>2. Entries /\ AtBody(t) /\ Passed(t) /\ err[t] = "none" /\ ~stopped[t]
  BY <1>1 DEF Walks, OnCourse
<1>3. CASE index[t] = Len(page[t].value) /\ Follow(t) /\ UNCHANGED <<index, got, stopped>>
  <2>1. Entries'
    BY <1>1, <1>2, <1>3 DEF Entries, Follow
  <2>2. got'[t] = ItemsOf[pages[t] - 1] \o page[t].value
    BY <1>1, <1>3, GivenSoFar
  <2>3. kind[t] # "delta"
    BY <1>1
  <2> QED BY <1>1, <1>3, <2>1, <2>2, <2>3, FollowOnCourse
<1>4. ASSUME index[t] < Len(page[t].value), index' = [index EXCEPT ![t] = @ + 1],
             got' = [got EXCEPT ![t] = Append(@, page[t].value[index[t] + 1])],
             \/ UNCHANGED <<pc, next, first, stopped>>
             \/ Stop(t)
      PROVE  Entries' /\ OnCourse(t)'
  <2>1. Entries'
    BY <1>1, <1>2, <1>4 DEF Entries, Stop
  <2> DEFINE a == ItemsOf[pages[t] - 1]
             v == page[t].value
             k == index[t]
             g == got[t]
             h == Append(g, v[k + 1])
  <2>2. a \in Seq(Items) /\ v \in Seq(Items)
    BY <1>1, BodyFacts
  <2>3. /\ g \in Seq(Items) /\ k \in 0 .. Len(v) /\ Len(g) = Len(a) + k
        /\ \A i \in 1 .. Len(g) : g[i] = (a \o v)[i]
    BY <1>2 DEF AtBody
  <2>4. k \in Nat /\ k < Len(v) /\ k + 1 \in 0 .. Len(v)
    <3>1. Len(v) \in Nat
      BY <2>2, LenProperties
    <3> HIDE DEF a, v, g, h
    <3> QED BY <1>4, <2>3, <3>1 DEF v
  <2>5. /\ h \in Seq(Items) /\ Len(h) = Len(a) + (k + 1) /\ Len(h) <= Len(a \o v)
        /\ \A i \in 1 .. Len(h) : h[i] = (a \o v)[i]
    <3>1. a \in Seq(Items) /\ v \in Seq(Items) /\ g \in Seq(Items) /\ k \in Nat
      BY <2>2, <2>3, <2>4
    <3>2. k < Len(v) /\ Len(g) = Len(a) + k
      BY <2>3, <2>4
    <3>3. \A i \in 1 .. Len(g) : g[i] = (a \o v)[i]
      BY <2>3
    <3> HIDE DEF a, v, g, k
    <3> QED BY <3>1, <3>2, <3>3, OneMore, ZenonT(40)
  <2>6. got'[t] = h /\ index'[t] = k + 1
    BY <1>2, <1>4 DEF Inv, Records, Entries
  <2>7. Begun(t)'
    <3> HIDE DEF h
    <3> QED BY <1>1, <2>5, <2>6, GivenIsBegun
  <2>8. CASE Stop(t)
    BY <1>1, <2>1, <2>7, <2>8, StopOnCourse
  <2>9. CASE UNCHANGED <<pc, next, first, stopped>>
    <3>1. LinkAt' = LinkAt /\ ItemsOf' = ItemsOf
      BY <1>1, TheWalkStays
    <3>2. Passed(t)'
      BY <1>1, <1>2, <3>1 DEF Passed
    <3>3. OnWalk(t)'
      BY <1>1, <1>2, <3>1 DEF OnWalk, AtBody
    <3>4. ItemsOf'[pages'[t] - 1] = a /\ page'[t].value = v /\ kind' = kind /\ pages'[t] = pages[t]
      BY <1>1, <3>1
    <3>5. pages[t] > 0
      BY <1>2 DEF AtBody
    <3>6. AtBody(t)'
      <4> HIDE DEF a, v, k, g, h
      <4> QED BY <1>1, <2>4, <2>5, <2>6, <3>3, <3>4, <3>5 DEF AtBody
    <3> QED BY <1>1, <1>2, <2>1, <2>7, <2>9, <3>2, <3>6 DEF OnCourse
  <2> QED BY <1>4, <2>8, <2>9
<1> QED BY <1>3, <1>4 DEF ItemsBody

LEMMA StepWalks == Inv /\ Walks /\ [Next]_vars => Walks'
<1> SUFFICES ASSUME Inv, Walks, [Next]_vars PROVE Walks'
  OBVIOUS
<1>1. CASE UNCHANGED vars
  <2>1. site' = site
    BY <1>1 DEF vars
  <2>2. LinkAt' = LinkAt /\ ItemsOf' = ItemsOf
    BY <2>1, TheWalkStays
  <2>3. Entries'
    BY <1>1 DEF vars, Walks, Entries
  <2>4. ASSUME NEW u \in Traversals PROVE OnCourse(u)'
    <3>1. UNCHANGED <<site, maxPages, pc, kind, next, first, seen, pages, page, index, got,
                      link, err, stopped>>
      BY <1>1 DEF vars
    <3>2. OnCourse(u)
      BY DEF Walks
    <3>3. Passed(u)' /\ Begun(u)'
      BY <2>2, <3>1, <3>2 DEF OnCourse, Passed, Begun
    <3>4. AtHead(u)' <=> AtHead(u)
      BY <2>2, <3>1 DEF AtHead, GoesOn, CutOff, LinkKept
    <3>5. AtFetch(u)' <=> AtFetch(u)
      BY <2>2, <3>1 DEF AtFetch, Recognised
    <3>6. AtBody(u)' <=> AtBody(u)
      BY <2>2, <3>1 DEF AtBody, OnWalk
    <3>7. Ended(u)' <=> Ended(u)
      BY <2>2, <3>1 DEF Ended, LinkKept
    <3> QED BY <3>1, <3>2, <3>3, <3>4, <3>5, <3>6, <3>7 DEF OnCourse
  <2> QED BY <2>3, <2>4 DEF Walks
<1>2. CASE Next
  <2>1. PICK t \in Traversals : BeginRange(t) \/ Step(t)
    BY <1>2 DEF Next
  <2>2. ASSUME NEW u \in Traversals \ {t} PROVE OnCourse(u)'
    BY <2>1, OthersOnCourse DEF Inv
  <2>3. Entries' /\ OnCourse(t)'
    BY <2>1, BeginOnCourse, HeadOnCourse, FetchOnCourse, PagesOnCourse, ItemsOnCourse,
       DeltaOnCourse DEF Step, Inv
  <2> QED BY <2>2, <2>3 DEF Walks
<1> QED BY <1>1, <1>2

\* Every range over the iterator is, at every moment, where the walk along the
\* nextLinks says, with the items of the pages behind it.
THEOREM EveryRangeWalks == Spec => [](Inv /\ Walks)
<1> QED BY InitInv, InitWalks, StepInv, StepWalks, PTL DEF Spec

\* What a consumer is given is the beginning of what the service keeps, in its
\* order, without a gap and without an item yielded twice (iterate.go:43).
THEOREM GivenInOrder == Spec => []InOrder
<1>1. Inv /\ Walks => InOrder
  <2> SUFFICES ASSUME Inv, Walks, NEW t \in Traversals
               PROVE  /\ Len(got[t]) <= Len(ItemsOf[pages[t]])
                      /\ got[t] = SubSeq(ItemsOf[pages[t]], 1, Len(got[t]))
    BY DEF InOrder
  <2> DEFINE g == got[t]
             b == ItemsOf[pages[t]]
  <2>1. g \in Seq(Items) /\ Len(g) <= Len(b) /\ \A i \in 1 .. Len(g) : g[i] = b[i]
    BY DEF Walks, OnCourse, Begun
  <2>2. b \in Seq(Items)
    BY ItemFacts DEF Inv, Records, Walks, Entries
  <2> HIDE DEF g, b
  <2>3. g = SubSeq(b, 1, Len(g))
    <3>1. Len(g) \in Nat /\ Len(b) \in Nat
      BY <2>1, <2>2, LenProperties
    <3>2. /\ SubSeq(b, 1, Len(g)) \in Seq(Items) /\ Len(SubSeq(b, 1, Len(g))) = Len(g)
          /\ \A i \in 1 .. Len(g) : SubSeq(b, 1, Len(g))[i] = b[i]
      BY <2>1, <2>2, <3>1
    <3> QED BY <2>1, <3>2, SeqEqual
  <2> QED BY <2>1, <2>3 DEF g, b
<1> QED BY <1>1, EveryRangeWalks, PTL

\* A range that ends without a break has given all there was, or names what cut
\* it short; Delta has the deltaLink of the final page (iterate.go:47, :95).
THEOREM EndsAreTrue == Spec => []EndsTruthfully
<1>1. Inv /\ Walks => EndsTruthfully
  <2> SUFFICES ASSUME Inv, Walks, NEW t \in Traversals, pc[t] = "done", ~stopped[t]
               PROVE  /\ maxPages > 0 => pages[t] <= maxPages
                      /\ \/ /\ err[t] = "none" /\ EmptyAnswers /\ page[t] = ZeroPage
                            /\ got[t] = ItemsOf[pages[t] - 1]
                         \/ /\ err[t] = "none" /\ LinkAt[pages[t]] = None /\ got[t] = ItemsOf[pages[t]]
                            /\ LET final == site[LinkAt[pages[t] - 1]].delta IN
                               kind[t] = "delta" /\ final # None => link[t] = final
                         \/ /\ err[t] = "cycle" /\ got[t] = ItemsOf[pages[t]]
                            /\ \E i \in 0 .. pages[t] - 1 : LinkAt[i] = LinkAt[pages[t]]
                         \/ /\ err[t] = "max pages" /\ got[t] = ItemsOf[pages[t]]
                            /\ pages[t] = maxPages /\ LinkAt[pages[t]] # None
                         \/ err[t] = "get" /\ pages[t] > 0 /\ got[t] = ItemsOf[pages[t] - 1]
    BY DEF EndsTruthfully
  <2>1. maxPages > 0 => pages[t] <= maxPages
    BY DEF Inv, WithinBound
  <2>2. Ended(t)
    BY DEF Walks, OnCourse
  <2> QED BY <2>1, <2>2 DEF Ended, LinkKept
<1> QED BY <1>1, EveryRangeWalks, PTL
=============================================================================
