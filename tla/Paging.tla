------------------------------- MODULE Paging -------------------------------
(***************************************************************************)
(* Collection traversal (src/iterate.go, src/typed.go): the iterator Pages *)
(* returns, and the consumers built on it, Items, Collect, First and       *)
(* Delta.  One iterator may be ranged over several times, by goroutines of *)
(* their own even; every range walks the collection from the start.        *)
(*                                                                         *)
(* The service is external: site says which page it keeps behind each      *)
(* link.  Links are compared by their text, so the path a traversal starts *)
(* from and a nextLink that leads back to the same page may differ.        *)
(***************************************************************************)
EXTENDS Integers, Sequences

CONSTANTS
  Traversals,   \* the ranges over the iterator
  Consumers,    \* what they are: "pages", "items", "collect", "first" or "delta"
  Path,         \* the path the iterator was made with
  Links,        \* the links of the collection, Path among them
  None,         \* the absent link
  Items,        \* the items of the collection
  DeltaLinks,   \* the deltaLinks of the service
  Sites,        \* the collections the service may keep: a page for every link
  Bounds,       \* what WithMaxPages is given; not positive is no bound (iterate.go:35)
  EmptyAnswers  \* may the service answer 2xx without a body?

Page == [value : Seq(Items), next : Links \cup {None}, delta : DeltaLinks \cup {None}]
ZeroPage == [value |-> << >>, next |-> None, delta |-> None]

ASSUME PagingAssumption ==
  /\ Bounds \subseteq Int /\ EmptyAnswers \in BOOLEAN
  /\ Path \in Links /\ None \notin Links \cup DeltaLinks
  /\ Consumers \subseteq {"pages", "items", "collect", "first", "delta"}
  /\ Sites \subseteq [Links -> Page]

VARIABLES
  site,     \* the collection
  maxPages, \* the iterator's page bound
  pc,       \* "idle", "head" of the loop, "fetch", "body" of the loop or "done"
  kind,     \* the consumer
  next,     \* the link to fetch
  first,    \* does nextParams still hold the caller's parameters?
  seen,     \* the links fetched
  pages,    \* how many
  page,     \* the page in hand
  index,    \* how many of its items were yielded
  got,      \* the items the consumer was given
  link,     \* the deltaLink Delta remembers
  err,      \* the error it was given, "none" so far
  stopped   \* did the consumer break out of its loop?

vars == <<site, maxPages, pc, kind, next, first, seen, pages, page, index, got, link, err, stopped>>

Init ==
  /\ site \in Sites
  /\ maxPages \in Bounds
  /\ pc = [t \in Traversals |-> "idle"]
  /\ kind \in [Traversals -> Consumers]
  /\ next = [t \in Traversals |-> Path]
  /\ first = [t \in Traversals |-> TRUE]
  /\ seen = [t \in Traversals |-> {}]
  /\ pages = [t \in Traversals |-> 0]
  /\ page = [t \in Traversals |-> ZeroPage]
  /\ index = [t \in Traversals |-> 0]
  /\ got = [t \in Traversals |-> << >>]
  /\ link = [t \in Traversals |-> None]
  /\ err = [t \in Traversals |-> "none"]
  /\ stopped = [t \in Traversals |-> FALSE]

Goto(t, label) == pc' = [pc EXCEPT ![t] = label]
Fail(t, e) == Goto(t, "done") /\ err' = [err EXCEPT ![t] = e]

\* A range over the iterator begins: every one has its own variables.
BeginRange(t) ==
  /\ pc[t] = "idle"
  /\ Goto(t, "head")
  /\ UNCHANGED <<site, maxPages, kind, next, first, seen, pages, page, index, got, link, err, stopped>>

\* Mutant: the links seen are shared by the ranges over an iterator.
SeenByAny(t, l) == \E u \in Traversals : l \in seen[u]

Seen(t, l) == l \in seen[t]

Exceeded(t) == maxPages > 0 /\ pages[t] >= maxPages

\* Mutant: a link seen before is skipped, not an error.
Skipped(t) == UNCHANGED <<pc, err>>

Cycle(t) == Fail(t, "cycle")

\* The head of the loop: no link, a link seen before, one page too many, or
\* another page.
NextPage(t) ==
  /\ pc[t] = "head"
  /\ \/ next[t] = None /\ Goto(t, "done") /\ UNCHANGED <<seen, pages, err>>
     \/ next[t] # None /\ Seen(t, next[t]) /\ Cycle(t) /\ UNCHANGED <<seen, pages>>
     \/ /\ next[t] # None /\ ~Seen(t, next[t]) /\ Exceeded(t)
        /\ Fail(t, "max pages") /\ UNCHANGED <<seen, pages>>
     \/ /\ next[t] # None /\ ~Seen(t, next[t]) /\ ~Exceeded(t)
        /\ seen' = [seen EXCEPT ![t] = @ \cup {next[t]}]
        /\ pages' = [pages EXCEPT ![t] = @ + 1]
        /\ Goto(t, "fetch") /\ UNCHANGED err
  /\ UNCHANGED <<site, maxPages, kind, next, first, page, index, got, link, stopped>>

\* What the service makes of a request: it finds nothing when the caller's
\* parameters are missing from the path, or were merged into a continuation
\* link, whose opaque token that re-spells (client.go:358).
Recognised(t) == first[t] <=> next[t] = Path

\* client.Get into a fresh page; it fails whenever it likes.
Fetch(t) ==
  /\ pc[t] = "fetch"
  /\ \/ /\ Recognised(t)
        /\ \E p \in {site[next[t]]} \cup (IF EmptyAnswers THEN {ZeroPage} ELSE {}) :
             page' = [page EXCEPT ![t] = p]
        /\ index' = [index EXCEPT ![t] = 0]
        /\ Goto(t, "body") /\ UNCHANGED err
     \/ Fail(t, IF Recognised(t) THEN "get" ELSE "refused") /\ UNCHANGED <<page, index>>
  /\ UNCHANGED <<site, maxPages, kind, next, first, seen, pages, got, link, stopped>>

\* yield returned true: the next link, without the caller's parameters.
Follow(t) ==
  /\ next' = [next EXCEPT ![t] = page[t].next]
  /\ first' = [first EXCEPT ![t] = FALSE]
  /\ Goto(t, "head")

\* Mutant: a break ends the loop over the items of the page only.
StopPage(t) == Follow(t) /\ stopped' = [stopped EXCEPT ![t] = TRUE]

\* yield returned false: the iterator returns.
Stop(t) ==
  /\ Goto(t, "done")
  /\ stopped' = [stopped EXCEPT ![t] = TRUE]
  /\ UNCHANGED <<next, first>>

\* Mutant: the items of the last page replace the others.
Replaced(t) == page[t].value

Gathered(t) == got[t] \o page[t].value

\* A loop over Pages gets a page and may break.
PagesBody(t) ==
  /\ pc[t] = "body" /\ kind[t] = "pages"
  /\ got' = [got EXCEPT ![t] = Gathered(t)]
  /\ \/ Follow(t) /\ UNCHANGED stopped
     \/ Stop(t)
  /\ UNCHANGED <<site, maxPages, kind, seen, pages, page, index, link, err>>

\* Delta appends the page and remembers its deltaLink if it has one.
DeltaBody(t) ==
  /\ pc[t] = "body" /\ kind[t] = "delta"
  /\ got' = [got EXCEPT ![t] = Gathered(t)]
  /\ link' = IF page[t].delta # None THEN [link EXCEPT ![t] = page[t].delta] ELSE link
  /\ Follow(t)
  /\ UNCHANGED <<site, maxPages, kind, seen, pages, page, index, err, stopped>>

\* Items yields the items of the page one by one.  A loop over Items may break
\* after each, Collect never does, First always does.
ItemsBody(t) ==
  /\ pc[t] = "body" /\ kind[t] \in {"items", "collect", "first"}
  /\ \/ /\ index[t] = Len(page[t].value)
        /\ Follow(t) /\ UNCHANGED <<index, got, stopped>>
     \/ /\ index[t] < Len(page[t].value)
        /\ index' = [index EXCEPT ![t] = @ + 1]
        /\ got' = [got EXCEPT ![t] = Append(@, page[t].value[index[t] + 1])]
        /\ \/ kind[t] # "first" /\ UNCHANGED <<pc, next, first, stopped>>
           \/ kind[t] # "collect" /\ Stop(t)
  /\ UNCHANGED <<site, maxPages, kind, seen, pages, page, link, err>>

Step(t) == NextPage(t) \/ Fetch(t) \/ PagesBody(t) \/ ItemsBody(t) \/ DeltaBody(t)

Next == \E t \in Traversals : BeginRange(t) \/ Step(t)

Spec == Init /\ [][Next]_vars

\* Client.Get returns (Client's EveryCallReturns), and consumers do not block.
FairSpec == Spec /\ \A t \in Traversals : WF_vars(Step(t))

-----------------------------------------------------------------------------
\* The reference: the walk along the nextLinks of the collection, and the items
\* of its first n pages.
LinkAt[n \in Nat] ==
  IF n = 0 THEN Path
  ELSE IF LinkAt[n - 1] = None THEN None
  ELSE site[LinkAt[n - 1]].next

ItemsOf[n \in Nat] ==
  IF n = 0 THEN << >>
  ELSE IF LinkAt[n - 1] = None THEN ItemsOf[n - 1]
  ELSE ItemsOf[n - 1] \o site[LinkAt[n - 1]].value

\* Whatever the consumer is given, it is given in the order the service keeps
\* it, without a gap and without an item yielded twice: what it has is a prefix
\* of the items of the pages fetched so far.
InOrder ==
  \A t \in Traversals :
    /\ Len(got[t]) <= Len(ItemsOf[pages[t]])
    /\ got[t] = SubSeq(ItemsOf[pages[t]], 1, Len(got[t]))

\* A traversal that ends without an error and without a break gave everything:
\* the walk is at its end, and Delta "returns the changed items together with
\* the deltaLink from the final page" (iterate.go:95), whatever links came
\* before, unless an answer without a body ended it: that decodes into a page
\* without links (client.go:535), and is the one way for Delta to have no link.
\* One that fails says why truthfully: a repeated link is one the walk passed
\* before, the bound, which is never passed, is reported only when a page beyond
\* it exists, a request is never refused for the way its link is spelled, and
\* everything before the failure was given.  It is true of every range over the
\* iterator, first or later, concurrent or not.
EndsTruthfully ==
  \A t \in Traversals : pc[t] = "done" /\ ~stopped[t] =>
    /\ maxPages > 0 => pages[t] <= maxPages
    /\ \/ /\ err[t] = "none" /\ EmptyAnswers /\ page[t] = ZeroPage
          /\ got[t] = ItemsOf[pages[t] - 1]
       \/ /\ err[t] = "none" /\ LinkAt[pages[t]] = None /\ got[t] = ItemsOf[pages[t]]
          /\ LET final == site[LinkAt[pages[t] - 1]].delta IN
             kind[t] = "delta" /\ final # None => link[t] = final
       \/ /\ err[t] = "cycle" /\ got[t] = ItemsOf[pages[t]]
          /\ \E i \in 0 .. pages[t] - 1 : LinkAt[i] = LinkAt[pages[t]]
       \/ /\ err[t] = "max pages" /\ got[t] = ItemsOf[pages[t]]
          /\ pages[t] = maxPages /\ LinkAt[pages[t]] # None
       \/ err[t] = "get" /\ pages[t] > 0 /\ got[t] = ItemsOf[pages[t] - 1]

\* A consumer that has broken out of its loop is not called again, and costs no
\* further request (yield after a break is a run-time panic).
BreakIsFinal ==
  [][\A t \in Traversals : stopped[t] => UNCHANGED <<pages[t], got[t], err[t]>>]_vars

\* Every traversal ends, on a collection that loops too, with and without a
\* bound on its pages.
TraversalEnds == \A t \in Traversals : pc[t] = "head" ~> pc[t] = "done"

=============================================================================
