-------------------------- MODULE GraphmockProofs --------------------------
(***************************************************************************)
(* graphmock.  What a server records, for every number of calls, every     *)
(* scenario and every interleaving of its handlers with the test and its   *)
(* Resets; that a client reads under one permission and writes under       *)
(* another; that a client which follows the links of a channel misses      *)
(* nothing; and the scan of a filter, which reports nothing inside the     *)
(* body of a lambda, for any filters, and just the fields of the           *)
(* expression, for any filters that the constructors build.                *)
(***************************************************************************)
EXTENDS MockServer, FilterScan, Filter, SequenceTheorems, WellFoundedInduction, TLAPS

\* Where the handler of a call is from the moment the call is recorded.
Handling == {"enforce", "respond", "answered"}

Queries == {r.query : r \in UNION {s.requests : s \in Scenarios}}
Entry == [id : Calls, query : Queries]

Types ==
  /\ scenario \in Scenarios
  /\ DOMAIN pc = Calls /\ DOMAIN live = Calls /\ DOMAIN received = Calls /\ DOMAIN earlier = Calls
  /\ seen \in Seq(Entry)

\* Until it is recorded, no constraint has touched a request.
Untouched == \A c \in Calls : pc[c] = "arrived" => live[c] = received[c]
                                                   /\ live[c].query \in Queries

\* Answers are never taken back, so what was answered at a Send or a Reset still is.
AnswersLast == past \subseteq Answered /\ \A c \in Calls : earlier[c] \subseteq Answered

\* The records are of calls being handled or answered, and of all of them that
\* were sent since the last Reset.
Recording ==
  /\ \A i \in DOMAIN seen : pc[seen[i].id] \in Handling
  /\ \A c \in recent : c \in Calls /\ (pc[c] \in Handling => \E i \in DOMAIN seen : seen[i].id = c)

Forgotten == \A i \in DOMAIN seen : seen[i].id \notin past

Ordered ==
  \A i, j \in DOMAIN seen : i < j => seen[i].id # seen[j].id /\ seen[j].id \notin earlier[seen[i].id]

AsReceived == \A i \in DOMAIN seen : seen[i].query = received[seen[i].id].query

Inv == Types /\ Untouched /\ AnswersLast /\ Recording /\ Forgotten /\ Ordered /\ AsReceived

-----------------------------------------------------------------------------
LEMMA RecordedCalls == ASSUME Types PROVE \A i \in DOMAIN seen : seen[i].id \in Calls
<1> SUFFICES ASSUME NEW i \in DOMAIN seen PROVE seen[i].id \in Calls
  OBVIOUS
<1>1. seen[i] \in Entry
  BY DEF Types
<1> QED BY <1>1, Zenon DEF Entry

LEMMA InitInv == Init => Inv
<1> SUFFICES ASSUME Init PROVE Inv
  OBVIOUS
<1>1. seen = << >> /\ DOMAIN seen = {} /\ recent = {} /\ past = {}
  BY DEF Init
<1>2. Types
  BY DEF Init, Types
<1>3. Untouched
  BY DEF Init, Untouched
<1>4. AnswersLast
  BY DEF Init, AnswersLast
<1>5. Recording /\ Forgotten /\ Ordered /\ AsReceived
  BY <1>1 DEF Recording, Forgotten, Ordered, AsReceived
<1> QED BY <1>2, <1>3, <1>4, <1>5 DEF Inv

\* What a step of a handler does that neither begins a call nor records it.
Onward(c) ==
  /\ UNCHANGED <<scenario, received, seen, earlier, past, recent>>
  /\ DOMAIN pc' = Calls /\ DOMAIN live' = Calls
  /\ \A d \in Calls \ {c} : pc'[d] = pc[d] /\ live'[d] = live[d]
  /\ pc[c] \notin {"unsent", "answered", "not found"} /\ pc'[c] # "arrived"
  /\ pc'[c] \in Handling <=> pc[c] \in Handling

LEMMA HandlersGoOnward ==
  ASSUME Types, NEW c \in Calls,
         NotFound(c) \/ BodyBreaks(c) \/ Enforce(c) \/ Handle(c) \/ Respond(c)
  PROVE  Onward(c)
<1> USE DEF Types, Onward, Goto, Handling
<1>1. CASE NotFound(c)
  BY <1>1 DEF NotFound
<1>2. CASE BodyBreaks(c)
  BY <1>2 DEF BodyBreaks
<1>3. CASE Enforce(c)
  BY <1>3 DEF Enforce
<1>4. CASE Handle(c)
  BY <1>4 DEF Handle
<1>5. CASE Respond(c)
  BY <1>5 DEF Respond
<1> QED BY <1>1, <1>2, <1>3, <1>4, <1>5

LEMMA OnwardKeeps == ASSUME Inv, NEW c \in Calls, Onward(c) PROVE Inv'
<1> USE DEF Inv, Onward
<1>1. Types'
  BY DEF Types
<1>2. Untouched'
  BY DEF Untouched
<1>3. Answered \subseteq Answered'
  BY DEF Answered
<1>4. AnswersLast'
  BY <1>3 DEF AnswersLast
<1>5. Recording'
  <2>1. \A d \in Calls : pc'[d] \in Handling <=> pc[d] \in Handling
    OBVIOUS
  <2>2. \A i \in DOMAIN seen : seen[i].id \in Calls
    BY RecordedCalls
  <2> QED BY <2>1, <2>2 DEF Recording
<1>6. Forgotten' /\ Ordered' /\ AsReceived'
  BY DEF Forgotten, Ordered, AsReceived
<1> QED BY <1>1, <1>2, <1>4, <1>5, <1>6

-----------------------------------------------------------------------------
LEMMA SendKeeps == ASSUME Inv, NEW c \in Calls, Send(c) PROVE Inv'
<1> USE DEF Inv, Goto
<1>1. /\ pc[c] = "unsent" /\ pc' = [pc EXCEPT ![c] = "arrived"]
      /\ earlier' = [earlier EXCEPT ![c] = Answered] /\ recent' = recent \cup {c}
      /\ UNCHANGED <<scenario, seen, past>>
  BY DEF Send
<1>2. PICK r \in scenario.requests :
        live' = [live EXCEPT ![c] = r] /\ received' = [received EXCEPT ![c] = r]
  BY DEF Send
<1>3. \A i \in DOMAIN seen : seen[i].id \in Calls /\ seen[i].id # c
  BY <1>1, RecordedCalls DEF Recording, Handling
<1>4. Types'
  BY <1>1, <1>2 DEF Types
<1>5. r.query \in Queries
  BY <1>2 DEF Types, Queries
<1>6. Untouched'
  BY <1>1, <1>2, <1>5 DEF Types, Untouched
<1>7. Answered' = Answered
  BY <1>1 DEF Types, Answered
<1>8. AnswersLast'
  BY <1>1, <1>7 DEF Types, AnswersLast
<1>9. Recording'
  BY <1>1, <1>3 DEF Types, Recording, Handling
<1>10. Forgotten' /\ AsReceived'
  BY <1>1, <1>2, <1>3 DEF Types, Forgotten, AsReceived
<1>11. Ordered'
  BY <1>1, <1>3 DEF Types, Ordered
<1> QED BY <1>4, <1>6, <1>8, <1>9, <1>10, <1>11

LEMMA RecordKeeps == ASSUME Inv, NEW c \in Calls, Record(c) PROVE Inv'
<1> DEFINE entry == [id |-> c, query |-> live[c].query]
           n == Len(seen)
<1> USE DEF Inv, Goto
<1>1. /\ pc[c] = "arrived" /\ pc' = [pc EXCEPT ![c] = "enforce"] /\ seen' = Append(seen, entry)
      /\ UNCHANGED <<scenario, live, received, earlier, past, recent>>
  BY DEF Record, Recorded
<1>2. entry \in Entry /\ entry.id = c /\ entry.query = received[c].query
  BY <1>1 DEF Entry, Untouched
<1> HIDE DEF entry
<1>3. /\ seen' \in Seq(Entry) /\ n \in Nat /\ DOMAIN seen = 1 .. n /\ DOMAIN seen' = 1 .. n + 1
      /\ seen'[n + 1] = entry /\ \A i \in 1 .. n : seen'[i] = seen[i] /\ seen[i] \in Entry
  BY <1>1, <1>2 DEF Types
<1> HIDE DEF n
<1>4. \A i \in 1 .. n : seen[i].id \in Calls /\ seen[i].id # c
  BY <1>1, <1>3 DEF Entry, Recording, Handling
<1>5. Types'
  BY <1>1, <1>3 DEF Types
<1>6. Untouched'
  BY <1>1 DEF Types, Untouched
<1>7. Answered' = Answered /\ c \notin Answered
  BY <1>1 DEF Types, Answered
<1>8. AnswersLast'
  BY <1>1, <1>7 DEF AnswersLast
<1>9. Recording'
  <2>1. \A i \in DOMAIN seen' : pc'[seen'[i].id] \in Handling
    BY <1>1, <1>2, <1>3, <1>4 DEF Types, Recording, Handling
  <2>2. ASSUME NEW d \in recent, pc'[d] \in Handling PROVE \E i \in DOMAIN seen' : seen'[i].id = d
    <3>1. CASE d = c
      BY <1>2, <1>3, <3>1
    <3>2. CASE d # c
      <4>1. PICK i \in 1 .. n : seen[i].id = d
        BY <1>1, <1>3, <2>2, <3>2 DEF Types, Recording
      <4> QED BY <1>3, <4>1
    <3> QED BY <3>1, <3>2
  <2> QED BY <1>1, <2>1, <2>2 DEF Recording
<1>10. Forgotten'
  BY <1>1, <1>2, <1>3, <1>7 DEF Forgotten, AnswersLast
<1>11. AsReceived'
  BY <1>1, <1>2, <1>3 DEF AsReceived
<1>12. Ordered'
  <2> SUFFICES ASSUME NEW i \in 1 .. n + 1, NEW j \in 1 .. n + 1, i < j
               PROVE  seen'[i].id # seen'[j].id /\ seen'[j].id \notin earlier[seen'[i].id]
    BY <1>1, <1>3 DEF Ordered
  <2>1. i \in 1 .. n
    BY <1>3
  <2>2. CASE j \in 1 .. n
    BY <1>3, <2>1, <2>2 DEF Ordered
  <2>3. CASE j = n + 1
    BY <1>2, <1>3, <1>4, <1>7, <2>1, <2>3 DEF AnswersLast
  <2> QED BY <1>3, <2>2, <2>3
<1> QED BY <1>5, <1>6, <1>8, <1>9, <1>10, <1>11, <1>12

LEMMA ResetKeeps == ASSUME Inv, Reset PROVE Inv'
<1> USE DEF Inv
<1>1. /\ seen' = << >> /\ DOMAIN seen' = {} /\ past' = Answered /\ recent' = {}
      /\ UNCHANGED <<scenario, pc, live, received, earlier>>
  BY DEF Reset
<1>2. Types'
  BY <1>1 DEF Types
<1>3. Untouched' /\ AnswersLast'
  BY <1>1 DEF Untouched, AnswersLast, Answered
<1>4. Recording' /\ Forgotten' /\ Ordered' /\ AsReceived'
  BY <1>1 DEF Recording, Forgotten, Ordered, AsReceived
<1> QED BY <1>2, <1>3, <1>4

LEMMA StepInv == Inv /\ [Next]_vars => Inv'
<1> SUFFICES ASSUME Inv, [Next]_vars PROVE Inv'
  OBVIOUS
<1>1. CASE UNCHANGED vars
  BY <1>1 DEF vars, Inv, Types, Untouched, AnswersLast, Answered, Recording, Forgotten, Ordered, AsReceived
<1>2. CASE Reset
  BY <1>2, ResetKeeps
<1>3. ASSUME NEW c \in Calls, Send(c) PROVE Inv'
  BY <1>3, SendKeeps
<1>4. ASSUME NEW c \in Calls, Record(c) PROVE Inv'
  BY <1>4, RecordKeeps
<1>5. ASSUME NEW c \in Calls, NotFound(c) \/ BodyBreaks(c) \/ Enforce(c) \/ Handle(c) \/ Respond(c)
      PROVE  Inv'
  BY <1>5, HandlersGoOnward, OnwardKeeps DEF Inv
<1> QED BY <1>1, <1>2, <1>3, <1>4, <1>5 DEF Next

THEOREM Invariance == Spec => []Inv
<1> QED BY InitInv, StepInv, PTL DEF Spec

\* Requests gives the calls in the order the server received them, each once, none
\* from before the last Reset and all that were answered since, with the options
\* they came with (graphmock.go:103).
THEOREM RecordsExact == Spec => []RecordsAreExact
<1>1. Inv => RecordsAreExact
  <2> SUFFICES ASSUME Inv PROVE RecordsAreExact
    OBVIOUS
  <2>1. \A c \in recent : pc[c] = "answered" => c \in Ids
    BY DEF Inv, Recording, Handling, Ids
  <2>2. past \cap Ids = {}
    BY DEF Inv, Forgotten, Ids
  <2> QED BY <2>1, <2>2 DEF Inv, Ordered, AsReceived, RecordsAreExact
<1> QED BY <1>1, Invariance, PTL

-----------------------------------------------------------------------------
\* What judges a request, whatever the constraints of the server and their order.
InPath(d, r) == IF d.segment = "query" THEN SearchPath(r.path) ELSE HasSegment(r.path, {d.segment})

\* A constraint that rewrites has nothing left to rewrite.
Settled(d, r) ==
  /\ d.is = "IgnoreMismatchedMessageFilter"
       => ~(MessagePath(r.path) /\ Filtered(r.query) /\ ~FilterIsServed(r.query))
  /\ d.is = "CapTop" => ~(InPath(d, r) /\ r.query.top > d.max)
  /\ d.is = "CapPageSize" => ~(r.prefer.page > d.max)

Passes(d, r) == ~Refuses(d, r) /\ Settled(d, r)

\* Rewriting asks for less: a filter goes, a number falls, the rest is as it was.
AsksForLess(q, p) ==
  /\ q.filter = p.filter \/ q.filter = NoFilter
  /\ q.top <= p.top
  /\ q.orderby = p.orderby /\ q.select = p.select /\ q.expand = p.expand
  /\ q.start = p.start /\ q.end = p.end

Softer(s, r) ==
  /\ s.method = r.method /\ s.path = r.path /\ s.auth = r.auth /\ s.match = r.match /\ s.body = r.body
  /\ s.prefer.page <= r.prefer.page
  /\ AsksForLess(s.query, r.query) /\ AsksForLess(s.raw, r.raw)

Arrived(r) == IsRequest(r) /\ r.query = r.raw

Numbered(d) == d.is \in {"CapTop", "CapPageSize"} => d.max \in Int

LEMMA SettledIsKept ==
  ASSUME NEW d, NEW r, Settled(d, r)
  PROVE  Rewritten(d, r) = r
BY DEF Settled, InPath, Rewritten, IgnoreMismatchedMessageFilter, CapTop, CapPageSize

\* Of a request that comes with what it asks for in both places, and of the options
\* of it that are set.
LEMMA QuerySet ==
  ASSUME NEW r, Arrived(r), NEW q, DOMAIN q = DOMAIN Options, q.top \in Int, AsksForLess(q, r.query)
  PROVE  LET s == [r EXCEPT !.query = q, !.raw = q]
         IN  Arrived(s) /\ Softer(s, r) /\ s.query = q /\ s.path = r.path
BY DEF Arrived, IsRequest, Softer

LEMMA NothingAsked == ASSUME NEW r, Arrived(r) PROVE Softer(r, r)
BY DEF Arrived, IsRequest, Softer, AsksForLess

\* What each constraint leaves of a request.
LEMMA RewrittenIsSofter ==
  ASSUME NEW r, Arrived(r), NEW c, Numbered(c)
  PROVE  Arrived(Rewritten(c, r)) /\ Softer(Rewritten(c, r), r) /\ Settled(c, Rewritten(c, r))
<1> DEFINE s == Rewritten(c, r)
<1>1. CASE c.is = "IgnoreMismatchedMessageFilter"
  <2> DEFINE q == [r.query EXCEPT !.filter = NoFilter]
             t == [r EXCEPT !.query = q, !.raw = q]
             mismatched == MessagePath(r.path) /\ Filtered(r.query) /\ ~FilterIsServed(r.query)
  <2>1. s = IF mismatched THEN t ELSE r
    <3>1. s = IgnoreMismatchedMessageFilter(r)
      BY <1>1 DEF Rewritten
    <3>2. [r EXCEPT !.query.filter = NoFilter, !.raw.filter = NoFilter] = t
      BY DEF Arrived, IsRequest
    <3> QED BY <3>1, <3>2 DEF IgnoreMismatchedMessageFilter
  <2>2. DOMAIN q = DOMAIN Options /\ q.top \in Int /\ q.filter = NoFilter /\ AsksForLess(q, r.query)
    BY DEF Arrived, IsRequest, Options, AsksForLess
  <2>3. Arrived(t) /\ Softer(t, r) /\ t.query = q
    <3> HIDE DEF q
    <3> QED BY <2>2, QuerySet
  <2>4. CASE mismatched
    <3>1. Settled(c, t)
      <4> HIDE DEF t, q
      <4> QED BY <1>1, <2>2, <2>3 DEF Settled, Filtered
    <3> HIDE DEF t
    <3> QED BY <2>1, <2>3, <2>4, <3>1
  <2>5. CASE ~mismatched
    <3>1. Settled(c, r)
      BY <1>1, <2>5 DEF Settled
    <3> HIDE DEF t
    <3> QED BY <2>1, <2>5, <3>1, NothingAsked
  <2> QED BY <2>4, <2>5
<1>2. CASE c.is = "CapTop"
  <2> DEFINE q == [r.query EXCEPT !.top = c.max]
             t == [r EXCEPT !.query = q, !.raw = q]
             excessive == InPath(c, r) /\ r.query.top > c.max
  <2>1. s = IF excessive THEN t ELSE r
    <3>1. s = CapTop(r, InPath(c, r), c.max)
      BY <1>2 DEF Rewritten, InPath
    <3>2. [r EXCEPT !.query.top = c.max, !.raw.top = c.max] = t
      BY DEF Arrived, IsRequest
    <3> QED BY <3>1, <3>2 DEF CapTop
  <2>2. c.max \in Int
    BY <1>2 DEF Numbered
  <2>3. DOMAIN q = DOMAIN Options /\ q.top = c.max
    BY DEF Arrived, IsRequest, Options
  <2>4. CASE excessive
    <3>1. AsksForLess(q, r.query)
      BY <2>2, <2>4 DEF Arrived, IsRequest, Options, AsksForLess
    <3>2. Arrived(t) /\ Softer(t, r) /\ t.query = q
      <4> HIDE DEF q
      <4> QED BY <2>2, <2>3, <3>1, QuerySet
    <3>3. Settled(c, t)
      <4> HIDE DEF t, q
      <4> QED BY <1>2, <2>2, <2>3, <3>2 DEF Settled
    <3> HIDE DEF t
    <3> QED BY <2>1, <2>4, <3>2, <3>3
  <2>5. CASE ~excessive
    <3>1. Settled(c, r)
      BY <1>2, <2>5 DEF Settled
    <3> HIDE DEF t
    <3> QED BY <2>1, <2>5, <3>1, NothingAsked
  <2> QED BY <2>4, <2>5
<1>3. CASE c.is = "CapPageSize"
  <2> DEFINE t == [r EXCEPT !.prefer = [page |-> c.max, others |-> {}]]
  <2>1. s = IF r.prefer.page > c.max THEN t ELSE r
    BY <1>3 DEF Rewritten, CapPageSize
  <2>2. c.max \in Int
    BY <1>3 DEF Numbered
  <2>3. CASE r.prefer.page > c.max
    <3>1. Arrived(t) /\ t.prefer.page = c.max /\ t.query = r.query /\ t.raw = r.raw
      BY <2>2 DEF Arrived, IsRequest
    <3>2. /\ t.method = r.method /\ t.path = r.path /\ t.auth = r.auth /\ t.match = r.match
          /\ t.body = r.body
      BY DEF Arrived, IsRequest
    <3>3. Softer(t, r)
      <4>1. Softer(r, r) /\ r.prefer.page \in Int
        BY NothingAsked DEF Arrived, IsRequest
      <4> HIDE DEF t
      <4> QED BY <2>2, <2>3, <3>1, <3>2, <4>1 DEF Softer
    <3>4. Settled(c, t)
      <4> HIDE DEF t
      <4> QED BY <1>3, <2>2, <3>1 DEF Settled
    <3> HIDE DEF t
    <3> QED BY <2>1, <2>3, <3>1, <3>3, <3>4
  <2>4. CASE ~(r.prefer.page > c.max)
    <3>1. Settled(c, r)
      BY <1>3, <2>4 DEF Settled
    <3> HIDE DEF t
    <3> QED BY <2>1, <2>4, <3>1, NothingAsked
  <2> QED BY <2>3, <2>4
<1>4. CASE c.is \notin {"IgnoreMismatchedMessageFilter", "CapTop", "CapPageSize"}
  BY <1>4, NothingAsked DEF Rewritten, Settled
<1> QED BY <1>1, <1>2, <1>3, <1>4

\* Who asks for less is not refused for it.
LEMMA SofterIsAccepted ==
  ASSUME NEW r, NEW s, Softer(s, r), NEW d
  PROVE  Refuses(d, s) => Refuses(d, r)
<1> DEFINE gone == s.query.filter = NoFilter
<1>1. /\ s.path = r.path /\ s.method = r.method /\ s.auth = r.auth /\ s.match = r.match
      /\ s.body = r.body
      /\ s.query.filter = r.query.filter \/ gone
      /\ s.query.orderby = r.query.orderby /\ s.query.select = r.query.select
      /\ s.raw.filter = r.raw.filter \/ s.raw.filter = NoFilter
      /\ s.raw.orderby = r.raw.orderby /\ s.raw.select = r.raw.select
      /\ s.raw.expand = r.raw.expand /\ s.raw.start = r.raw.start /\ s.raw.end = r.raw.end
  BY DEF Softer, AsksForLess
<1>2. 1 .. Len(NoFilter) - 1 = {} /\ DOMAIN NoFilter = {}
  BY DEF NoFilter
<1>3. RejectUnsupportedFilterFunctions(s) => RejectUnsupportedFilterFunctions(r)
  BY <1>1, <1>2 DEF RejectUnsupportedFilterFunctions
<1>4. RejectRecipientLambdas(s) => RejectRecipientLambdas(r)
  BY <1>1, <1>2 DEF RejectRecipientLambdas
<1>5. RequireSortableFilter(s) => RequireSortableFilter(r)
  BY <1>1 DEF RequireSortableFilter, Filtered
<1>6. RequireCalendarWindow(s) => RequireCalendarWindow(r)
  BY <1>1 DEF RequireCalendarWindow
<1>7. RejectFilterOnCalendarView(s) => RejectFilterOnCalendarView(r)
  BY <1>1, <1>2 DEF RejectFilterOnCalendarView
<1>8. RequireRuleSequence(s) => RequireRuleSequence(r)
  BY <1>1 DEF RequireRuleSequence
<1>9. RequireAllDayAtMidnight(s) => RequireAllDayAtMidnight(r)
  BY <1>1 DEF RequireAllDayAtMidnight
<1>10. RejectUnsupportedChannelMessageOptions(s) => RejectUnsupportedChannelMessageOptions(r)
  BY <1>1 DEF RejectUnsupportedChannelMessageOptions, Filtered
<1>11. RejectAscendingMessageSort(s) => RejectAscendingMessageSort(r)
  BY <1>1 DEF RejectAscendingMessageSort
<1>12. RejectUnsupportedMessageSortProperty(s) => RejectUnsupportedMessageSortProperty(r)
  BY <1>1 DEF RejectUnsupportedMessageSortProperty
<1>13. RejectSelectOnMessages(s) => RejectSelectOnMessages(r)
  BY <1>1 DEF RejectSelectOnMessages
<1>14. RejectSearchSort(s) => RejectSearchSort(r)
  BY <1>1 DEF RejectSearchSort
<1>15. RequireSearchEntityTypes(s) => RequireSearchEntityTypes(r)
  BY <1>1 DEF RequireSearchEntityTypes
<1>16. RequireScopes(s, d.granted) => RequireScopes(r, d.granted)
  BY <1>1 DEF RequireScopes
<1> QED BY <1>1, <1>3, <1>4, <1>5, <1>6, <1>7, <1>8, <1>9, <1>10, <1>11, <1>12, <1>13, <1>14, <1>15,
           <1>16 DEF Refuses

\* Nor is there anything more to rewrite.
LEMMA SofterStaysSettled ==
  ASSUME NEW r, NEW s, Arrived(r), Arrived(s), Softer(s, r), NEW d, Numbered(d), Settled(d, r)
  PROVE  Settled(d, s)
<1>1. ASSUME d.is = "IgnoreMismatchedMessageFilter", MessagePath(s.path), Filtered(s.query)
      PROVE  FilterIsServed(s.query)
  <2>1. /\ s.path = r.path /\ s.query.orderby = r.query.orderby
        /\ s.query.filter = r.query.filter \/ s.query.filter = NoFilter
    BY DEF Softer, AsksForLess
  <2>2. s.query.filter = r.query.filter
    BY <1>1, <2>1 DEF Filtered
  <2>3. FilterIsServed(r.query)
    BY <1>1, <2>1, <2>2 DEF Settled, Filtered
  <2> QED BY <2>1, <2>2, <2>3 DEF FilterIsServed
<1>2. ASSUME d.is = "CapTop", InPath(d, s) PROVE ~(s.query.top > d.max)
  <2>1. s.query.top \in Int /\ r.query.top \in Int /\ s.query.top <= r.query.top /\ d.max \in Int
    BY <1>2 DEF Arrived, IsRequest, Softer, AsksForLess, Numbered
  <2>2. ~(r.query.top > d.max)
    BY <1>2 DEF Softer, Settled, InPath
  <2> QED BY <2>1, <2>2
<1>3. ASSUME d.is = "CapPageSize" PROVE ~(s.prefer.page > d.max)
  <2>1. s.prefer.page \in Int /\ r.prefer.page \in Int /\ s.prefer.page <= r.prefer.page /\ d.max \in Int
    BY <1>3 DEF Arrived, IsRequest, Softer, Numbered
  <2>2. ~(r.prefer.page > d.max)
    BY <1>3 DEF Settled
  <2> QED BY <2>1, <2>2
<1> QED BY <1>1, <1>2, <1>3 DEF Settled

\* The constraints before the one that is next let the request through, as it has
\* become since, and leave it alone.
Judged(c) ==
  /\ at[c] \in 1 .. Len(scenario.constraints) + 1
  /\ pc[c] = "unsent" => at[c] = 1
  /\ given[c] \notin {NoResponse, Fault} => at[c] > Len(scenario.constraints) /\ pc[c] # "unsent"
  /\ pc[c] # "unsent" =>
       Arrived(live[c]) /\ \A i \in 1 .. at[c] - 1 : Passes(scenario.constraints[i], live[c])

Judging ==
  /\ scenario \in Scenarios
  /\ DOMAIN pc = Calls /\ DOMAIN live = Calls /\ DOMAIN at = Calls /\ DOMAIN given = Calls
  /\ \A c \in Calls : Judged(c)

LEMMA InitJudging == Init => Judging
<1> SUFFICES ASSUME Init, NEW c \in Calls PROVE Judged(c)
  BY DEF Init, Judging
<1>1. Len(scenario.constraints) \in Nat
  BY ScenarioAssumption DEF Init
<1> QED BY <1>1 DEF Init, Judged

\* Every step of a handler is its own.
LEMMA StepsOfOne ==
  ASSUME Judging, NEW c \in Calls,
         Send(c) \/ NotFound(c) \/ BodyBreaks(c) \/ Record(c) \/ Enforce(c) \/ Handle(c) \/ Respond(c)
  PROVE  /\ scenario' = scenario
         /\ DOMAIN pc' = Calls /\ DOMAIN live' = Calls /\ DOMAIN at' = Calls /\ DOMAIN given' = Calls
         /\ \A d \in Calls \ {c} :
              pc'[d] = pc[d] /\ live'[d] = live[d] /\ at'[d] = at[d] /\ given'[d] = given[d]
<1> USE DEF Judging, Goto
<1>1. CASE Send(c)
  BY <1>1 DEF Send
<1>2. CASE NotFound(c)
  BY <1>2 DEF NotFound
<1>3. CASE BodyBreaks(c)
  BY <1>3 DEF BodyBreaks
<1>4. CASE Record(c)
  BY <1>4 DEF Record
<1>5. CASE Enforce(c)
  BY <1>5 DEF Enforce
<1>6. CASE Handle(c)
  BY <1>6 DEF Handle
<1>7. CASE Respond(c)
  BY <1>7 DEF Respond
<1> QED BY <1>1, <1>2, <1>3, <1>4, <1>5, <1>6, <1>7

LEMMA SendJudged == ASSUME Judging, NEW c \in Calls, Send(c) PROVE Judged(c)'
<1>1. PICK r \in scenario.requests : live' = [live EXCEPT ![c] = r]
  BY DEF Send
<1>2. live'[c] = r /\ pc[c] = "unsent" /\ UNCHANGED <<scenario, at, given>> /\ pc'[c] = "arrived"
  BY <1>1 DEF Send, Goto, Judging
<1>3. Arrived(r)
  BY ScenarioAssumption DEF Judging, Arrived
<1>4. Judged(c)
  BY DEF Judging
<1> QED BY <1>2, <1>3, <1>4 DEF Judged

LEMMA EnforceJudged == ASSUME Judging, NEW c \in Calls, Enforce(c) PROVE Judged(c)'
<1> DEFINE n == at[c]
           r == live[c]
           d == scenario.constraints[n]
<1>1. pc[c] = "enforce" /\ ~Exhausted(c) /\ scenario' = scenario /\ Judged(c)
  BY DEF Enforce, Judging
<1>2. /\ Len(scenario.constraints) \in Nat /\ n \in 1 .. Len(scenario.constraints)
      /\ \A i \in 1 .. Len(scenario.constraints) : Numbered(scenario.constraints[i])
  <2>1. /\ Len(scenario.constraints) \in Nat
        /\ \A i \in 1 .. Len(scenario.constraints) : Numbered(scenario.constraints[i])
    BY ScenarioAssumption DEF Judging, Numbered
  <2> QED BY <1>1, <2>1 DEF Judged, Exhausted
<1>3. Arrived(r) /\ \A i \in 1 .. n - 1 : Passes(scenario.constraints[i], r)
  BY <1>1 DEF Judged
<1>4. CASE Refuses(d, r)
  <2>1. pc'[c] = "respond" /\ given'[c] = Fault /\ live' = live /\ at' = at
    BY <1>4 DEF Enforce, Goto, Judging
  <2> QED BY <1>1, <1>3, <2>1 DEF Judged
<1>5. CASE ~Refuses(d, r)
  <2> DEFINE s == Rewritten(d, r)
  <2>1. live'[c] = s /\ at'[c] = n + 1 /\ pc' = pc /\ given' = given
    BY <1>5 DEF Enforce, Judging
  <2>2. Numbered(d)
    BY <1>2
  <2>3. Arrived(s) /\ Softer(s, r) /\ Settled(d, s)
    <3> HIDE DEF d, r
    <3> QED BY <1>3, <2>2, RewrittenIsSofter
  <2>4. ~Refuses(d, s)
    BY <1>5, <2>3, SofterIsAccepted
  <2>5. ASSUME NEW i \in 1 .. (n + 1) - 1 PROVE Passes(scenario.constraints[i], s)
    <3>1. CASE i = n
      BY <2>3, <2>4, <3>1 DEF Passes
    <3>2. CASE i # n
      <4> DEFINE e == scenario.constraints[i]
      <4>1. i \in 1 .. n - 1 /\ i \in 1 .. Len(scenario.constraints)
        BY <1>2, <3>2
      <4>2. ~Refuses(e, r) /\ Settled(e, r) /\ Numbered(e)
        BY <1>2, <1>3, <4>1 DEF Passes
      <4> HIDE DEF e, s, r
      <4>3. ~Refuses(e, s) /\ Settled(e, s)
        BY <1>3, <2>3, <4>2, SofterIsAccepted, SofterStaysSettled
      <4> QED BY <4>3 DEF Passes, e
    <3> QED BY <3>1, <3>2
  <2>6. given[c] \in {NoResponse, Fault}
    BY <1>1, <1>2 DEF Judged
  <2>7. n + 1 \in 1 .. Len(scenario.constraints) + 1 /\ (n + 1) - 1 = n
    BY <1>2
  <2>8. /\ at'[c] = n + 1 /\ scenario' = scenario /\ pc'[c] # "unsent"
        /\ given'[c] \in {NoResponse, Fault} /\ live'[c] = s
    BY <1>1, <2>1, <2>6
  <2> HIDE DEF s, d, n
  <2>9. \A i \in 1 .. at'[c] - 1 : Passes(scenario'.constraints[i], live'[c])
    BY <2>5, <2>8
  <2>10. at'[c] \in 1 .. Len(scenario'.constraints) + 1
    BY <2>7, <2>8
  <2>11. Arrived(live'[c])
    BY <2>3, <2>8
  <2>12. Fault' = Fault
    BY DEF Fault
  <2> QED BY <2>8, <2>9, <2>10, <2>11, <2>12 DEF Judged
<1> QED BY <1>4, <1>5

LEMMA OtherwiseJudged ==
  ASSUME Judging, NEW c \in Calls,
         NotFound(c) \/ BodyBreaks(c) \/ Record(c) \/ Handle(c) \/ Respond(c)
  PROVE  Judged(c)'
<1>1. Judged(c)
  BY DEF Judging
<1>2. CASE NotFound(c) \/ BodyBreaks(c) \/ Record(c) \/ Respond(c)
  <2>1. UNCHANGED <<scenario, live, at, given>> /\ pc[c] # "unsent" /\ pc'[c] # "unsent"
    BY <1>2 DEF NotFound, BodyBreaks, Record, Respond, Goto, Judging
  <2> QED BY <1>1, <2>1 DEF Judged
<1>3. CASE Handle(c)
  <2>1. UNCHANGED <<scenario, live, at>> /\ pc[c] # "unsent" /\ pc'[c] # "unsent" /\ Exhausted(c)
    BY <1>3 DEF Handle, Goto, Judging
  <2> QED BY <1>1, <2>1 DEF Judged, Exhausted
<1> QED BY <1>2, <1>3

LEMMA StepJudging == Judging /\ [Next]_vars => Judging'
<1> SUFFICES ASSUME Judging, [Next]_vars PROVE Judging'
  OBVIOUS
<1>1. CASE UNCHANGED <<scenario, pc, live, at, given>>
  BY <1>1 DEF Judging, Judged
<1>2. ASSUME NEW c \in Calls,
             Send(c) \/ NotFound(c) \/ BodyBreaks(c) \/ Record(c) \/ Enforce(c) \/ Handle(c) \/ Respond(c)
      PROVE  Judging'
  <2>1. Judged(c)'
    BY <1>2, SendJudged, EnforceJudged, OtherwiseJudged
  <2>2. ASSUME NEW d \in Calls \ {c} PROVE Judged(d)'
    <3>1. Judged(d)
      BY DEF Judging
    <3> QED BY <1>2, <3>1, StepsOfOne DEF Judged
  <2> QED BY <1>2, <2>1, <2>2, StepsOfOne DEF Judging
<1>3. CASE UNCHANGED vars \/ Reset
  BY <1>1, <1>3 DEF vars, Reset
<1> QED BY <1>2, <1>3 DEF Next

\* A handler gets a request that every constraint of its server accepts and leaves
\* alone, in whatever order they stand and whatever they have rewritten, with one
\* spelling of its options (graphmock.go:13).
THEOREM HandlersGetAdmissible == Spec => []HandledIsAdmissible
<1>1. Judging => HandledIsAdmissible
  <2> SUFFICES ASSUME Judging, NEW c \in Reached
               PROVE  /\ \A i \in DOMAIN scenario.constraints :
                           /\ ~Refuses(scenario.constraints[i], live[c])
                           /\ Rewritten(scenario.constraints[i], live[c]) = live[c]
                      /\ live[c].query = live[c].raw
    BY DEF HandledIsAdmissible
  <2>1. c \in Calls /\ Judged(c)
    BY DEF Reached, Judging
  <2>2. /\ Len(scenario.constraints) \in Nat
        /\ DOMAIN scenario.constraints = 1 .. Len(scenario.constraints)
    BY ScenarioAssumption DEF Judging
  <2>3. at[c] > Len(scenario.constraints) /\ pc[c] # "unsent"
    BY <2>1 DEF Reached, Judged, Exhausted
  <2>4. Arrived(live[c]) /\ \A i \in DOMAIN scenario.constraints : Passes(scenario.constraints[i], live[c])
    BY <2>1, <2>2, <2>3 DEF Judged
  <2> QED BY <2>4, SettledIsKept DEF Passes, Arrived
<1> QED BY <1>1, InitJudging, StepJudging, PTL DEF Spec

-----------------------------------------------------------------------------
\* A permission to read and the one to change the same resource, groups aside, which
\* the table of stand-ins does not know.
Pairs == {<<Resource[name].read, Resource[name].write>> : name \in DOMAIN Resource \ {"groups"}}
           \cup {<<"Chat.Read", Resource.chat.write>>}
Changing == {Resource[name].write : name \in DOMAIN Resource \ {"groups"}}

LEMMA PairsStandIn ==
  ASSUME NEW read, NEW write, <<read, write>> \in Pairs, NEW granted, write \in granted
  PROVE  ScopeSatisfies(granted, read)
<1>1. \E e \in StandIns : e[1] = read /\ write \in e[2]
  <2>1. \/ read = "User.ReadBasic.All" /\ write = "User.ReadWrite.All"
        \/ read = "Mail.Read" /\ write = "Mail.ReadWrite"
        \/ read = "MailboxSettings.Read" /\ write = "MailboxSettings.ReadWrite"
        \/ read = "Calendars.Read" /\ write = "Calendars.ReadWrite"
        \/ read = "Tasks.Read" /\ write = "Tasks.ReadWrite"
        \/ read = "Contacts.Read" /\ write = "Contacts.ReadWrite"
        \/ read = "Files.Read" /\ write = "Files.ReadWrite"
        \/ read \in {"Chat.ReadBasic", "Chat.Read"} /\ write = "Chat.ReadWrite"
    BY DEF Pairs, Resource
  <2> QED BY <2>1 DEF StandIns
<1>2. write \in Accepted(read)
  BY <1>1 DEF Accepted
<1> QED BY <1>2 DEF ScopeSatisfies

\* The cases of the route table depend on the path alone; what each asks of a reader
\* is what stands beside the permission it asks of a writer.
LEMMA SpecialPairs ==
  ASSUME NEW path, NEW read \in BOOLEAN
  PROVE  /\ SpecialScopes(read, path) = {} <=> SpecialScopes(TRUE, path) = {}
         /\ \A w \in SpecialScopes(read, path) \cap Changing, s \in SpecialScopes(TRUE, path) :
              <<s, w>> \in Pairs
<1>1. SpecialScopes(read, path) = {} <=> SpecialScopes(TRUE, path) = {}
  BY DEF SpecialScopes
<1>2. ASSUME NEW w \in SpecialScopes(read, path) \cap Changing, NEW s \in SpecialScopes(TRUE, path)
      PROVE  <<s, w>> \in Pairs
  BY <1>2 DEF SpecialScopes, Changing, Pairs, Resource
<1> QED BY <1>1, <1>2

LEMMA TeamsPairs ==
  ASSUME NEW path, NEW read \in BOOLEAN
  PROVE  /\ TeamsScopes(read, path) = {} <=> TeamsScopes(TRUE, path) = {}
         /\ \A w \in TeamsScopes(read, path) \cap Changing, s \in TeamsScopes(TRUE, path) :
              <<s, w>> \in Pairs
<1>1. TeamsScopes(read, path) = {} <=> TeamsScopes(TRUE, path) = {}
  BY DEF TeamsScopes
<1>2. ASSUME NEW w \in TeamsScopes(read, path) \cap Changing, NEW s \in TeamsScopes(TRUE, path)
      PROVE  <<s, w>> \in Pairs
  BY <1>2 DEF TeamsScopes, ChatScope, TeamScope, Changing, Pairs, Resource
<1> QED BY <1>1, <1>2

\* The first of the plain routes that match decides, if one does.
Matching(path) == {i \in DOMAIN PlainRoutes : HasSegment(path, PlainRoutes[i].segments)}
PlainResources == {Resource.mail, Resource.calendar, Resource.contacts, Resource.files,
                   Resource.users, Resource.groups}

LEMMA PlainResource ==
  ASSUME NEW path, Matching(path) # {}
  PROVE  \E resource \in PlainResources : \A read \in BOOLEAN :
           PlainScopes(read, path) = {IF read THEN resource.read ELSE resource.write}
<1> DEFINE matching == Matching(path)
           first == CHOOSE i \in matching : \A j \in matching : i <= j
           resource == PlainRoutes[first].of
<1>1. DOMAIN PlainRoutes = 1 .. 6
  BY DEF PlainRoutes
<1>2. \E i \in matching : \A j \in matching : i <= j
  <2>1. matching \subseteq 1 .. 6
    BY <1>1 DEF Matching
  <2> HIDE DEF matching
  <2>2. \/ 1 \in matching \/ 2 \in matching \/ 3 \in matching \/ 4 \in matching
        \/ 5 \in matching \/ 6 \in matching
    <3>1. PICK i \in matching : TRUE
      BY DEF matching
    <3>2. i \in 1 .. 6
      BY <2>1, <3>1
    <3>3. i = 1 \/ i = 2 \/ i = 3 \/ i = 4 \/ i = 5 \/ i = 6
      BY <3>2
    <3> QED BY <3>1, <3>3
  <2>3. ASSUME NEW i \in matching, \A j \in matching : ~(j < i)
        PROVE  \E k \in matching : \A j \in matching : k <= j
    <3>1. \A j \in matching : i <= j
      BY <2>1, <2>3
    <3> QED BY <3>1
  <2>4. CASE 1 \in matching
    BY <2>1, <2>3, <2>4
  <2>5. CASE 1 \notin matching /\ 2 \in matching
    BY <2>1, <2>3, <2>5
  <2>6. CASE 1 \notin matching /\ 2 \notin matching /\ 3 \in matching
    BY <2>1, <2>3, <2>6
  <2>7. CASE {1, 2, 3} \cap matching = {} /\ 4 \in matching
    BY <2>1, <2>3, <2>7
  <2>8. CASE {1, 2, 3, 4} \cap matching = {} /\ 5 \in matching
    BY <2>1, <2>3, <2>8
  <2>9. CASE {1, 2, 3, 4, 5} \cap matching = {} /\ 6 \in matching
    BY <2>1, <2>3, <2>9
  <2> QED BY <2>2, <2>4, <2>5, <2>6, <2>7, <2>8, <2>9
<1>3. first \in 1 .. 6
  <2>1. matching \subseteq 1 .. 6
    BY <1>1 DEF Matching
  <2> HIDE DEF matching
  <2> QED BY <1>2, <2>1
<1>4. \A read \in BOOLEAN : PlainScopes(read, path) = {IF read THEN resource.read ELSE resource.write}
  BY DEF PlainScopes, Matching
<1> HIDE DEF matching, first
<1>5. resource \in PlainResources
  BY <1>3 DEF PlainRoutes, PlainResources
<1> QED BY <1>4, <1>5

LEMMA PlainPairs ==
  ASSUME NEW path, NEW read \in BOOLEAN
  PROVE  \A w \in PlainScopes(read, path) \cap Changing, s \in PlainScopes(TRUE, path) :
           <<s, w>> \in Pairs
<1>1. CASE Matching(path) # {}
  <2>1. PICK resource \in PlainResources : \A r \in BOOLEAN :
          PlainScopes(r, path) = {IF r THEN resource.read ELSE resource.write}
    BY <1>1, PlainResource
  <2>2. resource.write \in Changing => <<resource.read, resource.write>> \in Pairs
    BY DEF PlainResources, Changing, Pairs, Resource
  <2>3. resource.read \notin Changing
    BY DEF PlainResources, Changing, Resource
  <2> QED BY <2>1, <2>2, <2>3
<1>2. CASE Matching(path) = {}
  BY <1>2 DEF Matching, PlainScopes, Changing, Resource
<1> QED BY <1>1, <1>2

\* "A broader permission stands in for a narrower one" (permissions.go:343): a token
\* with which a request may change a resource is enough to read it on the same path,
\* on every path and with whatever else it grants.
THEOREM WritersMayRead ==
  ASSUME NEW method, NEW path, NEW granted, NEW name \in DOMAIN Resource \ {"groups"},
         Resource[name].write \in granted \cap SuggestedScopes(method, path)
  PROVE  \A scope \in SuggestedScopes("GET", path) : ScopeSatisfies(granted, scope)
<1> DEFINE p == WithoutVersion(path)
           read == method \in ReadMethods
           w == Resource[name].write
<1>1. w \in Changing /\ w \in granted /\ read \in BOOLEAN /\ "GET" \in ReadMethods
  BY DEF Changing, ReadMethods
<1>2. ASSUME NEW scope \in SuggestedScopes("GET", path) PROVE <<scope, w>> \in Pairs
  <2>1. w \in IF SpecialScopes(read, p) # {} THEN SpecialScopes(read, p)
              ELSE IF TeamsScopes(read, p) # {} THEN TeamsScopes(read, p) ELSE PlainScopes(read, p)
    BY DEF SuggestedScopes
  <2>2. scope \in IF SpecialScopes(TRUE, p) # {} THEN SpecialScopes(TRUE, p)
                  ELSE IF TeamsScopes(TRUE, p) # {} THEN TeamsScopes(TRUE, p) ELSE PlainScopes(TRUE, p)
    BY <1>1 DEF SuggestedScopes
  <2> HIDE DEF p, read, w
  <2> QED BY <1>1, <2>1, <2>2, SpecialPairs, TeamsPairs, PlainPairs
<1> HIDE DEF w
<1> QED BY <1>1, <1>2, PairsStandIn

-----------------------------------------------------------------------------
\* What a call is about stays as it was sent, but for what CapPageSize makes of its
\* Prefer header; and only what has a handler is answered by one.
SentAs(s, r) ==
  /\ s.method = r.method /\ s.path = r.path
  /\ s.prefer = r.prefer \/ (s.prefer.others = {} /\ s.prefer.page < r.prefer.page)

Served(c) ==
  /\ pc[c] # "unsent" => received[c] \in scenario.requests /\ SentAs(live[c], received[c])
  /\ pc[c] \in {"enforce", "respond", "answered"} => Routed(received[c])
  /\ pc[c] \in {"respond", "answered"} => given[c] \in scenario.responses \cup {Fault}
  /\ given[c] \notin {NoResponse, Fault} => pc[c] \in {"respond", "answered"}
  /\ pc[c] = "answered" => answer[c] = Shaped(scenario.shapers, live[c], given[c])

Serving ==
  /\ DOMAIN received = Calls /\ DOMAIN answer = Calls
  /\ \A c \in Calls : Served(c)

LEMMA RewrittenSentAs ==
  ASSUME NEW r, NEW s, Arrived(s), Arrived(r), SentAs(s, r), NEW c, Numbered(c)
  PROVE  SentAs(Rewritten(c, s), r)
<1> DEFINE t == Rewritten(c, s)
<1>1. t.method = s.method /\ t.path = s.path
  BY RewrittenIsSofter DEF Softer
<1>2. s.prefer.page \in Int /\ r.prefer.page \in Int /\ "prefer" \in DOMAIN s
  BY DEF Arrived, IsRequest
<1>3. CASE c.is = "CapPageSize"
  <2>1. t = IF s.prefer.page > c.max THEN [s EXCEPT !.prefer = [page |-> c.max, others |-> {}]] ELSE s
    BY <1>3 DEF Rewritten, CapPageSize
  <2>2. c.max \in Int
    BY <1>3 DEF Numbered
  <2>3. CASE s.prefer.page > c.max
    <3>1. t.prefer = [page |-> c.max, others |-> {}]
      BY <1>2, <2>1, <2>3
    <3>2. t.prefer.page = c.max /\ t.prefer.others = {}
      BY <3>1
    <3>3. SentAs(t, r)
      <4> HIDE DEF t
      <4> QED BY <1>1, <1>2, <2>2, <2>3, <3>2 DEF SentAs
    <3> QED BY <3>3
  <2>4. CASE ~(s.prefer.page > c.max)
    BY <2>1, <2>4
  <2> QED BY <2>3, <2>4
<1>4. CASE c.is # "CapPageSize"
  <2>1. \/ t = s
        \/ t = [s EXCEPT !.query.top = c.max, !.raw.top = c.max]
        \/ t = [s EXCEPT !.query.filter = NoFilter, !.raw.filter = NoFilter]
    BY <1>4 DEF Rewritten, CapTop, IgnoreMismatchedMessageFilter
  <2>2. t.prefer = s.prefer
    BY <1>2, <2>1
  <2>3. SentAs(t, r)
    <3> HIDE DEF t
    <3> QED BY <1>1, <2>2 DEF SentAs
  <2> QED BY <2>3
<1> QED BY <1>3, <1>4

LEMMA InitServing == Init => Serving
<1> SUFFICES ASSUME Init PROVE Serving
  OBVIOUS
<1>1. \A c \in Calls : pc[c] = "unsent" /\ given[c] = NoResponse
  BY DEF Init
<1>2. DOMAIN received = Calls /\ DOMAIN answer = Calls
  BY DEF Init
<1> QED BY <1>1, <1>2 DEF Serving, Served

\* A step of one handler leaves the others where they are.
LEMMA ServesOne ==
  ASSUME Judging, Serving, NEW c \in Calls,
         Send(c) \/ NotFound(c) \/ BodyBreaks(c) \/ Record(c) \/ Enforce(c) \/ Handle(c) \/ Respond(c)
  PROVE  /\ DOMAIN received' = Calls /\ DOMAIN answer' = Calls
         /\ \A d \in Calls \ {c} : received'[d] = received[d] /\ answer'[d] = answer[d]
<1>1. CASE Send(c)
  <2>1. PICK r \in scenario.requests : received' = [received EXCEPT ![c] = r]
    BY <1>1 DEF Send
  <2>2. answer' = answer
    BY <1>1 DEF Send
  <2> QED BY <2>1, <2>2 DEF Serving
<1>2. CASE NotFound(c) \/ BodyBreaks(c) \/ Record(c) \/ Enforce(c) \/ Handle(c)
  <2>1. received' = received /\ answer' = answer
    BY <1>2 DEF NotFound, BodyBreaks, Record, Enforce, Handle
  <2> QED BY <2>1 DEF Serving
<1>3. CASE Respond(c)
  <2>1. received' = received /\ answer' = [answer EXCEPT ![c] = Shaped(scenario.shapers, live[c], given[c])]
    BY <1>3 DEF Respond
  <2> QED BY <2>1 DEF Serving
<1> QED BY <1>1, <1>2, <1>3

LEMMA SendServed == ASSUME Judging, Serving, NEW c \in Calls, Send(c) PROVE Served(c)'
<1>1. PICK r \in scenario.requests :
        live' = [live EXCEPT ![c] = r] /\ received' = [received EXCEPT ![c] = r]
  BY DEF Send
<1>2. /\ live'[c] = r /\ received'[c] = r /\ pc'[c] = "arrived" /\ pc[c] = "unsent"
      /\ scenario' = scenario /\ given' = given
  BY <1>1 DEF Send, Goto, Judging, Serving
<1>3. given[c] \in {NoResponse, Fault}
  BY <1>2 DEF Serving, Served
<1>4. given'[c] \in {NoResponse, Fault}'
  BY <1>2, <1>3 DEF Fault
<1>5. SentAs(r, r)
  BY DEF SentAs
<1>6. received'[c] \in scenario'.requests /\ SentAs(live'[c], received'[c])
  BY <1>1, <1>2, <1>5
<1> QED BY <1>2, <1>4, <1>6 DEF Served

LEMMA EnforceServed == ASSUME Judging, Serving, NEW c \in Calls, Enforce(c) PROVE Served(c)'
<1> DEFINE n == at[c]
           r == live[c]
           d == scenario.constraints[n]
<1>1. /\ pc[c] = "enforce" /\ ~Exhausted(c) /\ scenario' = scenario /\ received' = received
      /\ Judged(c) /\ Served(c) /\ Fault' = Fault
  BY DEF Enforce, Judging, Serving, Fault
<1>2. received[c] \in scenario.requests /\ SentAs(r, received[c]) /\ Routed(received[c])
  BY <1>1 DEF Served
<1>3. CASE Refuses(d, r)
  <2>1. pc'[c] = "respond" /\ given'[c] = Fault /\ live' = live
    BY <1>3 DEF Enforce, Goto, Judging
  <2>2. Routed(received[c])'
    BY <1>1, <1>2 DEF Routed
  <2> QED BY <1>1, <1>2, <2>1, <2>2 DEF Served
<1>4. CASE ~Refuses(d, r)
  <2>1. live'[c] = Rewritten(d, r) /\ pc' = pc /\ given' = given
    BY <1>4 DEF Enforce, Judging
  <2>2. Len(scenario.constraints) \in Nat /\ n \in 1 .. Len(scenario.constraints)
    BY <1>1, ScenarioAssumption DEF Judging, Judged, Exhausted
  <2>3. Numbered(d)
    BY <2>2, ScenarioAssumption DEF Judging, Numbered
  <2>4. Arrived(received[c]) /\ Arrived(r)
    BY <1>1, <1>2, ScenarioAssumption DEF Judging, Arrived, Judged
  <2>5. SentAs(Rewritten(d, r), received[c])
    <3> HIDE DEF d, r
    <3> QED BY <1>2, <2>3, <2>4, RewrittenSentAs
  <2>6. given[c] \in {NoResponse, Fault}
    BY <1>1 DEF Served
  <2>7. given'[c] \in {NoResponse, Fault}'
    BY <1>1, <2>1, <2>6
  <2>8. Routed(received[c])' /\ SentAs(live'[c], received'[c]) /\ received'[c] \in scenario'.requests
    BY <1>1, <1>2, <2>1, <2>5 DEF Routed
  <2> QED BY <1>1, <2>1, <2>7, <2>8 DEF Served
<1> QED BY <1>3, <1>4

LEMMA OtherwiseServed ==
  ASSUME Judging, Serving, NEW c \in Calls,
         NotFound(c) \/ BodyBreaks(c) \/ Record(c) \/ Handle(c) \/ Respond(c)
  PROVE  Served(c)'
<1>1. Served(c) /\ Fault' = Fault
  BY DEF Serving, Fault
<1>2. CASE NotFound(c) \/ BodyBreaks(c) \/ Record(c)
  <2>1. /\ UNCHANGED <<scenario, live, received, given, answer>>
        /\ pc[c] = "arrived" /\ pc'[c] \in {"not found", "aborted", "enforce"}
        /\ pc'[c] = "enforce" => Routed(live[c])
    BY <1>2 DEF NotFound, BodyBreaks, Record, Goto, Judging
  <2>2. Routed(live[c]) => Routed(received[c])
    BY <1>1, <2>1 DEF Served, SentAs, Routed
  <2>3. given[c] \in {NoResponse, Fault} /\ given'[c] \in {NoResponse, Fault}'
    BY <1>1, <2>1 DEF Served
  <2>4. Routed(received[c])' <=> Routed(received[c])
    BY <2>1 DEF Routed
  <2> QED BY <1>1, <2>1, <2>2, <2>3, <2>4 DEF Served
<1>3. CASE Handle(c)
  <2>1. PICK response \in scenario.responses : given' = [given EXCEPT ![c] = response]
    BY <1>3 DEF Handle
  <2>2. /\ UNCHANGED <<scenario, live, received, answer>> /\ pc[c] = "enforce" /\ pc'[c] = "respond"
        /\ given'[c] \in scenario.responses
    BY <1>3, <2>1 DEF Handle, Goto, Judging
  <2>3. Routed(received[c])' <=> Routed(received[c])
    BY <2>2 DEF Routed
  <2> QED BY <1>1, <2>2, <2>3 DEF Served
<1>4. CASE Respond(c)
  <2>1. /\ UNCHANGED <<scenario, live, received, given>> /\ pc[c] = "respond" /\ pc'[c] = "answered"
        /\ answer'[c] = Shaped(scenario.shapers, live[c], given[c])
    BY <1>4 DEF Respond, Goto, Judging, Serving
  <2>2. Routed(received[c])' <=> Routed(received[c])
    BY <2>1 DEF Routed
  <2>3. answer'[c] = Shaped(scenario.shapers, live[c], given[c])'
    BY <2>1
  <2> QED BY <1>1, <2>1, <2>2, <2>3 DEF Served
<1> QED BY <1>2, <1>3, <1>4

LEMMA StepServing == Judging /\ Serving /\ [Next]_vars => Serving'
<1> SUFFICES ASSUME Judging, Serving, [Next]_vars PROVE Serving'
  OBVIOUS
<1>1. Fault' = Fault
  BY DEF Fault
<1>2. CASE UNCHANGED <<scenario, pc, live, received, given, answer>>
  BY <1>1, <1>2 DEF Serving, Served, Routed
<1>3. ASSUME NEW c \in Calls,
             Send(c) \/ NotFound(c) \/ BodyBreaks(c) \/ Record(c) \/ Enforce(c) \/ Handle(c) \/ Respond(c)
      PROVE  Serving'
  <2>1. Served(c)'
    BY <1>3, SendServed, EnforceServed, OtherwiseServed
  <2>2. ASSUME NEW d \in Calls \ {c} PROVE Served(d)'
    <3>1. /\ Served(d) /\ scenario' = scenario
          /\ pc'[d] = pc[d] /\ live'[d] = live[d] /\ given'[d] = given[d]
          /\ received'[d] = received[d] /\ answer'[d] = answer[d]
      BY <1>3, StepsOfOne, ServesOne DEF Serving
    <3> QED BY <1>1, <3>1 DEF Served, Routed
  <2> QED BY <1>3, <2>1, <2>2, ServesOne DEF Serving
<1>4. CASE UNCHANGED vars \/ Reset
  BY <1>2, <1>4 DEF vars, Reset
<1> QED BY <1>3, <1>4 DEF Next

-----------------------------------------------------------------------------
\* The version before a path bears on none of the names the table knows.
LEMMA Unversioned ==
  ASSUME NEW path \in Seq(STRING), NEW names, names \cap {"v1.0", "beta"} = {}
  PROVE  HasSegment(WithoutVersion(path), names) <=> HasSegment(path, names)
<1> DEFINE p == Tail(path)
<1>1. CASE Len(path) > 1 /\ path[1] \in {"v1.0", "beta"}
  <2>1. /\ Len(path) \in Nat /\ DOMAIN path = 1 .. Len(path)
        /\ DOMAIN p = 1 .. Len(path) - 1 /\ \A i \in DOMAIN p : p[i] = path[i + 1]
    BY <1>1
  <2>2. ASSUME NEW i \in DOMAIN path, path[i] \in names PROVE i - 1 \in DOMAIN p /\ p[i - 1] \in names
    <3>1. i # 1
      BY <1>1, <2>2
    <3>2. i - 1 \in 1 .. Len(path) - 1 /\ (i - 1) + 1 = i
      BY <2>1, <3>1
    <3> QED BY <2>1, <2>2, <3>2
  <2>3. ASSUME NEW i \in DOMAIN p, p[i] \in names PROVE i + 1 \in DOMAIN path /\ path[i + 1] \in names
    BY <2>1, <2>3
  <2>4. HasSegment(p, names) <=> HasSegment(path, names)
    <3> HIDE DEF p
    <3> QED BY <2>2, <2>3 DEF HasSegment
  <2> QED BY <1>1, <2>4 DEF WithoutVersion
<1>2. CASE ~(Len(path) > 1 /\ path[1] \in {"v1.0", "beta"})
  BY <1>2 DEF WithoutVersion
<1> QED BY <1>1, <1>2

\* What a set of permissions opens is asked for by them alone.
LEMMA OnlyTheirOwn ==
  ASSUME NEW held, NEW own,
         \A e \in StandIns : e[1] \notin own => e[2] \cap held = {}, held \subseteq own,
         NEW granted, granted \subseteq held, NEW scope, ScopeSatisfies(granted, scope)
  PROVE  scope \in own
<1>1. PICK s \in Accepted(scope) : s \in held
  BY DEF ScopeSatisfies
<1>2. CASE s = scope
  BY <1>1, <1>2
<1>3. CASE s # scope
  <2>1. PICK e \in StandIns : e[1] = scope /\ s \in e[2]
    BY <1>1, <1>3 DEF Accepted
  <2> QED BY <1>1, <2>1
<1> QED BY <1>2, <1>3

ReadOnly == ReadPermissions \cup {"User.Read", "Channel.ReadBasic.All", "ChannelMessage.Read.All"}

LEMMA MailIsItsOwn == \A e \in StandIns : e[1] \notin MailPermissions => e[2] \cap MailPermissions = {}
BY DEF StandIns, MailPermissions

LEMMA SettingsAreTheirOwn ==
  \A e \in StandIns : e[1] \notin SettingsPermissions => e[2] \cap SettingsPermissions = {}
BY DEF StandIns, SettingsPermissions

LEMMA ReadingIsItsOwn ==
  /\ \A e \in StandIns : e[1] \notin ReadOnly => e[2] \cap ReadPermissions = {}
  /\ ReadPermissions = {"MailboxSettings.Read", "Tasks.Read", "Mail.Read", "Calendars.Read",
       "Contacts.Read", "Files.Read", "Chat.ReadBasic", "User.ReadBasic.All", "Group.Read.All"}
<1>1. ReadPermissions = {"MailboxSettings.Read", "Tasks.Read", "Mail.Read", "Calendars.Read",
       "Contacts.Read", "Files.Read", "Chat.ReadBasic", "User.ReadBasic.All", "Group.Read.All"}
  BY DEF ReadPermissions, Resource
<1>2. \A e \in StandIns : e[1] \notin ReadOnly => e[2] \cap ReadPermissions = {}
  BY <1>1 DEF StandIns, ReadOnly
<1> QED BY <1>1, <1>2

\* The cases of the table, for paths of one service.
LEMMA ChatsAndTeams ==
  ASSUME NEW p, NEW read \in BOOLEAN, HasSegment(p, {"chats", "teams"}),
         ~HasSegment(p, {"inferenceclassification", "sendmail"})
  PROVE  /\ SpecialScopes(read, p) \cap MailPermissions = {}
         /\ TeamsScopes(read, p) # {} /\ TeamsScopes(read, p) \cap MailPermissions = {}
<1>1. SpecialScopes(read, p) \cap MailPermissions = {}
  BY DEF SpecialScopes, MailPermissions, Resource, HasSegment
<1>2. HasSegment(p, {"chats"}) \/ HasSegment(p, {"teams", "joinedteams", "channels"})
  BY DEF HasSegment
<1>3. TeamsScopes(read, p) # {}
  BY <1>2 DEF TeamsScopes
<1>4. TeamsScopes(read, p) \cap MailPermissions = {}
  BY DEF TeamsScopes, ChatScope, TeamScope, MailPermissions, Resource
<1> QED BY <1>1, <1>3, <1>4

LEMMA MailboxSettings ==
  ASSUME NEW p, NEW read \in BOOLEAN, HasSegment(p, {"mailboxsettings"})
  PROVE  SpecialScopes(read, p) # {} /\ SpecialScopes(read, p) \cap MailPermissions = {}
BY DEF SpecialScopes, MailPermissions, Resource

LEMMA Messages ==
  ASSUME NEW p, NEW read \in BOOLEAN, HasSegment(p, {"messages", "inferenceclassification"}),
         ~HasSegment(p, {"mailboxsettings"})
  PROVE  /\ SpecialScopes(read, p) \cap SettingsPermissions = {}
         /\ TeamsScopes(read, p) \cap SettingsPermissions = {}
         /\ PlainScopes(read, p) \cap SettingsPermissions = {}
         /\ SpecialScopes(read, p) # {} \/ PlainScopes(read, p) # {}
<1>1. SpecialScopes(read, p) \cap SettingsPermissions = {}
  BY DEF SpecialScopes, SettingsPermissions, Resource
<1>2. TeamsScopes(read, p) \cap SettingsPermissions = {}
  BY DEF TeamsScopes, ChatScope, TeamScope, SettingsPermissions, Resource
<1>3. CASE Matching(p) # {}
  <2>1. PICK resource \in PlainResources : \A r \in BOOLEAN :
          PlainScopes(r, p) = {IF r THEN resource.read ELSE resource.write}
    BY <1>3, PlainResource
  <2>2. {resource.read, resource.write} \cap SettingsPermissions = {}
    BY DEF PlainResources, SettingsPermissions, Resource
  <2> QED BY <1>1, <1>2, <2>1, <2>2
<1>4. CASE Matching(p) = {}
  <2>1. PlainScopes(read, p) \cap SettingsPermissions = {}
    BY <1>4 DEF Matching, PlainScopes, SettingsPermissions
  <2>2. ~HasSegment(p, {"messages", "mailfolders"})
    <3>1. 1 \in DOMAIN PlainRoutes /\ PlainRoutes[1].segments = {"messages", "mailfolders"}
      BY DEF PlainRoutes
    <3> QED BY <1>4, <3>1 DEF Matching
  <2>3. HasSegment(p, {"inferenceclassification"})
    BY <2>2 DEF HasSegment
  <2>4. SpecialScopes(read, p) # {}
    BY <2>3 DEF SpecialScopes
  <2> QED BY <1>1, <1>2, <2>1, <2>4
<1> QED BY <1>3, <1>4

LEMMA Changes ==
  ASSUME NEW p, p # <<"me">>, ~HasSegment(p, {"translateexchangeids"}),
         HasSegment(p, {"channels"}) => HasSegment(p, {"messages", "replies"})
  PROVE  /\ SpecialScopes(FALSE, p) \cap ReadOnly = {}
         /\ TeamsScopes(FALSE, p) \cap ReadOnly = {}
         /\ PlainScopes(FALSE, p) \cap ReadOnly = {}
<1> USE ReadingIsItsOwn DEF ReadOnly
<1>1. SpecialScopes(FALSE, p) \cap ReadOnly = {}
  BY DEF SpecialScopes, Resource
<1>2. TeamsScopes(FALSE, p) \cap ReadOnly = {}
  BY DEF TeamsScopes, ChatScope, TeamScope, Resource
<1>3. CASE Matching(p) # {}
  <2>1. PICK resource \in PlainResources : \A r \in BOOLEAN :
          PlainScopes(r, p) = {IF r THEN resource.read ELSE resource.write}
    BY <1>3, PlainResource
  <2>2. resource.write \notin ReadOnly
    BY DEF PlainResources, Resource
  <2> QED BY <1>1, <1>2, <2>1, <2>2
<1>4. CASE Matching(p) = {}
  BY <1>1, <1>2, <1>4 DEF Matching, PlainScopes
<1> QED BY <1>3, <1>4

\* One request that RequireScopes let through.
LEMMA AdmittedFits ==
  ASSUME NEW granted, NEW method, NEW path \in Seq(STRING), OfOneService(method, path),
         \/ SuggestedScopes(method, path) = {}
         \/ \E scope \in SuggestedScopes(method, path) : ScopeSatisfies(granted, scope)
  PROVE  /\ HasSegment(path, {"chats", "teams"}) => ~ granted \subseteq MailPermissions
         /\ HasSegment(path, {"mailboxsettings"}) => ~ granted \subseteq MailPermissions
         /\ HasSegment(path, {"messages", "inferenceclassification"})
              => ~ granted \subseteq SettingsPermissions
         /\ method \notin ReadMethods /\ WithoutVersion(path) # <<"me">>
              => ~ granted \subseteq ReadPermissions
<1> DEFINE p == WithoutVersion(path)
           read == method \in ReadMethods
           special == SpecialScopes(read, p)
           teams == TeamsScopes(read, p)
           plain == PlainScopes(read, p)
           suggested == SuggestedScopes(method, path)
<1>1. suggested = IF special # {} THEN special ELSE IF teams # {} THEN teams ELSE plain
  BY DEF SuggestedScopes
<1>2. /\ \A names \in {{"chats", "teams"}, {"mailboxsettings"}, {"messages", "inferenceclassification"},
                       {"inferenceclassification", "sendmail"}, {"translateexchangeids"}, {"channels"},
                       {"messages", "replies"}} : HasSegment(p, names) <=> HasSegment(path, names)
      /\ read \in BOOLEAN
  BY Unversioned
<1> HIDE DEF p, special, teams, plain, suggested
<1>3. ASSUME HasSegment(path, {"chats", "teams"}), granted \subseteq MailPermissions PROVE FALSE
  <2>1. special \cap MailPermissions = {} /\ teams # {} /\ teams \cap MailPermissions = {}
    BY <1>2, <1>3, ChatsAndTeams DEF OfOneService, special, teams
  <2>2. PICK scope \in suggested : ScopeSatisfies(granted, scope)
    BY <1>1, <2>1 DEF suggested
  <2>3. scope \in MailPermissions
    BY <1>3, <2>2, MailIsItsOwn, OnlyTheirOwn
  <2> QED BY <1>1, <2>1, <2>2, <2>3
<1>4. ASSUME HasSegment(path, {"mailboxsettings"}), granted \subseteq MailPermissions PROVE FALSE
  <2>1. special # {} /\ special \cap MailPermissions = {}
    BY <1>2, <1>4, MailboxSettings DEF special
  <2>2. PICK scope \in suggested : ScopeSatisfies(granted, scope)
    BY <1>1, <2>1 DEF suggested
  <2>3. scope \in MailPermissions
    BY <1>4, <2>2, MailIsItsOwn, OnlyTheirOwn
  <2> QED BY <1>1, <2>1, <2>2, <2>3
<1>5. ASSUME HasSegment(path, {"messages", "inferenceclassification"}), granted \subseteq SettingsPermissions
      PROVE  FALSE
  <2>1. /\ special \cap SettingsPermissions = {} /\ teams \cap SettingsPermissions = {}
        /\ plain \cap SettingsPermissions = {} /\ (special # {} \/ plain # {})
    BY <1>2, <1>5, Messages DEF OfOneService, special, teams, plain
  <2>2. PICK scope \in suggested : ScopeSatisfies(granted, scope)
    BY <1>1, <2>1 DEF suggested
  <2>3. scope \in SettingsPermissions
    BY <1>5, <2>2, SettingsAreTheirOwn, OnlyTheirOwn
  <2> QED BY <1>1, <2>1, <2>2, <2>3
<1>6. ASSUME method \notin ReadMethods, p # <<"me">>, granted \subseteq ReadPermissions PROVE FALSE
  <2>1. /\ suggested # {} /\ ~HasSegment(path, {"translateexchangeids"}) /\ read = FALSE
        /\ HasSegment(path, {"channels"}) => HasSegment(path, {"messages", "replies"})
    BY <1>6 DEF OfOneService, p, suggested
  <2>2. special \cap ReadOnly = {} /\ teams \cap ReadOnly = {} /\ plain \cap ReadOnly = {}
    BY <1>2, <1>6, <2>1, Changes DEF special, teams, plain
  <2>3. PICK scope \in suggested : ScopeSatisfies(granted, scope)
    BY <2>1 DEF suggested
  <2>4. scope \in ReadOnly
    <3>1. ReadPermissions \subseteq ReadOnly
      BY DEF ReadOnly
    <3> QED BY <1>6, <2>3, <3>1, ReadingIsItsOwn, OnlyTheirOwn
  <2> QED BY <1>1, <2>2, <2>3, <2>4
<1> QED BY <1>3, <1>4, <1>5, <1>6 DEF p

\* The route table keeps the services apart and reading from writing (permissions.go:232,
\* 343), on every server that is asked for what one service has.
THEOREM PermissionsKeepApart ==
  ASSUME PermittedRequests
  PROVE  Spec => []PermissionsFit
<1>1. Judging /\ Serving => PermissionsFit
  <2> SUFFICES ASSUME Judging, Serving, NEW i \in DOMAIN scenario.constraints, NEW c \in Reached,
                      scenario.constraints[i].is = "RequireScopes"
               PROVE  LET granted == scenario.constraints[i].granted
                          method == live[c].method
                          path == live[c].path
                      IN /\ HasSegment(path, {"chats", "teams"}) => ~ granted \subseteq MailPermissions
                         /\ HasSegment(path, {"mailboxsettings"}) => ~ granted \subseteq MailPermissions
                         /\ HasSegment(path, {"messages", "inferenceclassification"})
                              => ~ granted \subseteq SettingsPermissions
                         /\ method \notin ReadMethods /\ WithoutVersion(path) # <<"me">>
                              => ~ granted \subseteq ReadPermissions
                         /\ \A name \in DOMAIN Resource \ {"groups"} :
                              Resource[name].write \in granted \cap SuggestedScopes(method, path)
                                => \A scope \in SuggestedScopes("GET", path) : ScopeSatisfies(granted, scope)
    BY DEF PermissionsFit, Admitted
  <2> DEFINE d == scenario.constraints[i]
             r == live[c]
  <2>1. c \in Calls /\ Judged(c) /\ Served(c) /\ pc[c] \in {"enforce", "respond", "answered"}
    BY DEF Reached, Judging, Serving, Served
  <2>2. /\ Len(scenario.constraints) \in Nat
        /\ DOMAIN scenario.constraints = 1 .. Len(scenario.constraints)
    BY ScenarioAssumption DEF Judging
  <2>3. at[c] > Len(scenario.constraints)
    BY <2>1 DEF Reached, Judged, Exhausted
  <2>4. ~Refuses(d, r)
    BY <2>1, <2>2, <2>3 DEF Judged, Passes
  <2>5. ~RequireScopes(r, d.granted)
    BY <2>4 DEF Refuses
  <2>6. /\ received[c] \in scenario.requests /\ Routed(received[c])
        /\ r.method = received[c].method /\ r.path = received[c].path
    BY <2>1 DEF Served, SentAs
  <2>7. OfOneService(r.method, r.path) /\ r.path \in Seq(STRING)
    BY <2>6, ScenarioAssumption DEF PermittedRequests, Judging
  <2>8. \/ SuggestedScopes(r.method, r.path) = {}
        \/ \E scope \in SuggestedScopes(r.method, r.path) : ScopeSatisfies(d.granted, scope)
    BY <2>5 DEF RequireScopes
  <2> HIDE DEF d, r
  <2>9. \A name \in DOMAIN Resource \ {"groups"} :
          Resource[name].write \in d.granted \cap SuggestedScopes(r.method, r.path)
            => \A scope \in SuggestedScopes("GET", r.path) : ScopeSatisfies(d.granted, scope)
    BY WritersMayRead
  <2> QED BY <2>7, <2>8, <2>9, AdmittedFits DEF d, r
<1> QED BY <1>1, InitJudging, StepJudging, InitServing, StepServing, PTL DEF Spec

-----------------------------------------------------------------------------
\* The scan of a filter. It counts the lambdas it is in and the parentheses apart,
\* and closes a lambda when fewer parentheses than lambdas are open; OpaqueLambdas
\* is what that count keeps.

\* The flush keeps the counts and, inside a lambda, the fields.
LEMMA FlushKeeps ==
  ASSUME NEW s \in Scans
  PROVE  /\ Flush(s) \in Scans
         /\ Flush(s).quoted = s.quoted
         /\ Flush(s).parens = s.parens
         /\ Flush(s).lambdas = s.lambdas
         /\ s.lambdas > 0 => Flush(s).fields = s.fields
<1> DEFINE new == IF s.lambdas > 0 \/ s.word \in {NoWord} \cup Operators \cup Literalish
                  THEN s.fields ELSE s.fields \cup {s.word}
<1>1. new \in SUBSET Token /\ NoWord \in Token
  BY DEF Scans, NoWord, Token
<1>2. Flush(s) = [s EXCEPT !.word = NoWord, !.fields = new]
  BY DEF Flush
<1>3. s.lambdas > 0 => new = s.fields
  OBVIOUS
<1> HIDE DEF new
<1> QED BY <1>1, <1>2, <1>3 DEF Scans

\* A collection is a token.
LEMMA CollectionIsToken ==
  ASSUME NEW word \in Token, IsLambda(word)
  PROVE  Collection(word) \in Token
<1>1. Len(word) - 1 \in 0 .. Len(word)
  BY DEF Token, IsLambda
<1> QED BY <1>1 DEF Token, Collection

\* Opening a parenthesis: one lambda more if one begins, and nothing is reported
\* inside one.
LEMMA OpenKeeps ==
  ASSUME NEW s \in Scans
  PROVE  /\ OpenParen(s) \in Scans
         /\ OpenParen(s).parens = s.parens + 1
         /\ OpenParen(s).lambdas = IF IsLambda(s.word) THEN s.lambdas + 1 ELSE s.lambdas
         /\ s.lambdas > 0 => OpenParen(s).fields = s.fields
<1>0. s.parens + 1 \in Int /\ s.lambdas + 1 \in Nat /\ s.word \in Token /\ NoWord \in Token
  BY DEF Scans, NoWord, Token
<1>1. CASE IsLambda(s.word)
  <2> DEFINE new == IF s.lambdas = 0 THEN s.fields \cup {Collection(s.word)} ELSE s.fields
  <2>1. new \in SUBSET Token
    BY <1>0, <1>1, CollectionIsToken DEF Scans
  <2>2. OpenParen(s) = [[s EXCEPT !.word = NoWord, !.lambdas = s.lambdas + 1, !.fields = new]
                          EXCEPT !.parens = s.parens + 1]
    BY <1>1 DEF OpenParen, Scans
  <2>3. s.lambdas > 0 => new = s.fields
    BY DEF Scans
  <2> HIDE DEF new
  <2> QED BY <1>0, <1>1, <2>1, <2>2, <2>3 DEF Scans
<1>2. CASE ~IsLambda(s.word)
  <2>1. OpenParen(s) = [Flush(s) EXCEPT !.parens = s.parens + 1]
    BY <1>2, FlushKeeps DEF OpenParen
  <2> QED BY <1>0, <1>2, <2>1, FlushKeeps DEF Scans
<1> QED BY <1>1, <1>2

\* Closing one: what stays of the lambdas.
LEMMA CloseKeeps ==
  ASSUME NEW s \in Scans
  PROVE  /\ CloseParen(s) \in Scans
         /\ CloseParen(s).parens = s.parens - 1
         /\ CloseParen(s).lambdas = IF s.lambdas > 0 /\ s.parens - 1 < s.lambdas
                                    THEN s.lambdas - 1 ELSE s.lambdas
         /\ s.lambdas > 0 => CloseParen(s).fields = s.fields
<1> DEFINE left == IF s.lambdas > 0 /\ s.parens - 1 < s.lambdas THEN s.lambdas - 1 ELSE s.lambdas
<1>1. left \in Nat /\ s.parens - 1 \in Int
  BY DEF Scans
<1>2. CloseParen(s) = [Flush(s) EXCEPT !.parens = s.parens - 1, !.lambdas = left]
  BY FlushKeeps DEF CloseParen, ClosesLambda
<1> HIDE DEF left
<1>3. /\ CloseParen(s) \in Scans
      /\ CloseParen(s).parens = s.parens - 1
      /\ CloseParen(s).lambdas = left
      /\ CloseParen(s).fields = Flush(s).fields
  BY <1>1, <1>2, FlushKeeps DEF Scans
<1> QED BY <1>3, FlushKeeps DEF left

\* The scan keeps its types and the texts theirs, for any filters.
THEOREM TypeCorrect == ScanSpec => []ScanTypeOK
<1>1. ScanInit => ScanTypeOK
  <2> SUFFICES ASSUME ScanInit PROVE ScanTypeOK
    OBVIOUS
  <2>1. Len(filter.text) \in Nat
    BY FilterTexts DEF ScanInit
  <2>2. ScanStart \in Scans
    BY DEF ScanStart, Scans, NoWord, Token
  <2>3. 1 \in 1 .. Len(filter.text) + 2
    BY <2>1
  <2> QED BY <2>2, <2>3 DEF ScanInit, ScanTypeOK
<1>2. ScanTypeOK /\ [ScanNext]_scanVars => ScanTypeOK'
  <2> SUFFICES ASSUME ScanTypeOK, [ScanNext]_scanVars PROVE ScanTypeOK'
    OBVIOUS
  <2>0. filter.text \in Seq(Token) /\ scan \in Scans
    BY FilterTexts DEF ScanTypeOK
  <2>1. CASE Read
    <3> DEFINE t == filter.text[cursor]
    <3>1. t \in Token /\ cursor + 1 \in 1 .. Len(filter.text) + 2
      BY <2>0, <2>1 DEF Read, ScanTypeOK
    <3>2. ScanToken(scan, t) \in Scans
      <4> HIDE DEF t
      <4>1. [scan EXCEPT !.quoted = ~@] \in Scans /\ [scan EXCEPT !.word = t] \in Scans
        BY <2>0, <3>1 DEF Scans
      <4> QED BY <2>0, <4>1, FlushKeeps, OpenKeeps, CloseKeeps DEF ScanToken
    <3>3. BoundAfter(t) \in SUBSET Int
      <4>0. scan.parens + 1 \in Int /\ bound \in SUBSET Int
        BY <2>0 DEF ScanTypeOK, Scans
      <4>1. bound \cup {scan.parens + 1} \in SUBSET Int /\ bound \ {scan.parens} \in SUBSET Int
        BY <4>0, Zenon
      <4> HIDE DEF t
      <4> QED BY <4>0, <4>1, Zenon DEF BoundAfter
    <3>4. surplus' \in BOOLEAN
      BY <2>1, Zenon DEF Read
    <3> QED BY <2>1, <3>1, <3>2, <3>3, <3>4 DEF Read, ScanTypeOK
  <2>2. CASE Finish
    <3>1. cursor + 1 \in 1 .. Len(filter.text) + 2
      BY <2>0, <2>2 DEF Finish, ScanTypeOK
    <3> QED BY <2>0, <2>2, <3>1, FlushKeeps DEF Finish, ScanTypeOK
  <2>3. CASE UNCHANGED scanVars
    BY <2>3 DEF scanVars, ScanTypeOK
  <2> QED BY <2>1, <2>2, <2>3 DEF ScanNext
<1> QED BY <1>1, <1>2, PTL DEF ScanSpec

\* The counts after a token or the last flush, and what they say of the lambdas.
LEMMA StepIsOpaque ==
  ASSUME ScanTypeOK, OpaqueLambdas, [ScanNext]_scanVars, ~surplus
  PROVE  OpaqueLambdas' /\ (bound # {} => scan'.fields = scan.fields)
<1>0. /\ scan \in Scans /\ scan.parens \in Int /\ scan.lambdas \in Nat
      /\ bound # {} => scan.lambdas > 0
      /\ \A depth \in bound : depth \in 1 .. scan.parens
      /\ scan.lambdas <= scan.parens
  BY DEF ScanTypeOK, Scans, OpaqueLambdas
<1>1. CASE Read
  <2> DEFINE t == filter.text[cursor]
  <2>0. /\ scan' = ScanToken(scan, t) /\ bound' = BoundAfter(t)
        /\ ~surplus' => scan'.parens >= 0
    <3>1. surplus' = (surplus \/ scan'.parens < 0) /\ scan' = ScanToken(scan, t)
      BY <1>1 DEF Read
    <3>2. scan'.parens \in Int
      <4> HIDE DEF t
      <4>1. [scan EXCEPT !.quoted = ~@].parens = scan.parens /\ [scan EXCEPT !.word = t].parens = scan.parens
        BY <1>0 DEF Scans
      <4> QED BY <1>0, <3>1, <4>1, FlushKeeps, OpenKeeps, CloseKeeps DEF ScanToken
    <3>3. ~surplus' => ~(scan'.parens < 0)
      BY <3>1, Zenon
    <3>4. ~surplus' => scan'.parens >= 0
      BY <3>2, <3>3
    <3> QED BY <1>1, <3>4 DEF Read
  <2> HIDE DEF t
  <2>1. CASE t = Quote \/ scan.quoted
    <3>1. scan'.fields = scan.fields /\ scan'.parens = scan.parens /\ scan'.lambdas = scan.lambdas
      BY <1>0, <2>0, <2>1 DEF ScanToken, Scans
    <3>2. bound' = bound
      BY <2>0, <2>1 DEF BoundAfter, Quote, Open, Close
    <3> QED BY <1>0, <3>1, <3>2 DEF OpaqueLambdas
  <2>2. CASE t = Open /\ ~scan.quoted
    <3>1. scan' = OpenParen(scan)
      BY <2>0, <2>2 DEF ScanToken, Open, Quote
    <3>2. bound' = IF IsLambda(scan.word) THEN bound \cup {scan.parens + 1} ELSE bound
      BY <2>0, <2>2 DEF BoundAfter, Open, Close
    <3>3. /\ scan'.parens = scan.parens + 1
          /\ scan'.lambdas = IF IsLambda(scan.word) THEN scan.lambdas + 1 ELSE scan.lambdas
          /\ scan.lambdas > 0 => scan'.fields = scan.fields
      BY <1>0, <3>1, OpenKeeps
    <3> QED BY <1>0, <3>2, <3>3 DEF OpaqueLambdas
  <2>3. CASE t = Close /\ ~scan.quoted
    <3>1. scan' = CloseParen(scan)
      BY <2>0, <2>3 DEF ScanToken, Close, Open, Quote
    <3>2. bound' = bound \ {scan.parens}
      BY <2>0, <2>3 DEF BoundAfter, Open, Close
    <3>3. /\ scan'.parens = scan.parens - 1
          /\ scan'.lambdas = IF scan.lambdas > 0 /\ scan.parens - 1 < scan.lambdas
                             THEN scan.lambdas - 1 ELSE scan.lambdas
          /\ scan.lambdas > 0 => scan'.fields = scan.fields
      BY <1>0, <3>1, CloseKeeps
    <3>4. ASSUME ~surplus' PROVE scan'.lambdas <= scan'.parens /\ (bound' # {} => scan'.lambdas > 0)
      BY <1>0, <2>0, <3>2, <3>3, <3>4
    <3>5. \A depth \in bound' : depth \in 1 .. scan'.parens
      BY <1>0, <3>2, <3>3
    <3> QED BY <1>0, <3>3, <3>4, <3>5 DEF OpaqueLambdas
  <2>4. CASE t \notin {Quote, Open, Close} /\ ~scan.quoted
    <3>1. scan' = Flush(scan) \/ scan' = [scan EXCEPT !.word = t]
      BY <2>0, <2>4 DEF ScanToken
    <3>2. /\ scan'.parens = scan.parens /\ scan'.lambdas = scan.lambdas
          /\ scan.lambdas > 0 => scan'.fields = scan.fields
      BY <1>0, <3>1, FlushKeeps DEF Scans
    <3>3. bound' = bound
      BY <2>0, <2>4 DEF BoundAfter
    <3> QED BY <1>0, <3>2, <3>3 DEF OpaqueLambdas
  <2> QED BY <2>1, <2>2, <2>3, <2>4
<1>2. CASE Finish
  <2>1. scan' = Flush(scan) /\ bound' = bound
    BY <1>2 DEF Finish
  <2> QED BY <1>0, <2>1, FlushKeeps DEF OpaqueLambdas
<1>3. CASE UNCHANGED scanVars
  BY <1>0, <1>3 DEF scanVars, OpaqueLambdas
<1> QED BY <1>1, <1>2, <1>3 DEF ScanNext

\* Once a parenthesis has been closed that none opened, that stays so.
LEMMA SurplusStays == ScanTypeOK /\ surplus /\ [ScanNext]_scanVars => surplus'
BY DEF ScanTypeOK, ScanNext, scanVars, Read, Finish

\* The scan knows when it is in the body of a lambda, for any filters (constraints.go:173).
THEOREM LambdasAreOpaque == ScanSpec => []OpaqueLambdas
<1>1. ScanInit => OpaqueLambdas
  BY DEF ScanInit, OpaqueLambdas, ScanStart
<1>2. ScanTypeOK /\ OpaqueLambdas /\ [ScanNext]_scanVars => OpaqueLambdas'
  <2> SUFFICES ASSUME ScanTypeOK, OpaqueLambdas, [ScanNext]_scanVars PROVE OpaqueLambdas'
    OBVIOUS
  <2>1. CASE ~surplus
    BY <2>1, StepIsOpaque
  <2>2. CASE surplus
    BY <2>2, SurplusStays DEF OpaqueLambdas
  <2> QED BY <2>1, <2>2
<1> QED BY <1>1, <1>2, TypeCorrect, PTL DEF ScanSpec

\* It reports nothing that is bound to the variable of a lambda, for any filters
\* (constraints.go:173).
THEOREM BoundVariablesStayInside == ScanSpec => NothingBoundIsReported
<1>1. ScanTypeOK /\ OpaqueLambdas /\ [ScanNext]_scanVars
        => [bound # {} /\ ~surplus => scan'.fields = scan.fields]_scanVars
  BY StepIsOpaque
<1> QED BY <1>1, TypeCorrect, LambdasAreOpaque, PTL DEF ScanSpec, NothingBoundIsReported
-----------------------------------------------------------------------------
(* The scan of the filters that the constructors build.                       *)

\* A text is read from one state of the scan to another.
Reads(text, s, u) ==
  \E h : h[0] = s /\ h[Len(text)] = u
        /\ \A i \in 1 .. Len(text) : h[i] = ScanToken(h[i - 1], text[i])

State(word, quoted, parens, lambdas, fields) ==
  [word |-> word, quoted |-> quoted, parens |-> parens, lambdas |-> lambdas, fields |-> fields]

\* In a literal or not (the provers take the two for values of their own).
Unquoted == FALSE
Quoted == TRUE

NoProperty == {NoWord} \cup Operators \cup Literalish
Delimiters == {Open, Close, Quote, Space, Comma, Colon}

Flushed(word, lambdas, fields) ==
  IF lambdas > 0 \/ word \in NoProperty THEN fields ELSE fields \cup {word}

\* The steps of the scan, outside literals and inside.
LEMMA FlushStep ==
  ASSUME NEW w, NEW p \in Int, NEW l \in Nat, NEW F
  PROVE  Flush(State(w, Unquoted, p, l, F)) = State(NoWord, Unquoted, p, l, Flushed(w, l, F))
<1> DEFINE s == State(w, Unquoted, p, l, F)
           G == Flushed(w, l, F)
<1>1. s.word = w /\ s.lambdas = l /\ s.fields = F
  BY DEF State
<1>2. Flush(s) = [s EXCEPT !.word = NoWord, !.fields = G]
  BY <1>1 DEF Flush, Flushed, NoProperty
<1>3. Flush(s) = [[s EXCEPT !.word = NoWord] EXCEPT !.fields = G]
  <2> HIDE DEF s, G
  <2> QED BY <1>2
<1>4. [s EXCEPT !.word = NoWord] = State(NoWord, Unquoted, p, l, F)
      /\ [State(NoWord, Unquoted, p, l, F) EXCEPT !.fields = G] = State(NoWord, Unquoted, p, l, G)
  <2> HIDE DEF G
  <2> QED BY DEF State
<1> QED BY <1>3, <1>4, Zenon

LEMMA OpenStep ==
  ASSUME NEW w, ~IsLambda(w), NEW p \in Int, NEW l \in Nat, NEW F
  PROVE  ScanToken(State(w, Unquoted, p, l, F), Open) = State(NoWord, Unquoted, p + 1, l, Flushed(w, l, F))
<1> DEFINE s == State(w, Unquoted, p, l, F)
           G == Flushed(w, l, F)
<1>1. s.word = w /\ ~s.quoted /\ Flush(s) = State(NoWord, Unquoted, p, l, G)
  <2>1. s.word = w /\ s.quoted = Unquoted
    BY DEF State
  <2> QED BY <2>1, FlushStep DEF Unquoted
<1>2. OpenParen(s) = [State(NoWord, Unquoted, p, l, G) EXCEPT !.parens = @ + 1]
  <2> HIDE DEF s, G
  <2> QED BY <1>1 DEF OpenParen
<1>3. State(NoWord, Unquoted, p, l, G).parens = p
      /\ [State(NoWord, Unquoted, p, l, G) EXCEPT !.parens = p + 1] = State(NoWord, Unquoted, p + 1, l, G)
  <2> HIDE DEF G
  <2> QED BY DEF State
<1>4. ScanToken(s, Open) = OpenParen(s)
  <2> HIDE DEF s
  <2> QED BY <1>1 DEF ScanToken, Quote, Open
<1> QED BY <1>2, <1>3, <1>4, Zenon

LEMMA LambdaStep ==
  ASSUME NEW w, IsLambda(w), NEW p \in Int, NEW l \in Nat, NEW F, NEW G,
         G = IF l = 0 THEN F \cup {Collection(w)} ELSE F
  PROVE  ScanToken(State(w, Unquoted, p, l, F), Open) = State(NoWord, Unquoted, p + 1, l + 1, G)
<1> DEFINE s == State(w, Unquoted, p, l, F)
<1>1. s.word = w /\ ~s.quoted /\ s.lambdas = l /\ s.fields = F
  <2>1. s.word = w /\ s.quoted = Unquoted /\ s.lambdas = l /\ s.fields = F
    BY DEF State
  <2> QED BY <2>1 DEF Unquoted
<1>2. OpenParen(s) = [[s EXCEPT !.word = NoWord, !.lambdas = l + 1, !.fields = G] EXCEPT !.parens = @ + 1]
  <2> HIDE DEF s
  <2> QED BY <1>1 DEF OpenParen
<1>3. [s EXCEPT !.word = NoWord, !.lambdas = l + 1, !.fields = G]
        = [[[s EXCEPT !.word = NoWord] EXCEPT !.lambdas = l + 1] EXCEPT !.fields = G]
  <2> HIDE DEF s
  <2> QED OBVIOUS
<1>4. /\ [s EXCEPT !.word = NoWord] = State(NoWord, Unquoted, p, l, F)
      /\ [State(NoWord, Unquoted, p, l, F) EXCEPT !.lambdas = l + 1] = State(NoWord, Unquoted, p, l + 1, F)
      /\ [State(NoWord, Unquoted, p, l + 1, F) EXCEPT !.fields = G] = State(NoWord, Unquoted, p, l + 1, G)
      /\ [State(NoWord, Unquoted, p, l + 1, G) EXCEPT !.parens = p + 1] = State(NoWord, Unquoted, p + 1, l + 1, G)
      /\ State(NoWord, Unquoted, p, l + 1, G).parens = p
  <2>1. [s EXCEPT !.word = NoWord] = State(NoWord, Unquoted, p, l, F)
    BY DEF State
  <2> HIDE DEF s
  <2>2. [State(NoWord, Unquoted, p, l, F) EXCEPT !.lambdas = l + 1] = State(NoWord, Unquoted, p, l + 1, F)
    BY DEF State
  <2>3. [State(NoWord, Unquoted, p, l + 1, F) EXCEPT !.fields = G] = State(NoWord, Unquoted, p, l + 1, G)
    BY DEF State
  <2>4. [State(NoWord, Unquoted, p, l + 1, G) EXCEPT !.parens = p + 1] = State(NoWord, Unquoted, p + 1, l + 1, G)
    BY DEF State
  <2>5. State(NoWord, Unquoted, p, l + 1, G).parens = p
    BY DEF State
  <2> QED BY <2>1, <2>2, <2>3, <2>4, <2>5
<1>5. ScanToken(s, Open) = OpenParen(s)
  <2> HIDE DEF s
  <2> QED BY <1>1 DEF ScanToken, Quote, Open
<1> HIDE DEF s
<1>6. [s EXCEPT !.word = NoWord, !.lambdas = l + 1, !.fields = G] = State(NoWord, Unquoted, p, l + 1, G)
  BY <1>3, <1>4, Zenon
<1>7. [State(NoWord, Unquoted, p, l + 1, G) EXCEPT !.parens = @ + 1] = State(NoWord, Unquoted, p + 1, l + 1, G)
  BY <1>4, Zenon
<1> QED BY <1>2, <1>5, <1>6, <1>7, Zenon DEF s

LEMMA CloseStep ==
  ASSUME NEW w, NEW p \in Int, NEW l \in Nat, NEW F, NEW k, k = IF l > 0 /\ p - 1 < l THEN l - 1 ELSE l
  PROVE  ScanToken(State(w, Unquoted, p, l, F), Close) = State(NoWord, Unquoted, p - 1, k, Flushed(w, l, F))
<1> DEFINE s == State(w, Unquoted, p, l, F)
           G == Flushed(w, l, F)
           flush == State(NoWord, Unquoted, p, l, G)
<1>1. s.parens = p /\ ~s.quoted /\ Flush(s) = flush /\ flush.parens = p /\ flush.lambdas = l
  <2>1. s.parens = p /\ s.quoted = Unquoted
    BY DEF State
  <2>2. flush.parens = p /\ flush.lambdas = l
    <3> HIDE DEF G
    <3> QED BY DEF State
  <2> QED BY <2>1, <2>2, FlushStep DEF Unquoted
<1>2. CloseParen(s) = [[flush EXCEPT !.parens = p - 1] EXCEPT !.lambdas = k]
  <2>1. CloseParen(s) = [flush EXCEPT !.parens = p - 1, !.lambdas = k]
    <3> HIDE DEF s, flush
    <3> QED BY <1>1 DEF CloseParen, ClosesLambda
  <2> HIDE DEF s, flush
  <2> QED BY <2>1
<1>3. /\ [flush EXCEPT !.parens = p - 1] = State(NoWord, Unquoted, p - 1, l, G)
      /\ [State(NoWord, Unquoted, p - 1, l, G) EXCEPT !.lambdas = k] = State(NoWord, Unquoted, p - 1, k, G)
  <2> HIDE DEF G
  <2> QED BY DEF State
<1>4. ScanToken(s, Close) = CloseParen(s)
  <2> HIDE DEF s
  <2> QED BY <1>1 DEF ScanToken, Quote, Open, Close
<1> QED BY <1>2, <1>3, <1>4, Zenon

LEMMA WordSteps ==
  ASSUME NEW w, NEW p \in Int, NEW l \in Nat, NEW F, NEW t
  PROVE  /\ t \in Separators =>
              ScanToken(State(w, Unquoted, p, l, F), t) = State(NoWord, Unquoted, p, l, Flushed(w, l, F))
         /\ t \notin Delimiters => ScanToken(State(w, Unquoted, p, l, F), t) = State(t, Unquoted, p, l, F)
<1> DEFINE s == State(w, Unquoted, p, l, F)
<1>1. ~s.quoted /\ [s EXCEPT !.word = t] = State(t, Unquoted, p, l, F)
  <2>1. s.quoted = Unquoted /\ [s EXCEPT !.word = t] = State(t, Unquoted, p, l, F)
    BY DEF State
  <2> QED BY <2>1 DEF Unquoted
<1>2. Quote \notin {Open, Close} \cup Separators /\ {Open, Close} \cap Separators = {} /\ Open # Close
  BY DEF Quote, Open, Close, Separators, Space, Comma, Colon
<1>3. Delimiters = {Quote, Open, Close} \cup Separators
  BY DEF Delimiters, Separators
<1>4. /\ t \in Separators => ScanToken(s, t) = Flush(s)
      /\ t \notin Delimiters => ScanToken(s, t) = [s EXCEPT !.word = t]
  <2> HIDE DEF s
  <2> QED BY <1>1, <1>2, <1>3 DEF ScanToken
<1> QED BY <1>1, <1>4, FlushStep

LEMMA QuoteSteps ==
  ASSUME NEW w, NEW p \in Int, NEW l \in Nat, NEW F
  PROVE  /\ ScanToken(State(w, Unquoted, p, l, F), Quote) = State(w, Quoted, p, l, F)
         /\ ScanToken(State(w, Quoted, p, l, F), Quote) = State(w, Unquoted, p, l, F)
         /\ \A t : t # Quote => ScanToken(State(w, Quoted, p, l, F), t) = State(w, Quoted, p, l, F)
<1> DEFINE s == State(w, Unquoted, p, l, F)
           q == State(w, Quoted, p, l, F)
<1>1. /\ s.quoted = Unquoted /\ q.quoted = Quoted
      /\ [s EXCEPT !.quoted = Quoted] = q /\ [q EXCEPT !.quoted = Unquoted] = s
  BY DEF State
<1> HIDE DEF s, q
<1>2. ScanToken(s, Quote) = q /\ ScanToken(q, Quote) = s /\ \A t : t # Quote => ScanToken(q, t) = q
  BY <1>1 DEF ScanToken, Quoted, Unquoted
<1> QED BY <1>2 DEF s, q

\* Readings one after the other, of nothing and of one token.
LEMMA ReadsNothing == ASSUME NEW s PROVE Reads(<< >>, s, s)
<1> DEFINE h == [i \in 0 .. 0 |-> s]
<1>1. Len(<< >>) = 0 /\ h[0] = s
  OBVIOUS
<1> HIDE DEF h
<1> QED BY <1>1 DEF Reads

LEMMA ReadsToken == ASSUME NEW s, NEW t PROVE Reads(<<t>>, s, ScanToken(s, t))
<1> DEFINE h == [i \in 0 .. 1 |-> IF i = 0 THEN s ELSE ScanToken(s, t)]
<1>1. Len(<<t>>) = 1 /\ h[0] = s /\ h[1] = ScanToken(s, t)
  OBVIOUS
<1>2. \A i \in 1 .. 1 : h[i] = ScanToken(h[i - 1], <<t>>[i])
  OBVIOUS
<1> QED BY <1>1, <1>2 DEF Reads

LEMMA ReadsOn ==
  ASSUME NEW S, NEW a \in Seq(S), NEW b \in Seq(S), NEW s, NEW u, NEW v,
         Reads(a, s, u), Reads(b, u, v)
  PROVE  Reads(a \o b, s, v)
<1>1. PICK f :
        f[0] = s /\ f[Len(a)] = u /\ \A i \in 1 .. Len(a) : f[i] = ScanToken(f[i - 1], a[i])
  BY DEF Reads
<1>2. PICK g :
        g[0] = u /\ g[Len(b)] = v /\ \A i \in 1 .. Len(b) : g[i] = ScanToken(g[i - 1], b[i])
  BY DEF Reads
<1>3. /\ Len(a) \in Nat /\ Len(b) \in Nat /\ Len(a \o b) = Len(a) + Len(b)
      /\ \A i \in 1 .. Len(a) : (a \o b)[i] = a[i]
      /\ \A i \in Len(a) + 1 .. Len(a) + Len(b) : (a \o b)[i] = b[i - Len(a)]
  BY ConcatProperties, LenProperties
<1> DEFINE m == Len(a)
           n == Len(b)
           h == [i \in 0 .. m + n |-> IF i <= m THEN f[i] ELSE g[i - m]]
<1>4. h[0] = s /\ h[m + n] = v
  <2>1. \A i \in 0 .. m + n : IF i <= m THEN i \in 0 .. m ELSE i - m \in 0 .. n
    BY <1>3
  <2>2. h[m + n] = v
    <3>1. CASE n = 0
      BY <1>1, <1>2, <1>3, <3>1
    <3>2. CASE n > 0
      BY <1>2, <1>3, <3>2
    <3> QED BY <1>3, <3>1, <3>2
  <2> QED BY <1>1, <1>2, <1>3, <2>1, <2>2
<1>5. ASSUME NEW i \in 1 .. m + n PROVE h[i] = ScanToken(h[i - 1], (a \o b)[i])
  <2>1. CASE i <= m
    BY <1>1, <1>3, <2>1
  <2>2. CASE i > m
    <3>1. i - m \in 1 .. n /\ i \in m + 1 .. m + n /\ (i - m) - 1 = (i - 1) - m
      BY <1>3, <2>2
    <3>2. h[i] = g[i - m] /\ (a \o b)[i] = b[i - m]
      BY <1>3, <2>2, <3>1
    <3>3. h[i - 1] = g[(i - m) - 1]
      <4>0. i - 1 \in 0 .. m + n
        BY <1>3
      <4>1. CASE i = m + 1
        <5>1. i - 1 = m /\ (i - m) - 1 = 0
          BY <1>3, <4>1
        <5>2. h[i - 1] = f[m]
          BY <1>3, <4>0, <5>1
        <5> QED BY <1>1, <1>2, <5>1, <5>2
      <4>2. CASE i # m + 1
        <5>1. ~(i - 1 <= m)
          <6> HIDE DEF m, n
          <6> QED BY <1>3, <2>2, <4>2 DEF m
        <5> QED BY <3>1, <4>0, <5>1
      <4> QED BY <4>1, <4>2
    <3> QED BY <1>2, <3>1, <3>2, <3>3
  <2> QED BY <1>3, <2>1, <2>2
<1> HIDE DEF h
<1> QED BY <1>3, <1>4, <1>5 DEF Reads

\* Induction, with a set for the predicate.
LEMMA NatSetInduction ==
  ASSUME NEW S, 0 \in S, \A n \in Nat : n \in S => n + 1 \in S
  PROVE  Nat \subseteq S
<1> DEFINE T == Nat \ S
           R == {p \in Nat \X Nat : p[1] < p[2]}
<1> SUFFICES ASSUME T # {} PROVE FALSE
  OBVIOUS
<1>1. IsWellFoundedOn(R, Nat)
  BY NatLessThanWellFounded DEF OpToRel
<1>2. PICK x \in T : \A y \in T : <<y, x>> \notin R
  <2>1. T \subseteq Nat
    OBVIOUS
  <2> HIDE DEF T, R
  <2> QED BY <1>1, <2>1, WFMin
<1>3. x \in Nat /\ x # 0
  OBVIOUS
<1>4. x - 1 \in Nat /\ (x - 1) + 1 = x
  BY <1>3
<1>5. x - 1 \in T
  BY <1>3, <1>4
<1>6. <<x - 1, x>> \in R
  BY <1>3, <1>4
<1> QED BY <1>2, <1>5, <1>6
\* What FlattenSeq is: there are such flattened beginnings, and it chooses the last.
LEMMA Flattening ==
  ASSUME NEW S, NEW seqs \in Seq(Seq(S)), seqs # << >>
  PROVE  \E f \in [1 .. Len(seqs) -> Seq(S)] :
           /\ FlattenSeq(seqs) = f[Len(seqs)]
           /\ f[1] = seqs[1]
           /\ \A i \in 2 .. Len(seqs) : f[i] = f[i - 1] \o seqs[i]
<1> DEFINE n == Len(seqs)
           T == {m \in Nat : m <= n => \E g \in [1 .. m -> Seq(S)] :
                   \A i \in 1 .. m : g[i] = IF i = 1 THEN seqs[i] ELSE g[i - 1] \o seqs[i]}
<1>1. n \in Nat \ {0} /\ \A i \in 1 .. n : seqs[i] \in Seq(S)
  BY EmptySeq, LenProperties, ElementOfSeq
<1> HIDE DEF n
<1>2. 0 \in T
  <2>1. [i \in 1 .. 0 |-> << >>] \in [1 .. 0 -> Seq(S)]
    OBVIOUS
  <2>2. \A i \in 1 .. 0 : FALSE
    OBVIOUS
  <2> QED BY <2>1, <2>2
<1>3. ASSUME NEW m \in Nat, m \in T PROVE m + 1 \in T
  <2> SUFFICES ASSUME m + 1 <= n
               PROVE  \E g \in [1 .. m + 1 -> Seq(S)] :
                        \A i \in 1 .. m + 1 : g[i] = IF i = 1 THEN seqs[i] ELSE g[i - 1] \o seqs[i]
    BY <1>1
  <2>1. PICK g \in [1 .. m -> Seq(S)] :
          \A i \in 1 .. m : g[i] = IF i = 1 THEN seqs[i] ELSE g[i - 1] \o seqs[i]
    <3>1. m <= n
      BY <1>1
    <3> QED BY <1>3, <3>1
  <2> DEFINE last == IF m = 0 THEN seqs[1] ELSE g[m] \o seqs[m + 1]
             h == [i \in 1 .. m + 1 |-> IF i = m + 1 THEN last ELSE g[i]]
  <2>2. last \in Seq(S)
    <3>1. CASE m = 0
      BY <1>1, <3>1
    <3>2. CASE m # 0
      <4>1. g[m] \in Seq(S) /\ seqs[m + 1] \in Seq(S)
        BY <1>1, <3>2
      <4> QED BY <3>2, <4>1, ConcatProperties
    <3> QED BY <3>1, <3>2
  <2> HIDE DEF last
  <2>3. h \in [1 .. m + 1 -> Seq(S)]
    BY <2>2
  <2>4. ASSUME NEW i \in 1 .. m + 1
        PROVE  h[i] = IF i = 1 THEN seqs[i] ELSE h[i - 1] \o seqs[i]
    <3>1. CASE i = m + 1 /\ m = 0
      BY <3>1 DEF last
    <3>2. CASE i = m + 1 /\ m # 0
      <4>0. last = g[m] \o seqs[m + 1]
        BY <3>2 DEF last
      <4>1. i # 1 /\ i - 1 = m /\ m # m + 1 /\ m \in 1 .. m + 1
        BY <3>2
      <4>2. h[i] = last /\ h[i - 1] = g[m]
        BY <3>2, <4>1
      <4>3. h[i] = g[m] \o seqs[m + 1]
        BY <4>0, <4>1, <4>2
      <4> QED BY <3>2, <4>1, <4>2, <4>3
    <3>3. CASE i # m + 1
      <4>1. i \in 1 .. m /\ h[i] = g[i] /\ (i # 1 => h[i - 1] = g[i - 1])
        BY <3>3
      <4> QED BY <2>1, <4>1
    <3> QED BY <3>1, <3>2, <3>3
  <2> HIDE DEF h
  <2> QED BY <2>3, <2>4
<1>4. Nat \subseteq T
  <2> HIDE DEF T
  <2> QED BY <1>2, <1>3, NatSetInduction
<1>5. PICK g \in [1 .. n -> Seq(S)] :
        \A i \in 1 .. n : g[i] = IF i = 1 THEN seqs[i] ELSE g[i - 1] \o seqs[i]
  <2>1. n \in T
    <3> HIDE DEF T
    <3> QED BY <1>1, <1>4
  <2>2. n <= n
    BY <1>1
  <2> QED BY <2>1, <2>2
<1> DEFINE Step(f) == [i \in 1 .. n |-> IF i = 1 THEN seqs[i] ELSE f[i - 1] \o seqs[i]]
           f == CHOOSE f : f = Step(f)
<1>6. g = Step(g)
  BY <1>5
<1>7. f = Step(f)
  <2> HIDE DEF Step
  <2> QED BY <1>6
<1>8. FlattenSeq(seqs) = f[n]
  BY <1>1 DEF FlattenSeq, n
<1> HIDE DEF f
<1>9. \A i \in 1 .. n : f[i] = IF i = 1 THEN seqs[i] ELSE f[i - 1] \o seqs[i]
  BY <1>7
<1> DEFINE U == {m \in Nat : m \in 1 .. n => f[m] = g[m]}
<1>10. 0 \in U
  OBVIOUS
<1>11. ASSUME NEW m \in Nat, m \in U PROVE m + 1 \in U
  <2> SUFFICES ASSUME m + 1 \in 1 .. n PROVE f[m + 1] = g[m + 1]
    OBVIOUS
  <2>1. CASE m = 0
    <3>1. m + 1 = 1 /\ 1 \in 1 .. n
      BY <1>1, <2>1
    <3>2. f[1] = seqs[1] /\ g[1] = seqs[1]
      BY <1>5, <1>9, <3>1
    <3> QED BY <3>1, <3>2
  <2>2. CASE m # 0
    <3>1. m \in 1 .. n /\ m + 1 # 1 /\ (m + 1) - 1 = m
      BY <1>1, <2>2
    <3>2. f[m] = g[m]
      BY <1>11, <3>1
    <3>3. f[m + 1] = f[(m + 1) - 1] \o seqs[m + 1]
      BY <1>9, <3>1
    <3>4. g[m + 1] = g[(m + 1) - 1] \o seqs[m + 1]
      BY <1>5, <3>1
    <3> QED BY <3>1, <3>2, <3>3, <3>4
  <2> QED BY <2>1, <2>2
<1>12. Nat \subseteq U
  <2> HIDE DEF U
  <2> QED BY <1>10, <1>11, NatSetInduction
<1>13. f = g
  <2>1. \A i \in 1 .. n : f[i] = g[i]
    BY <1>1, <1>12
  <2>2. f = [i \in 1 .. n |-> f[i]] /\ g = [i \in 1 .. n |-> g[i]]
    BY <1>5, <1>7
  <2> QED BY <2>1, <2>2
<1>14. n \in 1 .. n /\ 1 \in 1 .. n /\ \A i \in 2 .. n : i \in 1 .. n /\ i # 1
  BY <1>1
<1>15. g[1] = seqs[1] /\ \A i \in 2 .. n : g[i] = g[i - 1] \o seqs[i]
  BY <1>5, <1>14
<1> QED BY <1>5, <1>8, <1>13, <1>15 DEF n

\* A flattened text is read through the regions that its parts are read through.
LEMMA FlattenReads ==
  ASSUME NEW S, NEW seqs \in Seq(Seq(S)), seqs # << >>, NEW R,
         \A i \in 1 .. Len(seqs) : \A s \in R[i - 1] : \E u \in R[i] : Reads(seqs[i], s, u)
  PROVE  /\ FlattenSeq(seqs) \in Seq(S)
         /\ \A s \in R[0] : \E u \in R[Len(seqs)] : Reads(FlattenSeq(seqs), s, u)
<1> DEFINE n == Len(seqs)
<1>1. n \in Nat \ {0} /\ \A i \in 1 .. n : seqs[i] \in Seq(S)
  BY EmptySeq, LenProperties, ElementOfSeq
<1>2. PICK f \in [1 .. n -> Seq(S)] :
        /\ FlattenSeq(seqs) = f[n]
        /\ f[1] = seqs[1]
        /\ \A i \in 2 .. n : f[i] = f[i - 1] \o seqs[i]
  BY Flattening
<1> HIDE DEF n
<1> SUFFICES ASSUME NEW s \in R[0] PROVE \E u \in R[n] : Reads(f[n], s, u)
  BY <1>1, <1>2 DEF n
<1>3. \A i \in 1 .. n : \A q \in R[i - 1] : \E u \in R[i] : Reads(seqs[i], q, u)
  BY DEF n
<1> DEFINE T == {m \in Nat : m \in 1 .. n => \E u \in R[m] : Reads(f[m], s, u)}
<1>4. 0 \in T
  OBVIOUS
<1>5. ASSUME NEW m \in Nat, m \in T PROVE m + 1 \in T
  <2> SUFFICES ASSUME m + 1 \in 1 .. n PROVE \E u \in R[m + 1] : Reads(f[m + 1], s, u)
    OBVIOUS
  <2>1. CASE m = 0
    <3>1. 0 + 1 = 1 /\ 1 - 1 = 0 /\ 1 \in 1 .. n
      BY <1>1
    <3>2. \E u \in R[1] : Reads(seqs[1], s, u)
      BY <1>3, <3>1
    <3> QED BY <1>2, <2>1, <3>1, <3>2
  <2>2. CASE m # 0
    <3>1. m \in 1 .. n /\ (m + 1) - 1 = m /\ m + 1 \in 2 .. n
      BY <1>1, <2>2
    <3>2. PICK q \in R[m] : Reads(f[m], s, q)
      BY <1>5, <3>1
    <3>3. PICK u \in R[m + 1] : Reads(seqs[m + 1], q, u)
      BY <1>3, <3>1
    <3>4. f[m] \in Seq(S) /\ seqs[m + 1] \in Seq(S) /\ f[m + 1] = f[m] \o seqs[m + 1]
      BY <1>1, <1>2, <3>1
    <3>5. Reads(f[m + 1], s, u)
      BY <3>2, <3>3, <3>4, ReadsOn
    <3> QED BY <3>5
  <2> QED BY <2>1, <2>2
<1>6. Nat \subseteq T
  <2> HIDE DEF T
  <2> QED BY <1>4, <1>5, NatSetInduction
<1>7. n \in T
  <2> HIDE DEF T
  <2> QED BY <1>1, <1>6
<1> QED BY <1>1, <1>7

LEMMA FlattenType ==
  ASSUME NEW S, NEW seqs \in Seq(Seq(S))
  PROVE  FlattenSeq(seqs) \in Seq(S)
<1>1. CASE seqs = << >>
  <2>1. Len(seqs) = 0 /\ << >> \in Seq(S)
    BY <1>1, EmptySeq
  <2> QED BY <1>1, <2>1 DEF FlattenSeq
<1>2. CASE seqs # << >>
  <2>1. Len(seqs) \in Nat \ {0}
    BY <1>2, EmptySeq
  <2>2. PICK f \in [1 .. Len(seqs) -> Seq(S)] : FlattenSeq(seqs) = f[Len(seqs)]
    BY <1>2, Flattening
  <2>3. Len(seqs) \in 1 .. Len(seqs)
    BY <2>1
  <2> QED BY <2>2, <2>3, Zenon
<1> QED BY <1>1, <1>2

LEMMA FunctionIsSeq ==
  ASSUME NEW S, NEW n \in Nat, NEW f \in [1 .. n -> S]
  PROVE  f \in Seq(S) /\ Len(f) = n
<1>1. f = [i \in 1 .. n |-> f[i]] /\ \A i \in 1 .. n : f[i] \in S
  OBVIOUS
<1>2. [i \in 1 .. n |-> f[i]] \in Seq(S)
  BY <1>1, IsASeq
<1>3. DOMAIN f = 1 .. n /\ Len(f) \in Nat /\ DOMAIN f = 1 .. Len(f)
  BY <1>1, <1>2, LenProperties
<1> QED BY <1>1, <1>2, <1>3

\* A few tokens after each other.
LEMMA ReadsTwo ==
  ASSUME NEW a, NEW b, NEW s, NEW u, NEW v,
         ScanToken(s, a) = u, ScanToken(u, b) = v
  PROVE  Reads(<<a, b>>, s, v)
<1> DEFINE h == [i \in 0 .. 2 |-> IF i = 0 THEN s ELSE IF i = 1 THEN u ELSE v]
<1>1. Len(<<a, b>>) = 2 /\ h[0] = s /\ h[2] = v
  OBVIOUS
<1>2. /\ h[1] = ScanToken(h[1 - 1], <<a, b>>[1])
      /\ h[2] = ScanToken(h[2 - 1], <<a, b>>[2])
  OBVIOUS
<1>3. \A i \in 1 .. 2 : i = 1 \/ i = 2
  OBVIOUS
<1> HIDE DEF h
<1>4. \A i \in 1 .. 2 : h[i] = ScanToken(h[i - 1], <<a, b>>[i])
  BY <1>2, <1>3
<1> QED BY <1>1, <1>4 DEF Reads

LEMMA ReadsThree ==
  ASSUME NEW a, NEW b, NEW c, NEW s, NEW u, NEW v, NEW x,
         ScanToken(s, a) = u, ScanToken(u, b) = v, ScanToken(v, c) = x
  PROVE  Reads(<<a, b, c>>, s, x)
<1> DEFINE h == [i \in 0 .. 3 |-> IF i = 0 THEN s ELSE IF i = 1 THEN u ELSE IF i = 2 THEN v ELSE x]
<1>1. Len(<<a, b, c>>) = 3 /\ h[0] = s /\ h[3] = x
  OBVIOUS
<1>2. /\ h[1] = ScanToken(h[1 - 1], <<a, b, c>>[1])
      /\ h[2] = ScanToken(h[2 - 1], <<a, b, c>>[2])
      /\ h[3] = ScanToken(h[3 - 1], <<a, b, c>>[3])
  OBVIOUS
<1>3. \A i \in 1 .. 3 : i = 1 \/ i = 2 \/ i = 3
  OBVIOUS
<1> HIDE DEF h
<1>4. \A i \in 1 .. 3 : h[i] = ScanToken(h[i - 1], <<a, b, c>>[i])
  BY <1>2, <1>3
<1> QED BY <1>1, <1>4 DEF Reads

LEMMA ReadsFour ==
  ASSUME NEW a, NEW b, NEW c, NEW d, NEW s, NEW u, NEW v, NEW x, NEW y,
         ScanToken(s, a) = u, ScanToken(u, b) = v, ScanToken(v, c) = x, ScanToken(x, d) = y
  PROVE  Reads(<<a, b, c, d>>, s, y)
<1> DEFINE h == [i \in 0 .. 4 |-> IF i = 0 THEN s ELSE IF i = 1 THEN u ELSE IF i = 2 THEN v ELSE IF i = 3 THEN x ELSE y]
<1>1. Len(<<a, b, c, d>>) = 4 /\ h[0] = s /\ h[4] = y
  OBVIOUS
<1>2. /\ h[1] = ScanToken(h[1 - 1], <<a, b, c, d>>[1])
      /\ h[2] = ScanToken(h[2 - 1], <<a, b, c, d>>[2])
      /\ h[3] = ScanToken(h[3 - 1], <<a, b, c, d>>[3])
      /\ h[4] = ScanToken(h[4 - 1], <<a, b, c, d>>[4])
  OBVIOUS
<1>3. \A i \in 1 .. 4 : i = 1 \/ i = 2 \/ i = 3 \/ i = 4
  OBVIOUS
<1> HIDE DEF h
<1>4. \A i \in 1 .. 4 : h[i] = ScanToken(h[i - 1], <<a, b, c, d>>[i])
  BY <1>2, <1>3
<1> QED BY <1>1, <1>4 DEF Reads

\* The words that are no properties; the tokens of a text (all of them in Token,
\* but that a string is in STRING the provers do not know).
Tokens == Token \cup NoProperty \cup Delimiters \cup {Append(word, operator) : word \in Token, operator \in {"any", "all"}}

LEMMA Words ==
  /\ NoWord \in NoProperty
  /\ NoProperty \cap Delimiters = {}
  /\ \A word \in NoProperty : ~IsLambda(word)
  /\ \A word \in NoProperty : \A l, F : Flushed(word, l, F) = F
<1>1. (\A x, y : <<x>> = <<y>> => x = y) /\ \A x : <<x>> # << >>
  <2>1. \A x : <<x>>[1] = x
    OBVIOUS
  <2> QED BY <2>1
<1>2. NoWord \notin Delimiters
  BY <1>1 DEF NoWord, Delimiters, Open, Close, Quote, Space, Comma, Colon
<1> DEFINE marks == {"(", ")", "'", " ", ",", ":"}
           names == {"eq", "ne", "gt", "ge", "lt", "le", "and", "or", "not", "in", "null",
                     "true", "false", "contains", "startswith", "endswith"}
           numbers == {"1", "2", "2026-01-02T03:04:05Z"}
<1>3. Operators \cap Delimiters = {} /\ Literalish \cap Delimiters = {}
  <2>1. names \cap marks = {} /\ numbers \cap marks = {}
    OBVIOUS
  <2>2. Delimiters = {<<x>> : x \in marks}
    BY DEF Delimiters, Open, Close, Quote, Space, Comma, Colon
  <2>3. Operators = {<<x>> : x \in names} /\ Literalish = {<<x>> : x \in numbers}
    BY DEF Operators, Literalish
  <2> HIDE DEF marks, names, numbers
  <2> QED BY <1>1, <2>1, <2>2, <2>3
<1>4. \A word \in NoProperty : ~IsLambda(word)
  BY DEF NoProperty, Operators, Literalish, NoWord, IsLambda
<1> QED BY <1>2, <1>3, <1>4 DEF NoProperty, Flushed

\* Between its quotes, a text leaves the scan as it was, whatever is in it.
LEMMA QuotedReads ==
  ASSUME NEW value \in Seq(Tokens), NEW w, NEW p \in Int, NEW l \in Nat, NEW F
  PROVE  /\ QuoteODataString(value) \in Seq(Tokens)
         /\ Reads(QuoteODataString(value), State(w, Unquoted, p, l, F), State(w, Unquoted, p, l, F))
<1> DEFINE s == State(w, Unquoted, p, l, F)
           q == State(w, Quoted, p, l, F)
           n == Len(value)
           seqs == [i \in 1 .. n |-> IF value[i] = Quote THEN <<Quote, Quote>> ELSE <<value[i]>>]
<1>2. Quote \in Tokens
  BY DEF Tokens, Delimiters
<1>3. ScanToken(s, Quote) = q /\ ScanToken(q, Quote) = s /\ \A t : t # Quote => ScanToken(q, t) = q
  BY QuoteSteps
<1>4. n \in Nat /\ \A i \in 1 .. n : value[i] \in Tokens
  BY LenProperties, ElementOfSeq
<1> HIDE DEF s, q, n
<1>5. seqs \in [1 .. n -> Seq(Tokens)]
  BY <1>2, <1>4
<1>6. seqs \in Seq(Seq(Tokens)) /\ Len(seqs) = n
  <2> HIDE DEF seqs
  <2> QED BY <1>4, <1>5, FunctionIsSeq
<1>7. QuoteODataString(value) = <<Quote>> \o FlattenSeq(seqs) \o <<Quote>>
  BY LenProperties DEF QuoteODataString, n
<1>8. FlattenSeq(seqs) \in Seq(Tokens)
  <2> HIDE DEF seqs
  <2> QED BY <1>6, FlattenType
<1>9. Reads(FlattenSeq(seqs), q, q)
  <2>1. CASE n = 0
    <3>1. seqs = << >>
      BY <1>6, <2>1
    <3>2. FlattenSeq(seqs) = << >>
      <4> HIDE DEF seqs
      <4> QED BY <1>6, <2>1, <3>1 DEF FlattenSeq
    <3> QED BY <3>2, ReadsNothing
  <2>2. CASE n # 0
    <3> DEFINE R == [i \in 0 .. n |-> {q}]
    <3>2. ASSUME NEW i \in 1 .. n PROVE Reads(seqs[i], q, q)
      <4>1. CASE value[i] = Quote
        <5>1. Reads(<<Quote, Quote>>, q, q)
          BY <1>2, <1>3, ReadsTwo
        <5> QED BY <4>1, <5>1
      <4>2. CASE value[i] # Quote
        <5>1. Reads(<<value[i]>>, q, q)
          BY <1>3, <1>4, <4>2, ReadsToken
        <5> QED BY <4>2, <5>1
      <4> QED BY <4>1, <4>2
    <3>3. seqs # << >>
      BY <1>4, <1>6, <2>2
    <3>4. \A i \in 1 .. n : \A a \in R[i - 1] : \E u \in R[i] : Reads(seqs[i], a, u)
      <4> HIDE DEF seqs
      <4> QED BY <1>4, <3>2
    <3>5. R[0] = {q} /\ R[n] = {q}
      BY <1>4
    <3>6. \A a \in R[0] : \E u \in R[n] : Reads(FlattenSeq(seqs), a, u)
      <4> HIDE DEF seqs, R
      <4> QED BY <1>6, <3>3, <3>4, FlattenReads
    <3> HIDE DEF seqs, R
    <3> QED BY <3>5, <3>6
  <2> QED BY <2>1, <2>2
<1>10. Reads(<<Quote>>, s, q) /\ Reads(<<Quote>>, q, s)
  BY <1>3, ReadsToken
<1> HIDE DEF seqs
<1>11. <<Quote>> \in Seq(Tokens) /\ <<Quote>> \o FlattenSeq(seqs) \in Seq(Tokens)
  BY <1>2, <1>8, ConcatProperties
<1>12. Reads(<<Quote>> \o FlattenSeq(seqs), s, q)
  BY <1>8, <1>9, <1>10, <1>11, ReadsOn
<1>13. Reads(<<Quote>> \o FlattenSeq(seqs) \o <<Quote>>, s, s)
  BY <1>10, <1>11, <1>12, ReadsOn
<1> QED BY <1>7, <1>11, <1>13, ConcatProperties DEF s

\* A value is written as one word that is no property, or between quotes.
Values ==
  {Plain(word) : word \in {x \in STRING : <<x>> \in Operators \cup Literalish}}
  \cup {Text(text) : text \in Seq(Token)}

LEMMA LiteralReads ==
  ASSUME NEW value \in Values, NEW p \in Int, NEW l \in Nat, NEW F
  PROVE  /\ LiteralOf(value) \in Seq(Tokens)
         /\ \E w \in NoProperty : Reads(LiteralOf(value), State(NoWord, Unquoted, p, l, F), State(w, Unquoted, p, l, F))
<1>1. CASE \E word : value = Plain(word) /\ <<word>> \in Operators \cup Literalish
  <2>1. PICK word : value = Plain(word) /\ <<word>> \in Operators \cup Literalish
    BY <1>1
  <2>2. LiteralOf(value) = << <<word>> >>
    BY <2>1 DEF LiteralOf, Plain
  <2>3. <<word>> \in NoProperty /\ <<word>> \notin Delimiters /\ <<word>> \in Tokens
    BY <2>1, Words DEF NoProperty, Tokens
  <2>4. ScanToken(State(NoWord, Unquoted, p, l, F), <<word>>) = State(<<word>>, Unquoted, p, l, F)
    BY <2>3, WordSteps
  <2>5. Reads(<< <<word>> >>, State(NoWord, Unquoted, p, l, F), State(<<word>>, Unquoted, p, l, F))
    BY <2>4, ReadsToken
  <2> QED BY <2>2, <2>3, <2>5
<1>2. CASE \E text \in Seq(Token) : value = Text(text)
  <2>1. PICK text \in Seq(Token) : value = Text(text)
    BY <1>2
  <2>2. LiteralOf(value) = QuoteODataString(text)
    BY <2>1 DEF LiteralOf, Text
  <2>3. text \in Seq(Tokens)
    BY SeqMonotonic DEF Tokens
  <2>4. NoWord \in NoProperty
    BY Words
  <2> QED BY <2>2, <2>3, <2>4, QuotedReads
<1> QED BY <1>1, <1>2 DEF Values

\* What reading a text outside literals comes to, of p parentheses and l lambdas
\* that are open and the fields F: k lambdas are open then, and the fields are G.
Outcome(fields, lambda, overtaken, p, l, F, k, G) ==
  /\ k \in l .. p /\ (~lambda => k = l)
  /\ F \subseteq G /\ G \subseteq F \cup fields
  /\ l > 0 => G = F
  /\ l = 0 /\ ~overtaken => G = F \cup fields

ReadsAs(text, fields, lambda, overtaken) ==
  /\ text \in Seq(Tokens)
  /\ \A p \in Nat : \A F : \A l \in 0 .. p : \E w \in NoProperty, k \in Nat : \E G :
       /\ Outcome(fields, lambda, overtaken, p, l, F, k, G)
       /\ Reads(text, State(NoWord, Unquoted, p, l, F), State(w, Unquoted, p, k, G))

Parts == {"text", "fields", "raw", "tree", "lambda", "overtaken"}

Clean(e) == DOMAIN e = Parts /\ (~e.raw => ReadsAs(e.text, e.fields, e.lambda, e.overtaken))

\* Comparisons, functions and lists: one property and no lambda.
LEMMA PlainClean ==
  ASSUME NEW text \in Seq(Tokens), NEW field, field \notin NoProperty, NEW tree,
         \A p \in Nat : \A F : \A l \in 0 .. p : \E w \in NoProperty :
           Reads(text, State(NoWord, Unquoted, p, l, F), State(w, Unquoted, p, l, Flushed(field, l, F)))
  PROVE  Clean(Expr(text, {field}, tree))
<1> DEFINE e == Expr(text, {field}, tree)
<1>1. DOMAIN e = Parts /\ e.text = text /\ e.fields = {field} /\ ~e.lambda /\ ~e.overtaken
  BY DEF Expr, Parts
<1> HIDE DEF e
<1>2. ASSUME NEW p \in Nat, NEW F, NEW l \in 0 .. p
      PROVE  Outcome({field}, e.lambda, e.overtaken, p, l, F, l, Flushed(field, l, F))
  BY <1>1 DEF Outcome, Flushed
<1>3. \A p \in Nat : \A F : \A l \in 0 .. p : l \in Nat
  OBVIOUS
<1>4. ReadsAs(text, {field}, e.lambda, e.overtaken)
  BY <1>2, <1>3 DEF ReadsAs
<1> QED BY <1>1, <1>4 DEF Clean, e

Properties == Token \ (NoProperty \cup Delimiters)

\* A property and an operator, then a space.
LEMMA FieldReads ==
  ASSUME NEW field \in Properties, NEW operator, <<operator>> \in Operators,
         NEW p \in Int, NEW l \in Nat, NEW F
  PROVE  /\ <<field, Space, <<operator>>, Space>> \in Seq(Tokens)
         /\ Reads(<<field, Space, <<operator>>, Space>>, State(NoWord, Unquoted, p, l, F),
                  State(NoWord, Unquoted, p, l, Flushed(field, l, F)))
<1> DEFINE G == Flushed(field, l, F)
<1>1. field \in Tokens /\ Space \in Tokens /\ <<operator>> \in Tokens
  BY DEF Properties, Tokens, Delimiters, NoProperty
<1>2. field \notin Delimiters /\ <<operator>> \notin Delimiters /\ <<operator>> \in NoProperty /\ Space \in Separators
  BY Words DEF Properties, NoProperty, Separators
<1>3. Flushed(<<operator>>, l, G) = G
  BY <1>2, Words
<1> HIDE DEF G
<1>4. /\ ScanToken(State(NoWord, Unquoted, p, l, F), field) = State(field, Unquoted, p, l, F)
      /\ ScanToken(State(field, Unquoted, p, l, F), Space) = State(NoWord, Unquoted, p, l, G)
      /\ ScanToken(State(NoWord, Unquoted, p, l, G), <<operator>>) = State(<<operator>>, Unquoted, p, l, G)
      /\ ScanToken(State(<<operator>>, Unquoted, p, l, G), Space) = State(NoWord, Unquoted, p, l, G)
  BY <1>2, <1>3, WordSteps DEF G
<1> QED BY <1>1, <1>4, ReadsFour DEF G

LEMMA ComparisonClean ==
  ASSUME NEW field \in Properties, NEW operator, <<operator>> \in Operators, NEW value \in Values
  PROVE  Clean(Comparison(field, operator, value))
<1> DEFINE start == <<field, Space, <<operator>>, Space>>
           text == start \o LiteralOf(value)
<1>1. start \in Seq(Tokens) /\ LiteralOf(value) \in Seq(Tokens) /\ text \in Seq(Tokens)
  <2>1. 0 \in Int /\ 0 \in Nat
    OBVIOUS
  <2>2. start \in Seq(Tokens) /\ LiteralOf(value) \in Seq(Tokens)
    BY <2>1, FieldReads, LiteralReads
  <2> QED BY <2>2, ConcatProperties
<1>2. field \notin NoProperty
  BY DEF Properties
<1>3. ASSUME NEW p \in Nat, NEW F, NEW l \in 0 .. p
      PROVE  \E w \in NoProperty :
               Reads(text, State(NoWord, Unquoted, p, l, F), State(w, Unquoted, p, l, Flushed(field, l, F)))
  <2>1. p \in Int /\ l \in Nat
    OBVIOUS
  <2>2. Reads(start, State(NoWord, Unquoted, p, l, F), State(NoWord, Unquoted, p, l, Flushed(field, l, F)))
    BY <2>1, FieldReads
  <2>3. PICK w \in NoProperty :
          Reads(LiteralOf(value), State(NoWord, Unquoted, p, l, Flushed(field, l, F)),
                State(w, Unquoted, p, l, Flushed(field, l, F)))
    BY <2>1, LiteralReads
  <2> HIDE DEF start
  <2> QED BY <1>1, <2>2, <2>3, ReadsOn
<1> HIDE DEF text
<1>4. Clean(Expr(text, {field}, Compare(field, <<operator>>, Meant(value))))
  BY <1>1, <1>2, <1>3, PlainClean
<1> QED BY <1>4 DEF Comparison, text

LEMMA FunctionClean ==
  ASSUME NEW name, <<name>> \in Operators, NEW field \in Properties, NEW value \in Values
  PROVE  Clean(Function(name, field, value))
<1> DEFINE start == << <<name>>, Open, field, Comma>>
           middle == start \o LiteralOf(value)
           text == middle \o <<Close>>
<1>1. field \in Tokens /\ Open \in Tokens /\ Comma \in Tokens /\ Close \in Tokens /\ <<name>> \in Tokens
  BY DEF Properties, Tokens, Delimiters, NoProperty
<1>2. start \in Seq(Tokens) /\ LiteralOf(value) \in Seq(Tokens) /\ <<Close>> \in Seq(Tokens)
  <2>1. 0 \in Int /\ 0 \in Nat
    OBVIOUS
  <2> QED BY <1>1, <2>1, LiteralReads
<1> HIDE DEF start
<1>3. middle \in Seq(Tokens) /\ text \in Seq(Tokens)
  <2>1. middle \in Seq(Tokens)
    BY <1>2, ConcatProperties
  <2> QED BY <1>2, <2>1, ConcatProperties
<1>4. /\ field \notin NoProperty /\ field \notin Delimiters /\ <<name>> \notin Delimiters
      /\ <<name>> \in NoProperty /\ Comma \in Separators
  BY Words DEF Properties, NoProperty, Separators
<1>5. ASSUME NEW p \in Nat, NEW F, NEW l \in 0 .. p
      PROVE  \E w \in NoProperty :
               Reads(text, State(NoWord, Unquoted, p, l, F), State(w, Unquoted, p, l, Flushed(field, l, F)))
  <2> DEFINE G == Flushed(field, l, F)
  <2>1. p + 1 \in Int /\ l \in Nat /\ (p + 1) - 1 = p /\ p \in Int
    OBVIOUS
  <2>2. ~IsLambda(<<name>>) /\ Flushed(<<name>>, l, F) = F
    BY <1>4, Words
  <2> HIDE DEF G
  <2>3. /\ ScanToken(State(NoWord, Unquoted, p, l, F), <<name>>) = State(<<name>>, Unquoted, p, l, F)
        /\ ScanToken(State(<<name>>, Unquoted, p, l, F), Open) = State(NoWord, Unquoted, p + 1, l, F)
        /\ ScanToken(State(NoWord, Unquoted, p + 1, l, F), field) = State(field, Unquoted, p + 1, l, F)
        /\ ScanToken(State(field, Unquoted, p + 1, l, F), Comma) = State(NoWord, Unquoted, p + 1, l, G)
    BY <1>4, <2>1, <2>2, WordSteps, OpenStep DEF G
  <2>4. Reads(start, State(NoWord, Unquoted, p, l, F), State(NoWord, Unquoted, p + 1, l, G))
    BY <2>3, ReadsFour DEF start
  <2>5. PICK w \in NoProperty : Reads(LiteralOf(value), State(NoWord, Unquoted, p + 1, l, G),
                                      State(w, Unquoted, p + 1, l, G))
    BY <2>1, LiteralReads
  <2>6. ScanToken(State(w, Unquoted, p + 1, l, G), Close) = State(NoWord, Unquoted, p, l, G)
    <3>1. l = IF l > 0 /\ (p + 1) - 1 < l THEN l - 1 ELSE l
      OBVIOUS
    <3>2. Flushed(w, l, G) = G
      BY Words
    <3> QED BY <2>1, <3>1, <3>2, CloseStep
  <2>7. Reads(<<Close>>, State(w, Unquoted, p + 1, l, G), State(NoWord, Unquoted, p, l, G))
    BY <2>6, ReadsToken
  <2>8. Reads(middle, State(NoWord, Unquoted, p, l, F), State(w, Unquoted, p + 1, l, G))
    BY <1>2, <2>4, <2>5, ReadsOn
  <2>9. Reads(text, State(NoWord, Unquoted, p, l, F), State(NoWord, Unquoted, p, l, G))
    BY <1>2, <1>3, <2>7, <2>8, ReadsOn
  <2>10. NoWord \in NoProperty
    BY Words
  <2> QED BY <2>9, <2>10 DEF G
<1> HIDE DEF text
<1>6. Clean(Expr(text, {field}, Call(<<name>>, field, Meant(value))))
  BY <1>3, <1>4, <1>5, PlainClean
<1> QED BY <1>6 DEF Function, text, start

\* Texts with a separator between them are read through regions, too.
LEMMA JoinedReads ==
  ASSUME NEW S, NEW texts \in Seq(Seq(S)), texts # << >>, NEW separator \in Seq(S), NEW R,
         \A s \in R[0] : \E u \in R[1] : Reads(texts[1], s, u),
         \A i \in 2 .. Len(texts) : \A s \in R[i - 1] : \E m : \E u \in R[i] :
           Reads(separator, s, m) /\ Reads(texts[i], m, u)
  PROVE  /\ Joined(texts, separator) \in Seq(S)
         /\ \A s \in R[0] : \E u \in R[Len(texts)] : Reads(Joined(texts, separator), s, u)
<1> DEFINE n == Len(texts)
           seqs == [i \in 1 .. n |-> IF i = 1 THEN texts[i] ELSE separator \o texts[i]]
<1>1. n \in Nat \ {0} /\ DOMAIN texts = 1 .. n /\ \A i \in 1 .. n : texts[i] \in Seq(S)
  BY EmptySeq, LenProperties, ElementOfSeq
<1>2. Joined(texts, separator) = FlattenSeq(seqs)
  BY <1>1 DEF Joined
<1>3. \A i \in 2 .. n : \A s \in R[i - 1] : \E m : \E u \in R[i] : Reads(separator, s, m) /\ Reads(texts[i], m, u)
  OBVIOUS
<1> HIDE DEF n
<1>4. seqs \in [1 .. n -> Seq(S)]
  <2>1. \A i \in 1 .. n : separator \o texts[i] \in Seq(S)
    BY <1>1, ConcatProperties
  <2> QED BY <1>1, <2>1
<1>5. ASSUME NEW i \in 1 .. n, NEW s \in R[i - 1] PROVE \E u \in R[i] : Reads(seqs[i], s, u)
  <2>1. CASE i = 1
    <3>1. seqs[i] = texts[1] /\ i - 1 = 0
      BY <2>1
    <3> QED BY <2>1, <3>1
  <2>2. CASE i # 1
    <3>1. i \in 2 .. n
      BY <1>1, <2>2
    <3>2. PICK m : \E u \in R[i] : Reads(separator, s, m) /\ Reads(texts[i], m, u)
      BY <1>3, <3>1
    <3>3. PICK u \in R[i] : Reads(separator, s, m) /\ Reads(texts[i], m, u)
      BY <3>2
    <3>4. seqs[i] = separator \o texts[i]
      BY <2>2
    <3>5. Reads(separator \o texts[i], s, u)
      BY <1>1, <3>3, ReadsOn
    <3> QED BY <3>4, <3>5
  <2> QED BY <2>1, <2>2
<1> HIDE DEF seqs
<1>6. seqs \in Seq(Seq(S)) /\ Len(seqs) = n /\ seqs # << >>
  <2>1. seqs \in Seq(Seq(S)) /\ Len(seqs) = n
    BY <1>1, <1>4, FunctionIsSeq
  <2> QED BY <1>1, <2>1, EmptySeq
<1>7. \A i \in 1 .. Len(seqs) : \A s \in R[i - 1] : \E u \in R[i] : Reads(seqs[i], s, u)
  BY <1>5, <1>6
<1>8. /\ FlattenSeq(seqs) \in Seq(S)
      /\ \A s \in R[0] : \E u \in R[Len(seqs)] : Reads(FlattenSeq(seqs), s, u)
  BY <1>6, <1>7, FlattenReads
<1> QED BY <1>2, <1>6, <1>8 DEF n

LEMMA FiveTokens ==
  ASSUME NEW S, NEW a \in S, NEW b \in S, NEW c \in S, NEW d \in S, NEW e \in S
  PROVE  <<a, b, c, d>> \o <<e>> = <<a, b, c, d, e>>
<1> DEFINE s == <<a, b, c, d>>
           r == <<e>>
           t == <<a, b, c, d, e>>
<1>1. s \in Seq(S) /\ r \in Seq(S) /\ t \in Seq(S) /\ Len(s) = 4 /\ Len(r) = 1 /\ Len(t) = 5
  OBVIOUS
<1>2. /\ s[1] = t[1] /\ s[2] = t[2] /\ s[3] = t[3] /\ s[4] = t[4] /\ r[1] = t[5]
      /\ \A i \in 1 .. 5 : i = 1 \/ i = 2 \/ i = 3 \/ i = 4 \/ i = 5
  OBVIOUS
<1> HIDE DEF s, r, t
<1>3. /\ s \o r \in Seq(S) /\ Len(s \o r) = Len(s) + Len(r)
      /\ \A i \in 1 .. Len(s) + Len(r) : (s \o r)[i] = IF i <= Len(s) THEN s[i] ELSE r[i - Len(s)]
  BY <1>1, ConcatProperties
<1>4. Len(s) + Len(r) = 5
  BY <1>1
<1>5. /\ (s \o r)[1] = s[1] /\ (s \o r)[2] = s[2] /\ (s \o r)[3] = s[3] /\ (s \o r)[4] = s[4]
      /\ (s \o r)[5] = r[1]
  BY <1>1, <1>3, <1>4
<1>6. \A i \in 1 .. 5 : (s \o r)[i] = t[i]
  BY <1>2, <1>5
<1>7. Len(s \o r) = Len(t) /\ \A i \in 1 .. Len(s \o r) : (s \o r)[i] = t[i]
  BY <1>1, <1>3, <1>4, <1>6
<1> QED BY <1>1, <1>3, <1>7, SeqEqual DEF s, r, t

LEMMA InClean ==
  ASSUME NEW field \in Properties, NEW values \in Seq(Values), values # << >>
  PROVE  Clean(In(field, values))
<1> DEFINE n == Len(values)
           start == <<field, Space, <<"in">>, Space>>
           list == [i \in DOMAIN values |-> LiteralOf(values[i])]
           joined == Joined(list, <<Comma>>)
           text == <<field, Space, <<"in">>, Space, Open>> \o joined \o <<Close>>
<1>1. n \in Nat \ {0} /\ DOMAIN values = 1 .. n /\ \A i \in 1 .. n : values[i] \in Values
  BY EmptySeq, LenProperties, ElementOfSeq
<1>2. <<"in">> \in Operators
  BY DEF Operators
<1>3. field \in Tokens /\ Open \in Tokens /\ Comma \in Tokens /\ Close \in Tokens /\ Space \in Tokens /\ <<"in">> \in Tokens
  BY <1>2 DEF Properties, Tokens, Delimiters, NoProperty
<1>4. list \in Seq(Seq(Tokens)) /\ Len(list) = n /\ list # << >>
  <2>1. 0 \in Int /\ 0 \in Nat
    OBVIOUS
  <2>2. \A i \in 1 .. n : LiteralOf(values[i]) \in Seq(Tokens)
    BY <1>1, <2>1, LiteralReads
  <2>3. list \in [1 .. n -> Seq(Tokens)]
    BY <1>1, <2>2
  <2> HIDE DEF list, n
  <2>4. list \in Seq(Seq(Tokens)) /\ Len(list) = n
    BY <1>1, <2>3, FunctionIsSeq
  <2> QED BY <1>1, <2>4, EmptySeq
<1>5. \A i \in 1 .. n : list[i] = LiteralOf(values[i]) /\ values[i] \in Values
  BY <1>1
<1> HIDE DEF list, n
<1>6. ASSUME NEW p \in Int, NEW l \in Nat, NEW G
      PROVE  /\ joined \in Seq(Tokens)
             /\ \E w \in NoProperty : Reads(joined, State(NoWord, Unquoted, p, l, G), State(w, Unquoted, p, l, G))
  <2> DEFINE here == {State(w, Unquoted, p, l, G) : w \in NoProperty}
             R == [i \in 0 .. n |-> IF i = 0 THEN {State(NoWord, Unquoted, p, l, G)} ELSE here]
  <2>1. ASSUME NEW i \in 1 .. n
        PROVE  \E u \in here : Reads(list[i], State(NoWord, Unquoted, p, l, G), u)
    <3>1. PICK w \in NoProperty :
            Reads(LiteralOf(values[i]), State(NoWord, Unquoted, p, l, G), State(w, Unquoted, p, l, G))
      BY <1>5, LiteralReads
    <3> QED BY <1>5, <3>1
  <2>2. \A s \in here : ScanToken(s, Comma) = State(NoWord, Unquoted, p, l, G)
    <3> SUFFICES ASSUME NEW w \in NoProperty
                 PROVE  ScanToken(State(w, Unquoted, p, l, G), Comma) = State(NoWord, Unquoted, p, l, G)
      OBVIOUS
    <3>1. Comma \in Separators /\ Flushed(w, l, G) = G
      BY Words DEF Separators
    <3> QED BY <3>1, WordSteps
  <2> HIDE DEF here
  <2>3. R[0] = {State(NoWord, Unquoted, p, l, G)} /\ R[n] = here /\ R[1] = here
    BY <1>1
  <2>4. \A i \in 2 .. n : R[i] = here /\ R[i - 1] = here
    BY <1>1
  <2> HIDE DEF R
  <2>5. \A s \in R[0] : \E u \in R[1] : Reads(list[1], s, u)
    BY <1>1, <2>1, <2>3
  <2>6. ASSUME NEW i \in 2 .. n, NEW s \in R[i - 1]
        PROVE  \E m : \E u \in R[i] : Reads(<<Comma>>, s, m) /\ Reads(list[i], m, u)
    <3>1. s \in here /\ i \in 1 .. n
      BY <1>1, <2>4
    <3>2. Reads(<<Comma>>, s, State(NoWord, Unquoted, p, l, G))
      BY <2>2, <3>1, ReadsToken
    <3> QED BY <2>1, <2>4, <3>1, <3>2
  <2>7. /\ joined \in Seq(Tokens)
        /\ \A s \in R[0] : \E u \in R[Len(list)] : Reads(joined, s, u)
    <3>1. <<Comma>> \in Seq(Tokens)
      BY <1>3
    <3> QED BY <1>4, <2>5, <2>6, <3>1, JoinedReads
  <2>8. \E u \in here : Reads(joined, State(NoWord, Unquoted, p, l, G), u)
    BY <1>4, <2>3, <2>7
  <2> QED BY <2>7, <2>8 DEF here
<1> HIDE DEF joined
<1>7. joined \in Seq(Tokens)
  <2>1. 0 \in Int /\ 0 \in Nat
    OBVIOUS
  <2> QED BY <1>6, <2>1
<1>8. text = (start \o <<Open>>) \o joined \o <<Close>>
  <2>1. start \o <<Open>> = <<field, Space, <<"in">>, Space, Open>>
    BY <1>3, FiveTokens
  <2> QED BY <2>1
<1>9. start \in Seq(Tokens) /\ <<Open>> \in Seq(Tokens) /\ <<Close>> \in Seq(Tokens)
  BY <1>3
<1>10. start \o <<Open>> \in Seq(Tokens) /\ (start \o <<Open>>) \o joined \in Seq(Tokens) /\ text \in Seq(Tokens)
  <2>1. start \o <<Open>> \in Seq(Tokens)
    BY <1>9, ConcatProperties
  <2>2. (start \o <<Open>>) \o joined \in Seq(Tokens)
    BY <1>7, <2>1, ConcatProperties
  <2> HIDE DEF text
  <2> QED BY <1>8, <1>9, <2>1, <2>2, ConcatProperties
<1>11. ASSUME NEW p \in Nat, NEW F, NEW l \in 0 .. p
       PROVE  \E w \in NoProperty :
                Reads(text, State(NoWord, Unquoted, p, l, F), State(w, Unquoted, p, l, Flushed(field, l, F)))
  <2> DEFINE G == Flushed(field, l, F)
  <2>1. p + 1 \in Int /\ l \in Nat /\ (p + 1) - 1 = p /\ p \in Int
    OBVIOUS
  <2>2. Reads(start, State(NoWord, Unquoted, p, l, F), State(NoWord, Unquoted, p, l, G))
    BY <1>2, <2>1, FieldReads
  <2> HIDE DEF G
  <2>3. Reads(<<Open>>, State(NoWord, Unquoted, p, l, G), State(NoWord, Unquoted, p + 1, l, G))
    <3>1. ~IsLambda(NoWord) /\ Flushed(NoWord, l, G) = G
      BY Words
    <3>2. ScanToken(State(NoWord, Unquoted, p, l, G), Open) = State(NoWord, Unquoted, p + 1, l, G)
      BY <2>1, <3>1, OpenStep
    <3> QED BY <3>2, ReadsToken
  <2>4. PICK w \in NoProperty : Reads(joined, State(NoWord, Unquoted, p + 1, l, G), State(w, Unquoted, p + 1, l, G))
    BY <1>6, <2>1
  <2>5. ScanToken(State(w, Unquoted, p + 1, l, G), Close) = State(NoWord, Unquoted, p, l, G)
    <3>1. l = IF l > 0 /\ (p + 1) - 1 < l THEN l - 1 ELSE l
      OBVIOUS
    <3>2. Flushed(w, l, G) = G
      BY Words
    <3> QED BY <2>1, <3>1, <3>2, CloseStep
  <2>6. Reads(<<Close>>, State(w, Unquoted, p + 1, l, G), State(NoWord, Unquoted, p, l, G))
    BY <2>5, ReadsToken
  <2> HIDE DEF start, text
  <2>7. Reads(start \o <<Open>>, State(NoWord, Unquoted, p, l, F), State(NoWord, Unquoted, p + 1, l, G))
    BY <1>9, <2>2, <2>3, ReadsOn
  <2>8. Reads((start \o <<Open>>) \o joined, State(NoWord, Unquoted, p, l, F), State(w, Unquoted, p + 1, l, G))
    BY <1>7, <1>10, <2>4, <2>7, ReadsOn
  <2>9. Reads(text, State(NoWord, Unquoted, p, l, F), State(NoWord, Unquoted, p, l, G))
    BY <1>8, <1>9, <1>10, <2>6, <2>8, ReadsOn
  <2>10. NoWord \in NoProperty
    BY Words
  <2> QED BY <2>9, <2>10 DEF G
<1>12. field \notin NoProperty
  BY DEF Properties
<1> HIDE DEF text
<1>13. Clean(Expr(text, {field}, OneOf(field, [i \in DOMAIN values |-> Meant(values[i])])))
  BY <1>10, <1>11, <1>12, PlainClean
<1> QED BY <1>13 DEF In, text, joined, list

\* A text that an opening leads to and a closing parenthesis follows.
LEMMA BodyReads ==
  ASSUME NEW text, NEW fields, NEW lambda, NEW overtaken, ReadsAs(text, fields, lambda, overtaken),
         NEW start \in Seq(Tokens),
         \A p \in Nat : \A F : \A l \in 0 .. p :
           Reads(start, State(NoWord, Unquoted, p, l, F), State(NoWord, Unquoted, p + 1, l, F))
  PROVE  ReadsAs(start \o text \o <<Close>>, fields, lambda, overtaken)
<1>1. text \in Seq(Tokens) /\ <<Close>> \in Seq(Tokens)
  BY DEF ReadsAs, Tokens, Delimiters
<1>2. start \o text \in Seq(Tokens) /\ start \o text \o <<Close>> \in Seq(Tokens)
  <2>1. start \o text \in Seq(Tokens)
    BY <1>1, ConcatProperties
  <2> QED BY <1>1, <2>1, ConcatProperties
<1>3. ASSUME NEW p \in Nat, NEW F, NEW l \in 0 .. p
      PROVE  \E w \in NoProperty, k \in Nat : \E G :
               /\ Outcome(fields, lambda, overtaken, p, l, F, k, G)
               /\ Reads(start \o text \o <<Close>>, State(NoWord, Unquoted, p, l, F), State(w, Unquoted, p, k, G))
  <2>1. p + 1 \in Nat /\ l \in 0 .. p + 1 /\ p + 1 \in Int /\ (p + 1) - 1 = p
    OBVIOUS
  <2>2. PICK w \in NoProperty, k \in Nat : \E G :
          /\ Outcome(fields, lambda, overtaken, p + 1, l, F, k, G)
          /\ Reads(text, State(NoWord, Unquoted, p + 1, l, F), State(w, Unquoted, p + 1, k, G))
    BY <2>1 DEF ReadsAs
  <2>3. PICK G :
          /\ Outcome(fields, lambda, overtaken, p + 1, l, F, k, G)
          /\ Reads(text, State(NoWord, Unquoted, p + 1, l, F), State(w, Unquoted, p + 1, k, G))
    BY <2>2
  <2> DEFINE m == IF k > 0 /\ (p + 1) - 1 < k THEN k - 1 ELSE k
  <2>4. m \in Nat /\ Outcome(fields, lambda, overtaken, p, l, F, m, G)
    BY <2>3 DEF Outcome
  <2>5. ScanToken(State(w, Unquoted, p + 1, k, G), Close) = State(NoWord, Unquoted, p, m, G)
    <3>1. Flushed(w, k, G) = G
      BY Words
    <3> HIDE DEF m
    <3>2. ScanToken(State(w, Unquoted, p + 1, k, G), Close) = State(NoWord, Unquoted, (p + 1) - 1, m, G)
      BY <2>1, <3>1, CloseStep DEF m
    <3> QED BY <2>1, <3>2
  <2> HIDE DEF m
  <2>6. Reads(<<Close>>, State(w, Unquoted, p + 1, k, G), State(NoWord, Unquoted, p, m, G))
    BY <2>5, ReadsToken
  <2>7. Reads(start, State(NoWord, Unquoted, p, l, F), State(NoWord, Unquoted, p + 1, l, F))
    OBVIOUS
  <2>8. Reads(start \o text, State(NoWord, Unquoted, p, l, F), State(w, Unquoted, p + 1, k, G))
    BY <1>1, <2>3, <2>7, ReadsOn
  <2>9. Reads(start \o text \o <<Close>>, State(NoWord, Unquoted, p, l, F), State(NoWord, Unquoted, p, m, G))
    BY <1>1, <1>2, <2>6, <2>8, ReadsOn
  <2>10. NoWord \in NoProperty
    BY Words
  <2> QED BY <2>4, <2>9, <2>10
<1> QED BY <1>2, <1>3 DEF ReadsAs

\* A parenthesis where no word stands.
LEMMA GroupOpens ==
  ASSUME NEW p \in Int, NEW l \in Nat, NEW F
  PROVE  Reads(<<Open>>, State(NoWord, Unquoted, p, l, F), State(NoWord, Unquoted, p + 1, l, F))
<1>1. ~IsLambda(NoWord) /\ Flushed(NoWord, l, F) = F
  BY Words
<1>2. ScanToken(State(NoWord, Unquoted, p, l, F), Open) = State(NoWord, Unquoted, p + 1, l, F)
  BY <1>1, OpenStep
<1> QED BY <1>2, ReadsToken

LEMMA GroupedReads ==
  ASSUME NEW text, NEW fields, NEW lambda, NEW overtaken, ReadsAs(text, fields, lambda, overtaken)
  PROVE  ReadsAs(Grouped(text), fields, lambda, overtaken)
<1>1. <<Open>> \in Seq(Tokens)
  BY DEF Tokens, Delimiters
<1>2. ASSUME NEW p \in Nat, NEW F, NEW l \in 0 .. p
      PROVE  Reads(<<Open>>, State(NoWord, Unquoted, p, l, F), State(NoWord, Unquoted, p + 1, l, F))
  BY GroupOpens
<1>3. ReadsAs(<<Open>> \o text \o <<Close>>, fields, lambda, overtaken)
  BY <1>1, <1>2, BodyReads
<1> QED BY <1>3 DEF Grouped

LEMMA NotClean ==
  ASSUME NEW e, Clean(e)
  PROVE  Clean(Not(e))
<1>1. DOMAIN e = Parts
  BY DEF Clean
<1>2. e # Nil
  BY <1>1 DEF Nil, Parts
<1> DEFINE start == << <<"not">>, Space>> \o <<Open>>
<1>3. /\ Not(e).text = start \o e.text \o <<Close>>
      /\ DOMAIN Not(e) = Parts /\ Not(e).raw = e.raw /\ Not(e).fields = e.fields
      /\ Not(e).lambda = e.lambda /\ Not(e).overtaken = e.overtaken
  BY <1>1, <1>2 DEF Not, Parts
<1>4. ASSUME ~e.raw
      PROVE  ReadsAs(Not(e).text, Not(e).fields, Not(e).lambda, Not(e).overtaken)
  <2>1. <<"not">> \in NoProperty /\ <<"not">> \notin Delimiters /\ Space \in Separators
    BY Words DEF NoProperty, Operators, Separators
  <2>2. << <<"not">>, Space>> \in Seq(Tokens) /\ <<Open>> \in Seq(Tokens)
    BY <2>1 DEF Tokens, Delimiters
  <2>3. start \in Seq(Tokens)
    BY <2>2, ConcatProperties
  <2>4. ASSUME NEW p \in Nat, NEW F, NEW l \in 0 .. p
        PROVE  Reads(start, State(NoWord, Unquoted, p, l, F), State(NoWord, Unquoted, p + 1, l, F))
    <3>1. p \in Int /\ l \in Nat
      OBVIOUS
    <3>2. Flushed(<<"not">>, l, F) = F
      BY <2>1, Words
    <3>3. /\ ScanToken(State(NoWord, Unquoted, p, l, F), <<"not">>) = State(<<"not">>, Unquoted, p, l, F)
          /\ ScanToken(State(<<"not">>, Unquoted, p, l, F), Space) = State(NoWord, Unquoted, p, l, F)
      BY <2>1, <3>1, <3>2, WordSteps
    <3>4. Reads(<< <<"not">>, Space>>, State(NoWord, Unquoted, p, l, F), State(NoWord, Unquoted, p, l, F))
      BY <3>3, ReadsTwo
    <3>5. Reads(<<Open>>, State(NoWord, Unquoted, p, l, F), State(NoWord, Unquoted, p + 1, l, F))
      BY <3>1, GroupOpens
    <3> QED BY <2>2, <3>4, <3>5, ReadsOn
  <2> HIDE DEF start
  <2>5. ReadsAs(e.text, e.fields, e.lambda, e.overtaken)
    BY <1>4 DEF Clean
  <2>6. ReadsAs(start \o e.text \o <<Close>>, e.fields, e.lambda, e.overtaken)
    BY <2>3, <2>4, <2>5, BodyReads
  <2> QED BY <1>3, <2>6
<1> QED BY <1>3, <1>4 DEF Clean

LEMMA RawClean == ASSUME NEW text PROVE Clean(Raw(text))
<1> DEFINE e == Expr(text, {}, Unread(text))
<1>1. DOMAIN e = Parts
  BY DEF Expr, Parts
<1> HIDE DEF e
<1>2. DOMAIN [e EXCEPT !.raw = TRUE] = Parts /\ [e EXCEPT !.raw = TRUE].raw
  BY <1>1 DEF Parts
<1> QED BY <1>2 DEF Clean, Raw, e

\* A collection with the operator that makes a lambda of it.
LEMMA LambdaWord ==
  ASSUME NEW collection \in Token, collection # << >>, NEW operator \in {"any", "all"}
  PROVE  /\ IsLambda(Append(collection, operator))
         /\ Collection(Append(collection, operator)) = collection
         /\ Append(collection, operator) \notin Delimiters
<1> DEFINE S == STRING \cup {"any", "all"}
           word == Append(collection, operator)
           n == Len(collection)
<1>1. collection \in Seq(S) /\ operator \in S
  BY SeqMonotonic DEF Token
<1>2. n \in Nat \ {0}
  BY <1>1, EmptySeq
<1> HIDE DEF S
<1>3. /\ word \in Seq(S) /\ Len(word) = n + 1 /\ word[n + 1] = operator
      /\ \A i \in 1 .. n : word[i] = collection[i]
  BY <1>1, AppendProperties
<1> HIDE DEF n, word
<1>4. Len(word) > 1 /\ word[Len(word)] = operator
  BY <1>2, <1>3
<1>5. SubSeq(word, 1, n) = collection
  <2>1. \A i \in 1 .. n : word[i] \in S
    BY <1>1, <1>3, ElementOfSeq DEF n
  <2>2. 1 \in Int /\ n \in Int /\ 1 <= n /\ (n - 1) + 1 = n
    BY <1>2
  <2>3. /\ SubSeq(word, 1, n) \in Seq(S)
        /\ Len(SubSeq(word, 1, n)) = IF 1 <= n THEN (n - 1) + 1 ELSE 0
        /\ \A i \in 1 .. (n - 1) + 1 : SubSeq(word, 1, n)[i] = word[(1 + i) - 1]
    BY <2>1, <2>2, SubSeqProperties
  <2>4. Len(SubSeq(word, 1, n)) = n
    BY <2>2, <2>3
  <2>5. ASSUME NEW i \in 1 .. n PROVE SubSeq(word, 1, n)[i] = collection[i]
    <3>1. (1 + i) - 1 = i
      BY <1>2
    <3> QED BY <1>3, <2>2, <2>3, <3>1
  <2> QED BY <1>1, <2>3, <2>4, <2>5, SeqEqual DEF n
<1>6. \A t \in Delimiters : Len(t) = 1
  <2>1. \A x : Len(<<x>>) = 1
    OBVIOUS
  <2> QED BY <2>1 DEF Delimiters, Open, Close, Quote, Space, Comma, Colon
<1>7. (n + 1) - 1 = n
  BY <1>2
<1>8. Collection(word) = collection
  BY <1>3, <1>5, <1>7 DEF Collection
<1>9. IsLambda(word)
  BY <1>4 DEF IsLambda
<1>10. word \notin Delimiters
  BY <1>4, <1>6
<1> QED BY <1>8, <1>9, <1>10 DEF word

\* The parenthesis of a lambda and its variable: from here on nothing is reported.
LEMMA LambdaOpens ==
  ASSUME NEW collection \in Token, collection # << >>, NEW operator \in {"any", "all"},
         NEW variable \in Token \ Delimiters, NEW p \in Int, NEW l \in Nat, NEW F, NEW G,
         G = IF l = 0 THEN F \cup {collection} ELSE F
  PROVE  /\ <<Append(collection, operator), Open, variable, Colon>> \in Seq(Tokens)
         /\ Reads(<<Append(collection, operator), Open, variable, Colon>>, State(NoWord, Unquoted, p, l, F),
                  State(NoWord, Unquoted, p + 1, l + 1, G))
<1> DEFINE word == Append(collection, operator)
<1>1. IsLambda(word) /\ Collection(word) = collection /\ word \notin Delimiters
  BY LambdaWord
<1>2. word \in Tokens /\ Open \in Tokens /\ variable \in Tokens /\ Colon \in Tokens
  BY DEF Tokens, Delimiters
<1> HIDE DEF word
<1>3. p + 1 \in Int /\ l + 1 \in Nat /\ l + 1 > 0
  OBVIOUS
<1>4. Colon \in Separators /\ Flushed(variable, l + 1, G) = G
  BY <1>3 DEF Separators, Flushed
<1>5. ScanToken(State(NoWord, Unquoted, p, l, F), word) = State(word, Unquoted, p, l, F)
  BY <1>1, WordSteps
<1>6. ScanToken(State(word, Unquoted, p, l, F), Open) = State(NoWord, Unquoted, p + 1, l + 1, G)
  <2>1. G = IF l = 0 THEN F \cup {Collection(word)} ELSE F
    BY <1>1
  <2> QED BY <1>1, <2>1, LambdaStep
<1>7. ScanToken(State(NoWord, Unquoted, p + 1, l + 1, G), variable) = State(variable, Unquoted, p + 1, l + 1, G)
  BY <1>3, WordSteps
<1>8. ScanToken(State(variable, Unquoted, p + 1, l + 1, G), Colon) = State(NoWord, Unquoted, p + 1, l + 1, G)
  BY <1>3, <1>4, WordSteps
<1>9. Reads(<<word, Open, variable, Colon>>, State(NoWord, Unquoted, p, l, F), State(NoWord, Unquoted, p + 1, l + 1, G))
  BY <1>5, <1>6, <1>7, <1>8, ReadsFour
<1>10. <<word, Open, variable, Colon>> \in Seq(Tokens)
  BY <1>2
<1> QED BY <1>9, <1>10 DEF word

LEMMA LambdaClean ==
  ASSUME NEW collection \in Token, collection # << >>, NEW operator \in {"any", "all"},
         NEW variable \in Token \ Delimiters, NEW e, Clean(e)
  PROVE  Clean(Lambda(collection, operator, variable, e))
<1> DEFINE start == <<Append(collection, operator), Open, variable, Colon>>
           body == Lambda(collection, operator, variable, e)
<1>1. DOMAIN e = Parts
  BY DEF Clean
<1>2. e # Nil
  BY <1>1 DEF Nil, Parts
<1>3. /\ body.text = start \o e.text \o <<Close>>
      /\ DOMAIN body = Parts /\ body.raw = e.raw /\ body.fields = {collection}
      /\ body.lambda = TRUE /\ body.overtaken = FALSE
  BY <1>1, <1>2 DEF Lambda, Parts
<1>4. ASSUME ~e.raw
      PROVE  ReadsAs(start \o e.text \o <<Close>>, {collection}, TRUE, FALSE)
  <2>1. ReadsAs(e.text, e.fields, e.lambda, e.overtaken)
    BY <1>4 DEF Clean
  <2>2. e.text \in Seq(Tokens) /\ <<Close>> \in Seq(Tokens)
    BY <2>1 DEF ReadsAs, Tokens, Delimiters
  <2>3. start \in Seq(Tokens)
    <3>1. 0 \in Int /\ 0 \in Nat
      OBVIOUS
    <3> QED BY <3>1, LambdaOpens
  <2> HIDE DEF start
  <2>4. start \o e.text \in Seq(Tokens) /\ start \o e.text \o <<Close>> \in Seq(Tokens)
    <3>1. start \o e.text \in Seq(Tokens)
      BY <2>2, <2>3, ConcatProperties
    <3> QED BY <2>2, <3>1, ConcatProperties
  <2>5. ASSUME NEW p \in Nat, NEW F, NEW l \in 0 .. p
        PROVE  \E w \in NoProperty, k \in Nat : \E G :
                 /\ Outcome({collection}, TRUE, FALSE, p, l, F, k, G)
                 /\ Reads(start \o e.text \o <<Close>>, State(NoWord, Unquoted, p, l, F), State(w, Unquoted, p, k, G))
    <3> DEFINE G == IF l = 0 THEN F \cup {collection} ELSE F
    <3>1. p \in Int /\ l \in Nat /\ p + 1 \in Nat /\ p + 1 \in Int /\ l + 1 \in 0 .. p + 1 /\ (p + 1) - 1 = p
      OBVIOUS
    <3>2. Reads(start, State(NoWord, Unquoted, p, l, F), State(NoWord, Unquoted, p + 1, l + 1, G))
      <4> HIDE DEF G
      <4> QED BY <3>1, LambdaOpens DEF start, G
    <3> HIDE DEF G
    <3>3. PICK w \in NoProperty, k \in Nat : \E H :
            /\ Outcome(e.fields, e.lambda, e.overtaken, p + 1, l + 1, G, k, H)
            /\ Reads(e.text, State(NoWord, Unquoted, p + 1, l + 1, G), State(w, Unquoted, p + 1, k, H))
      BY <2>1, <3>1 DEF ReadsAs
    <3>4. PICK H :
            /\ Outcome(e.fields, e.lambda, e.overtaken, p + 1, l + 1, G, k, H)
            /\ Reads(e.text, State(NoWord, Unquoted, p + 1, l + 1, G), State(w, Unquoted, p + 1, k, H))
      BY <3>3
    <3>5. H = G /\ k \in l + 1 .. p + 1
      BY <3>4 DEF Outcome
    <3> DEFINE m == IF k > 0 /\ (p + 1) - 1 < k THEN k - 1 ELSE k
    <3>6. m \in Nat /\ Outcome({collection}, TRUE, FALSE, p, l, F, m, G)
      BY <3>5 DEF Outcome, G
    <3>7. Reads(<<Close>>, State(w, Unquoted, p + 1, k, G), State(NoWord, Unquoted, p, m, G))
      <4>1. Flushed(w, k, G) = G
        BY Words
      <4> HIDE DEF m
      <4>2. ScanToken(State(w, Unquoted, p + 1, k, G), Close) = State(NoWord, Unquoted, (p + 1) - 1, m, G)
        BY <3>1, <4>1, CloseStep DEF m
      <4> QED BY <3>1, <4>2, ReadsToken
    <3> HIDE DEF m
    <3>8. Reads(start \o e.text, State(NoWord, Unquoted, p, l, F), State(w, Unquoted, p + 1, k, G))
      BY <2>2, <2>3, <3>2, <3>4, <3>5, ReadsOn
    <3>9. Reads(start \o e.text \o <<Close>>, State(NoWord, Unquoted, p, l, F), State(NoWord, Unquoted, p, m, G))
      BY <2>2, <2>4, <3>7, <3>8, ReadsOn
    <3>10. NoWord \in NoProperty
      BY Words
    <3> QED BY <3>6, <3>9, <3>10
  <2> QED BY <2>4, <2>5 DEF ReadsAs
<1> HIDE DEF body, start
<1>5. ASSUME ~e.raw PROVE ReadsAs(body.text, body.fields, body.lambda, body.overtaken)
  BY <1>3, <1>4, <1>5
<1> QED BY <1>3, <1>5 DEF Clean, body

\* What reading one text after another comes to.
LEMMA OutcomesCompose ==
  ASSUME NEW f, NEW lambda, NEW overtaken, NEW g, NEW lambda2, NEW overtaken2,
         NEW p \in Nat, NEW l \in 0 .. p, NEW k \in Nat, NEW m \in Nat, NEW F, NEW G, NEW H,
         Outcome(f, lambda, overtaken, p, l, F, k, G), Outcome(g, lambda2, overtaken2, p, k, G, m, H)
  PROVE  Outcome(f \cup g, lambda \/ lambda2, overtaken \/ overtaken2 \/ lambda, p, l, F, m, H)
<1>1. k \in l .. p /\ m \in k .. p /\ m \in l .. p
  BY DEF Outcome
<1>2. ~(lambda \/ lambda2) => m = l
  BY DEF Outcome
<1>3. F \subseteq H /\ H \subseteq F \cup (f \cup g)
  BY DEF Outcome
<1>4. l > 0 => H = F
  <2>1. l > 0 => k > 0
    BY <1>1
  <2> QED BY <2>1 DEF Outcome
<1>5. l = 0 /\ ~(overtaken \/ overtaken2 \/ lambda) => H = F \cup (f \cup g)
  BY DEF Outcome
<1> QED BY <1>1, <1>2, <1>3, <1>4, <1>5 DEF Outcome

\* Operands, with their operator between them.
LEMMA LogicalClean ==
  ASSUME NEW operator \in {"and", "or"}, NEW S, NEW operands \in Seq(S), operands # << >>,
         \A e \in S : Clean(e)
  PROVE  Clean(Logical(operator, operands))
<1> DEFINE n == Len(operands)
           e == Logical(operator, operands)
           texts == [i \in DOMAIN operands |-> operands[i].text]
           separator == <<Space, <<operator>>, Space>>
           FieldsTo(i) == UNION {operands[j].fields : j \in 1 .. i}
           LambdaTo(i) == \E j \in 1 .. i : operands[j].lambda
           OvertakenTo(i) == \E j \in 1 .. i : operands[j].overtaken \/ (j < i /\ operands[j].lambda)
<1>1. n \in Nat \ {0} /\ DOMAIN operands = 1 .. n /\ \A i \in 1 .. n : operands[i] \in S
  BY EmptySeq, LenProperties, ElementOfSeq
<1>2. /\ DOMAIN e = Parts /\ e.text = Grouped(Joined(texts, separator))
      /\ e.raw = \E i \in DOMAIN operands : operands[i].raw
      /\ e.fields = FieldsTo(n) /\ (e.lambda <=> LambdaTo(n)) /\ (e.overtaken <=> OvertakenTo(n))
  BY <1>1 DEF Logical, Parts, FieldsOfAll
<1> SUFFICES ASSUME ~e.raw PROVE ReadsAs(e.text, e.fields, e.lambda, e.overtaken)
  <2> HIDE DEF e
  <2> QED BY <1>2 DEF Clean, e
<1> HIDE DEF e
<1>3. \A i \in 1 .. n : /\ ReadsAs(operands[i].text, operands[i].fields, operands[i].lambda, operands[i].overtaken)
                        /\ operands[i].text \in Seq(Tokens)
  BY <1>1, <1>2 DEF Clean, ReadsAs
<1>4. /\ <<operator>> \in NoProperty /\ <<operator>> \notin Delimiters /\ Space \in Separators
      /\ Space \in Tokens /\ <<operator>> \in Tokens /\ separator \in Seq(Tokens)
  <2>1. <<operator>> \in NoProperty /\ <<operator>> \notin Delimiters /\ Space \in Separators
    BY Words DEF NoProperty, Operators, Separators
  <2>2. Space \in Tokens /\ <<operator>> \in Tokens
    BY <2>1 DEF Tokens, Delimiters
  <2> QED BY <2>1, <2>2
<1>5. texts \in Seq(Seq(Tokens)) /\ Len(texts) = n /\ texts # << >> /\ \A i \in 1 .. n : texts[i] = operands[i].text
  <2>1. texts \in [1 .. n -> Seq(Tokens)] /\ \A i \in 1 .. n : texts[i] = operands[i].text
    BY <1>1, <1>3
  <2> HIDE DEF texts, n
  <2>2. texts \in Seq(Seq(Tokens)) /\ Len(texts) = n
    BY <1>1, <2>1, FunctionIsSeq
  <2> QED BY <1>1, <2>1, <2>2, EmptySeq
<1> HIDE DEF n, texts
<1>6. FieldsTo(1) = operands[1].fields /\ (LambdaTo(1) <=> operands[1].lambda) /\ (OvertakenTo(1) <=> operands[1].overtaken)
  <2>1. \A j \in 1 .. 1 : j = 1
    OBVIOUS
  <2>2. 1 \in 1 .. 1
    OBVIOUS
  <2> QED BY <2>1, <2>2
<1>7. ASSUME NEW i \in 2 .. n
      PROVE  /\ FieldsTo(i) = FieldsTo(i - 1) \cup operands[i].fields
             /\ LambdaTo(i) <=> LambdaTo(i - 1) \/ operands[i].lambda
             /\ OvertakenTo(i) <=> OvertakenTo(i - 1) \/ operands[i].overtaken \/ LambdaTo(i - 1)
  <2>1. i \in Int /\ \A j : j \in 1 .. i <=> j \in 1 .. i - 1 \/ j = i
    BY <1>1
  <2>2. \A j \in 1 .. i - 1 : j < i
    BY <1>1
  <2>3. ~(i < i)
    BY <1>1
  <2> QED BY <2>1, <2>2, <2>3
<1>8. \A i \in 1 .. n : FieldsTo(i) \subseteq FieldsTo(n)
  <2>1. \A i \in 1 .. n : \A j \in 1 .. i : j \in 1 .. n
    BY <1>1
  <2> QED BY <2>1
<1> HIDE DEF FieldsTo, LambdaTo, OvertakenTo
<1>9. ASSUME NEW w \in NoProperty, NEW p \in Int, NEW l \in Nat, NEW F
      PROVE  Reads(separator, State(w, Unquoted, p, l, F), State(NoWord, Unquoted, p, l, F))
  <2>1. Flushed(w, l, F) = F /\ Flushed(<<operator>>, l, F) = F
    BY <1>4, Words
  <2>2. /\ ScanToken(State(w, Unquoted, p, l, F), Space) = State(NoWord, Unquoted, p, l, F)
        /\ ScanToken(State(NoWord, Unquoted, p, l, F), <<operator>>) = State(<<operator>>, Unquoted, p, l, F)
        /\ ScanToken(State(<<operator>>, Unquoted, p, l, F), Space) = State(NoWord, Unquoted, p, l, F)
    BY <1>4, <2>1, WordSteps
  <2> QED BY <2>2, ReadsThree
<1> HIDE DEF separator
<1>10. ASSUME NEW p \in Nat, NEW F, NEW l \in 0 .. p
       PROVE  /\ Joined(texts, separator) \in Seq(Tokens)
              /\ \E w \in NoProperty, k \in Nat : \E G :
                   /\ Outcome(FieldsTo(n), LambdaTo(n), OvertakenTo(n), p, l, F, k, G)
                   /\ Reads(Joined(texts, separator), State(NoWord, Unquoted, p, l, F), State(w, Unquoted, p, k, G))
  <2> DEFINE States == {State(w, Unquoted, p, k, G) : w \in NoProperty, k \in Nat, G \in SUBSET (F \cup FieldsTo(n))}
             After(i) == {s \in States : Outcome(FieldsTo(i), LambdaTo(i), OvertakenTo(i), p, l, F, s.lambdas, s.fields)}
             R == [i \in 0 .. n |-> IF i = 0 THEN {State(NoWord, Unquoted, p, l, F)} ELSE After(i)]
  <2>1. ASSUME NEW i \in 1 .. n, NEW w \in NoProperty, NEW k \in Nat, NEW G,
               Outcome(FieldsTo(i), LambdaTo(i), OvertakenTo(i), p, l, F, k, G)
        PROVE  State(w, Unquoted, p, k, G) \in After(i)
    <3>1. G \in SUBSET (F \cup FieldsTo(n))
      BY <1>8, <2>1 DEF Outcome
    <3>2. State(w, Unquoted, p, k, G).lambdas = k /\ State(w, Unquoted, p, k, G).fields = G
      BY DEF State
    <3>3. State(w, Unquoted, p, k, G) \in States
      BY <3>1
    <3> HIDE DEF States
    <3> QED BY <2>1, <3>2, <3>3
  <2>2. ASSUME NEW i \in 1 .. n, NEW s \in After(i)
        PROVE  \E w \in NoProperty, k \in Nat : \E G :
                 s = State(w, Unquoted, p, k, G) /\ Outcome(FieldsTo(i), LambdaTo(i), OvertakenTo(i), p, l, F, k, G)
    <3>1. PICK w \in NoProperty, k \in Nat, G \in SUBSET (F \cup FieldsTo(n)) : s = State(w, Unquoted, p, k, G)
      OBVIOUS
    <3>2. State(w, Unquoted, p, k, G).lambdas = k /\ State(w, Unquoted, p, k, G).fields = G
      BY DEF State
    <3>3. Outcome(FieldsTo(i), LambdaTo(i), OvertakenTo(i), p, l, F, s.lambdas, s.fields)
      OBVIOUS
    <3> QED BY <3>1, <3>2, <3>3
  <2> HIDE DEF After
  <2>3. R[0] = {State(NoWord, Unquoted, p, l, F)} /\ R[1] = After(1) /\ R[n] = After(n)
    BY <1>1
  <2>4. \A i \in 2 .. n : R[i] = After(i) /\ R[i - 1] = After(i - 1) /\ i \in 1 .. n /\ i - 1 \in 1 .. n
    BY <1>1
  <2> HIDE DEF R
  <2>5. \A s \in R[0] : \E u \in R[1] : Reads(texts[1], s, u)
    <3>1. 1 \in 1 .. n
      BY <1>1
    <3>2. PICK w \in NoProperty, k \in Nat : \E G :
            /\ Outcome(operands[1].fields, operands[1].lambda, operands[1].overtaken, p, l, F, k, G)
            /\ Reads(operands[1].text, State(NoWord, Unquoted, p, l, F), State(w, Unquoted, p, k, G))
      BY <1>3, <3>1 DEF ReadsAs
    <3>3. PICK G :
            /\ Outcome(operands[1].fields, operands[1].lambda, operands[1].overtaken, p, l, F, k, G)
            /\ Reads(operands[1].text, State(NoWord, Unquoted, p, l, F), State(w, Unquoted, p, k, G))
      BY <3>2
    <3>4. Outcome(FieldsTo(1), LambdaTo(1), OvertakenTo(1), p, l, F, k, G)
      BY <1>6, <3>3 DEF Outcome
    <3>5. State(w, Unquoted, p, k, G) \in R[1]
      BY <2>1, <2>3, <3>1, <3>4
    <3> QED BY <1>5, <2>3, <3>1, <3>3, <3>5
  <2>6. ASSUME NEW i \in 2 .. n, NEW s \in R[i - 1]
        PROVE  \E m : \E u \in R[i] : Reads(separator, s, m) /\ Reads(texts[i], m, u)
    <3>1. s \in After(i - 1) /\ i \in 1 .. n /\ i - 1 \in 1 .. n
      BY <2>4
    <3>2. PICK w \in NoProperty, k \in Nat : \E G : s = State(w, Unquoted, p, k, G)
            /\ Outcome(FieldsTo(i - 1), LambdaTo(i - 1), OvertakenTo(i - 1), p, l, F, k, G)
      BY <2>2, <3>1
    <3>3. PICK G : s = State(w, Unquoted, p, k, G)
            /\ Outcome(FieldsTo(i - 1), LambdaTo(i - 1), OvertakenTo(i - 1), p, l, F, k, G)
      BY <3>2
    <3>4. k \in 0 .. p /\ p \in Int
      BY <3>3 DEF Outcome
    <3>5. PICK v \in NoProperty, j \in Nat : \E H :
            /\ Outcome(operands[i].fields, operands[i].lambda, operands[i].overtaken, p, k, G, j, H)
            /\ Reads(operands[i].text, State(NoWord, Unquoted, p, k, G), State(v, Unquoted, p, j, H))
      BY <1>3, <3>1, <3>4 DEF ReadsAs
    <3>6. PICK H :
            /\ Outcome(operands[i].fields, operands[i].lambda, operands[i].overtaken, p, k, G, j, H)
            /\ Reads(operands[i].text, State(NoWord, Unquoted, p, k, G), State(v, Unquoted, p, j, H))
      BY <3>5
    <3>7. Outcome(FieldsTo(i - 1) \cup operands[i].fields, LambdaTo(i - 1) \/ operands[i].lambda,
                  OvertakenTo(i - 1) \/ operands[i].overtaken \/ LambdaTo(i - 1), p, l, F, j, H)
      BY <3>3, <3>6, OutcomesCompose
    <3>8. Outcome(FieldsTo(i), LambdaTo(i), OvertakenTo(i), p, l, F, j, H)
      BY <1>7, <3>7 DEF Outcome
    <3>9. State(v, Unquoted, p, j, H) \in R[i]
      <4>1. State(v, Unquoted, p, j, H) \in After(i)
        BY <2>1, <3>1, <3>8
      <4> QED BY <2>4, <4>1
    <3>10. Reads(separator, s, State(NoWord, Unquoted, p, k, G))
      BY <1>9, <3>3, <3>4
    <3> QED BY <1>5, <3>1, <3>6, <3>9, <3>10
  <2>7. /\ Joined(texts, separator) \in Seq(Tokens)
        /\ \A s \in R[0] : \E u \in R[Len(texts)] : Reads(Joined(texts, separator), s, u)
    BY <1>4, <1>5, <2>5, <2>6, JoinedReads
  <2>8. PICK u \in After(n) : Reads(Joined(texts, separator), State(NoWord, Unquoted, p, l, F), u)
    BY <1>5, <2>3, <2>7
  <2>9. n \in 1 .. n
    BY <1>1
  <2>10. PICK w \in NoProperty, k \in Nat : \E G :
           u = State(w, Unquoted, p, k, G) /\ Outcome(FieldsTo(n), LambdaTo(n), OvertakenTo(n), p, l, F, k, G)
    BY <2>2, <2>9
  <2> QED BY <2>7, <2>8, <2>10
<1>11. ReadsAs(Joined(texts, separator), FieldsTo(n), LambdaTo(n), OvertakenTo(n))
  <2>1. Joined(texts, separator) \in Seq(Tokens)
    <3>1. 0 \in Nat /\ 0 \in 0 .. 0
      OBVIOUS
    <3> QED BY <1>10, <3>1
  <2>2. ASSUME NEW p \in Nat, NEW F, NEW l \in 0 .. p
        PROVE  \E w \in NoProperty, k \in Nat : \E G :
                 /\ Outcome(FieldsTo(n), LambdaTo(n), OvertakenTo(n), p, l, F, k, G)
                 /\ Reads(Joined(texts, separator), State(NoWord, Unquoted, p, l, F), State(w, Unquoted, p, k, G))
    BY <1>10
  <2> QED BY <2>1, <2>2 DEF ReadsAs
<1>12. ReadsAs(Joined(texts, separator), e.fields, e.lambda, e.overtaken)
  <2>1. ASSUME NEW p, NEW l, NEW F, NEW k, NEW G,
               Outcome(FieldsTo(n), LambdaTo(n), OvertakenTo(n), p, l, F, k, G)
        PROVE  Outcome(e.fields, e.lambda, e.overtaken, p, l, F, k, G)
    BY <1>2, <2>1 DEF Outcome
  <2> QED BY <1>11, <2>1 DEF ReadsAs
<1> QED BY <1>2, <1>12, GroupedReads

LEMMA CombineClean ==
  ASSUME NEW operator \in {"and", "or"}, NEW S, NEW operands \in Seq(S), \A e \in S : e = Nil \/ Clean(e)
  PROVE  Combine(operator, operands) = Nil \/ Clean(Combine(operator, operands))
<1> DEFINE T == S \ {Nil}
           parts == [i \in DOMAIN operands |-> IF operands[i] = Nil THEN << >> ELSE <<operands[i]>>]
           kept == FlattenSeq(parts)
           n == Len(operands)
<1>1. n \in Nat /\ DOMAIN operands = 1 .. n /\ \A i \in 1 .. n : operands[i] \in S
  BY LenProperties, ElementOfSeq
<1>2. parts \in [1 .. n -> Seq(T)]
  <2>1. \A i \in 1 .. n : operands[i] # Nil => operands[i] \in T
    BY <1>1
  <2>2. << >> \in Seq(T) /\ \A e \in T : <<e>> \in Seq(T)
    BY EmptySeq
  <2> HIDE DEF T, n
  <2> QED BY <1>1, <2>1, <2>2
<1>3. kept \in Seq(T)
  <2> HIDE DEF parts, T, n
  <2> QED BY <1>1, <1>2, FunctionIsSeq, FlattenType
<1>4. \A e \in T : Clean(e)
  OBVIOUS
<1>5. Combine(operator, operands)
        = IF kept = << >> THEN Nil ELSE IF Len(kept) = 1 THEN kept[1] ELSE Logical(operator, kept)
  BY DEF Combine
<1> HIDE DEF kept, T
<1>6. CASE kept = << >>
  BY <1>5, <1>6
<1>7. CASE kept # << >> /\ Len(kept) = 1
  <2>1. kept[1] \in T
    BY <1>3, <1>7, ElementOfSeq
  <2> QED BY <1>4, <1>5, <1>7, <2>1
<1>8. CASE kept # << >> /\ Len(kept) # 1
  <2>1. Clean(Logical(operator, kept))
    BY <1>3, <1>4, <1>8, LogicalClean
  <2> QED BY <1>5, <1>8, <2>1
<1> QED BY <1>6, <1>7, <1>8

\* The expressions that the constructors make of others.
Names == {x \in STRING : <<x>> \in Operators}
Constructed(S) ==
  {Nil}
  \cup {Comparison(field, operator, value) : field \in Properties, operator \in Names, value \in Values}
  \cup {Function(name, field, value) : name \in Names, field \in Properties, value \in Values}
  \cup {In(field, values) : field \in Properties, values \in Seq(Values)}
  \cup {Raw(text) : text \in Seq(Token)}
  \cup {Combine(operator, operands) : operator \in {"and", "or"}, operands \in Seq(S)}
  \cup {Not(e) : e \in S}
  \cup {Lambda(collection, operator, variable, e) :
          collection \in Token \ {<< >>}, operator \in {"any", "all"}, variable \in Token \ Delimiters, e \in S}

\* Each of them is built by constructors, of others in the set.
Built(E) == \A S \in SUBSET E : E \cap Constructed(S) \subseteq S => S = E

LEMMA ConstructedClean ==
  ASSUME NEW S, \A e \in S : e = Nil \/ Clean(e), NEW e \in Constructed(S)
  PROVE  e = Nil \/ Clean(e)
<1>1. CASE \E field \in Properties, operator \in Names, value \in Values : e = Comparison(field, operator, value)
  BY <1>1, ComparisonClean DEF Names
<1>2. CASE \E name \in Names, field \in Properties, value \in Values : e = Function(name, field, value)
  BY <1>2, FunctionClean DEF Names
<1>3. CASE \E field \in Properties, values \in Seq(Values) : e = In(field, values)
  <2>1. PICK field \in Properties, values \in Seq(Values) : e = In(field, values)
    BY <1>3
  <2>2. CASE values = << >>
    BY <2>1, <2>2 DEF In
  <2>3. CASE values # << >>
    BY <2>1, <2>3, InClean
  <2> QED BY <2>2, <2>3
<1>4. CASE \E text \in Seq(Token) : e = Raw(text)
  BY <1>4, RawClean
<1>5. CASE \E operator \in {"and", "or"}, operands \in Seq(S) : e = Combine(operator, operands)
  <2>1. PICK operator \in {"and", "or"}, operands \in Seq(S) : e = Combine(operator, operands)
    BY <1>5
  <2> QED BY <2>1, CombineClean
<1>6. CASE \E q \in S : e = Not(q)
  <2>1. PICK q \in S : e = Not(q)
    BY <1>6
  <2>2. CASE q = Nil
    BY <2>1, <2>2 DEF Not
  <2>3. CASE Clean(q)
    BY <2>1, <2>3, NotClean
  <2> QED BY <2>2, <2>3
<1>7. CASE \E collection \in Token \ {<< >>}, operator \in {"any", "all"}, variable \in Token \ Delimiters, q \in S :
             e = Lambda(collection, operator, variable, q)
  <2>1. PICK collection \in Token \ {<< >>}, operator \in {"any", "all"}, variable \in Token \ Delimiters, q \in S :
             e = Lambda(collection, operator, variable, q)
    BY <1>7
  <2>2. CASE q = Nil
    BY <2>1, <2>2 DEF Lambda
  <2>3. CASE Clean(q)
    BY <2>1, <2>3, LambdaClean
  <2> QED BY <2>2, <2>3
<1> QED BY <1>1, <1>2, <1>3, <1>4, <1>5, <1>6, <1>7 DEF Constructed

LEMMA BuiltClean ==
  ASSUME NEW E, Built(E), NEW e \in E
  PROVE  e = Nil \/ Clean(e)
<1> DEFINE S == {q \in E : q = Nil \/ Clean(q)}
<1>1. E \cap Constructed(S) \subseteq S
  <2> SUFFICES ASSUME NEW q \in E, q \in Constructed(S) PROVE q = Nil \/ Clean(q)
    OBVIOUS
  <2>1. \A c \in S : c = Nil \/ Clean(c)
    OBVIOUS
  <2> HIDE DEF S
  <2> QED BY <2>1, ConstructedClean
<1>2. S = E
  <2>1. S \in SUBSET E
    OBVIOUS
  <2> HIDE DEF S
  <2> QED BY <1>1, <2>1 DEF Built
<1> QED BY <1>2

\* The $filter of Params: of two of them it makes one that is raw.
FiltersOf(E) == {FilterValue(where, narrowing) : where \in E \cup {Nil}, narrowing \in E \cup {Nil}} \ {Nil}

LEMMA FiltersClean ==
  ASSUME NEW E, Built(E), NEW f \in FiltersOf(E)
  PROVE  Clean(f)
<1>1. PICK where \in E \cup {Nil}, narrowing \in E \cup {Nil} : f = FilterValue(where, narrowing)
  BY DEF FiltersOf
<1>2. f # Nil
  BY DEF FiltersOf
<1>3. \A e \in E \cup {Nil} : e = Nil \/ Clean(e)
  BY BuiltClean
<1>4. CASE where = Nil
  BY <1>1, <1>2, <1>3, <1>4 DEF FilterValue
<1>5. CASE where # Nil /\ narrowing = Nil
  BY <1>1, <1>2, <1>3, <1>5 DEF FilterValue
<1>6. CASE where # Nil /\ narrowing # Nil
  <2>1. DOMAIN where = Parts
    BY <1>3, <1>6 DEF Clean
  <2>2. DOMAIN f = Parts /\ f.raw
    BY <1>1, <1>6, <2>1 DEF FilterValue, Parts
  <2> QED BY <2>2 DEF Clean
<1> QED BY <1>4, <1>5, <1>6

\* The scan is at the state that reading the text comes to.
AsRead ==
  \A h : h[0] = ScanStart /\ (\A i \in 1 .. Len(filter.text) : h[i] = ScanToken(h[i - 1], filter.text[i])) =>
    /\ cursor <= Len(filter.text) + 1 => scan = h[cursor - 1]
    /\ Done => scan = Flush(h[Len(filter.text)])

LEMMA AsReadStep == ScanTypeOK /\ AsRead /\ [ScanNext]_scanVars => AsRead'
<1> SUFFICES ASSUME ScanTypeOK, AsRead, [ScanNext]_scanVars, NEW h, h[0] = ScanStart,
                    \A i \in 1 .. Len(filter'.text) : h[i] = ScanToken(h[i - 1], filter'.text[i])
             PROVE  /\ cursor' <= Len(filter'.text) + 1 => scan' = h[cursor' - 1]
                    /\ Done' => scan' = Flush(h[Len(filter'.text)])
  BY DEF AsRead, Done
<1> DEFINE n == Len(filter.text)
<1>1. n \in Nat /\ cursor \in 1 .. n + 2
  BY FilterTexts, LenProperties DEF ScanTypeOK
<1>2. filter' = filter
  BY DEF ScanNext, Read, Finish, scanVars
<1>3. /\ cursor <= n + 1 => scan = h[cursor - 1]
      /\ cursor = n + 2 => scan = Flush(h[n])
  BY <1>2 DEF AsRead, Done
<1>4. \A i \in 1 .. n : h[i] = ScanToken(h[i - 1], filter.text[i])
  BY <1>2
<1> HIDE DEF n
<1> SUFFICES /\ cursor' <= n + 1 => scan' = h[cursor' - 1]
             /\ cursor' = n + 2 => scan' = Flush(h[n])
  BY <1>2 DEF n, Done
<1>5. CASE Read
  <2>1. cursor <= n /\ cursor' = cursor + 1 /\ scan' = ScanToken(scan, filter.text[cursor])
    BY <1>5 DEF Read, n
  <2>2. cursor \in 1 .. n /\ cursor' - 1 = cursor /\ cursor' # n + 2 /\ cursor <= n + 1
    BY <1>1, <2>1
  <2>3. scan' = h[cursor]
    BY <1>3, <1>4, <2>1, <2>2
  <2> QED BY <2>2, <2>3
<1>6. CASE Finish
  <2>1. cursor = n + 1 /\ cursor' = cursor + 1 /\ scan' = Flush(scan)
    BY <1>6 DEF Finish, n
  <2>2. cursor - 1 = n /\ cursor' = n + 2 /\ ~(cursor' <= n + 1) /\ cursor <= n + 1
    BY <1>1, <2>1
  <2> QED BY <1>3, <2>1, <2>2
<1>7. CASE UNCHANGED scanVars
  BY <1>3, <1>7 DEF scanVars
<1> QED BY <1>5, <1>6, <1>7 DEF ScanNext

LEMMA ScanInitAsRead == ScanInit => AsRead
<1> SUFFICES ASSUME ScanInit, NEW h, h[0] = ScanStart
             PROVE  /\ cursor <= Len(filter.text) + 1 => scan = h[cursor - 1]
                    /\ ~Done
  BY DEF AsRead
<1>1. Len(filter.text) \in Nat
  BY FilterTexts, LenProperties DEF ScanInit
<1>2. cursor = 1 /\ scan = ScanStart /\ cursor - 1 = 0
  BY DEF ScanInit
<1> QED BY <1>1, <1>2 DEF Done

\* Where the scan is when it is done with a text that was built.
LEMMA ScansToItsFields ==
  ASSUME NEW E, Built(E), Filters \subseteq FiltersOf(E)
  PROVE  ScanTypeOK /\ AsRead => ScanIsExact
<1> SUFFICES ASSUME ScanTypeOK, AsRead, Done, ~filter.raw
             PROVE  /\ scan.fields \subseteq filter.fields
                    /\ ~filter.overtaken => scan.fields = filter.fields
                    /\ ~scan.quoted /\ scan.parens = 0 /\ scan.lambdas = 0
  BY DEF ScanIsExact
<1> DEFINE text == filter.text
<1>1. filter \in FiltersOf(E)
  BY DEF ScanTypeOK
<1>2. ReadsAs(text, filter.fields, filter.lambda, filter.overtaken)
  BY <1>1, FiltersClean DEF Clean
<1>3. 0 \in Nat /\ 0 \in 0 .. 0
  OBVIOUS
<1>4. PICK w \in NoProperty, k \in Nat : \E G :
        /\ Outcome(filter.fields, filter.lambda, filter.overtaken, 0, 0, {}, k, G)
        /\ Reads(text, State(NoWord, Unquoted, 0, 0, {}), State(w, Unquoted, 0, k, G))
  BY <1>2, <1>3 DEF ReadsAs
<1>5. PICK G :
        /\ Outcome(filter.fields, filter.lambda, filter.overtaken, 0, 0, {}, k, G)
        /\ Reads(text, State(NoWord, Unquoted, 0, 0, {}), State(w, Unquoted, 0, k, G))
  BY <1>4
<1>6. k = 0 /\ G \subseteq filter.fields /\ (~filter.overtaken => G = filter.fields)
  BY <1>5 DEF Outcome
<1>7. ScanStart = State(NoWord, Unquoted, 0, 0, {})
  BY DEF ScanStart, State, Unquoted
<1>8. PICK h : /\ h[0] = ScanStart /\ h[Len(text)] = State(w, Unquoted, 0, 0, G)
               /\ \A i \in 1 .. Len(text) : h[i] = ScanToken(h[i - 1], text[i])
  BY <1>5, <1>6, <1>7 DEF Reads
<1>9. scan = Flush(State(w, Unquoted, 0, 0, G))
  BY <1>8 DEF AsRead
<1>10. scan = State(NoWord, Unquoted, 0, 0, G)
  <2>1. 0 \in Int /\ Flushed(w, 0, G) = G
    BY Words
  <2> QED BY <1>3, <1>9, <2>1, FlushStep
<1>11. scan.fields = G /\ scan.quoted = Unquoted /\ scan.parens = 0 /\ scan.lambdas = 0
  BY <1>10 DEF State
<1>12. ~scan.quoted
  BY <1>11 DEF Unquoted
<1> QED BY <1>6, <1>11, <1>12

\* The two readings of a filter agree (filter.go:254, constraints.go:173), for every filter
\* that the constructors build, however deep, over any properties, values and lambdas: the
\* scan of the text finds the fields of the expression, and ends outside all parentheses.
THEOREM ScanFindsTheFields ==
  ASSUME NEW E, Built(E), Filters \subseteq FiltersOf(E)
  PROVE  ScanSpec => []ScanIsExact
<1>1. ScanInit => AsRead
  BY ScanInitAsRead
<1>2. ScanTypeOK /\ AsRead /\ [ScanNext]_scanVars => AsRead'
  BY AsReadStep
<1>3. ScanTypeOK /\ AsRead => ScanIsExact
  BY ScansToItsFields
<1> QED BY <1>1, <1>2, <1>3, TypeCorrect, PTL DEF ScanSpec

-----------------------------------------------------------------------------
\* FlattenSeq picks the elements of a sequence by their indices, the same ones whatever
\* the elements are.
LEMMA Selection ==
  ASSUME NEW n \in Nat, NEW keep \in SUBSET (1 .. n)
  PROVE  \E m \in Nat : \E index \in [1 .. m -> keep] : \A v :
           FlattenSeq([i \in 1 .. n |-> IF i \in keep THEN <<v[i]>> ELSE << >>]) = [k \in 1 .. m |-> v[index[k]]]
<1> DEFINE Indices == [i \in 1 .. n |-> IF i \in keep THEN <<i>> ELSE << >>]
           Picked(v) == [i \in 1 .. n |-> IF i \in keep THEN <<v[i]>> ELSE << >>]
<1>1. CASE n = 0
  <2>1. ASSUME NEW v PROVE FlattenSeq(Picked(v)) = [k \in 1 .. 0 |-> v[k]]
    <3>1. Picked(v) = << >>
      BY <1>1
    <3>2. Len(Picked(v)) = 0
      BY <3>1
    <3>3. FlattenSeq(Picked(v)) = << >>
      <4> HIDE DEF Picked
      <4> QED BY <3>1, <3>2 DEF FlattenSeq
    <3> QED BY <3>3
  <2>2. [k \in 1 .. 0 |-> k] \in [1 .. 0 -> keep]
    OBVIOUS
  <2>3. \A v : [k \in 1 .. 0 |-> v[k]] = [k \in 1 .. 0 |-> v[[j \in 1 .. 0 |-> j][k]]]
    OBVIOUS
  <2> HIDE DEF Picked
  <2>4. \A v : FlattenSeq(Picked(v)) = [k \in 1 .. 0 |-> v[[j \in 1 .. 0 |-> j][k]]]
    BY <2>1, <2>3
  <2>5. 0 \in Nat
    OBVIOUS
  <2> QED BY <2>2, <2>4, <2>5 DEF Picked
<1>2. CASE n # 0
  <2>1. Indices \in Seq(Seq(keep)) /\ Len(Indices) = n /\ Indices # << >>
    <3>1. << >> \in Seq(keep) /\ \A i \in keep : <<i>> \in Seq(keep)
      BY EmptySeq
    <3>2. Indices \in [1 .. n -> Seq(keep)]
      BY <3>1
    <3> HIDE DEF Indices
    <3>3. Indices \in Seq(Seq(keep)) /\ Len(Indices) = n
      BY <3>2, FunctionIsSeq
    <3> QED BY <1>2, <3>3, EmptySeq
  <2>2. PICK g \in [1 .. n -> Seq(keep)] :
          /\ g[1] = Indices[1]
          /\ \A i \in 2 .. n : g[i] = g[i - 1] \o Indices[i]
    <3> HIDE DEF Indices
    <3>1. PICK g \in [1 .. Len(Indices) -> Seq(keep)] :
            g[1] = Indices[1] /\ \A i \in 2 .. Len(Indices) : g[i] = g[i - 1] \o Indices[i]
      BY <2>1, Flattening
    <3> QED BY <2>1, <3>1
  <2> DEFINE m == Len(g[n])
  <2>3. g[n] \in Seq(keep) /\ m \in Nat /\ g[n] \in [1 .. m -> keep]
    BY <1>2, <2>2
  <2>4. ASSUME NEW v PROVE FlattenSeq(Picked(v)) = [k \in 1 .. m |-> v[g[n][k]]]
    <3> DEFINE S == {v[i] : i \in 1 .. n}
               parts == Picked(v)
               Of(s) == [k \in 1 .. Len(s) |-> v[s[k]]]
    <3>1. parts \in Seq(Seq(S)) /\ Len(parts) = n /\ parts # << >>
      <4>1. << >> \in Seq(S) /\ \A i \in 1 .. n : <<v[i]>> \in Seq(S)
        <5>1. \A i \in 1 .. n : v[i] \in S
          OBVIOUS
        <5> HIDE DEF S
        <5> QED BY <5>1, EmptySeq
      <4>2. parts \in [1 .. n -> Seq(S)]
        <5> HIDE DEF S
        <5> QED BY <4>1
      <4> HIDE DEF parts, S, Picked
      <4>3. parts \in Seq(Seq(S)) /\ Len(parts) = n
        BY <4>2, FunctionIsSeq
      <4> QED BY <1>2, <4>3, EmptySeq
    <3>2. PICK f \in [1 .. n -> Seq(S)] :
            /\ FlattenSeq(parts) = f[n]
            /\ f[1] = parts[1]
            /\ \A i \in 2 .. n : f[i] = f[i - 1] \o parts[i]
      <4> HIDE DEF parts, S
      <4> QED BY <3>1, Flattening
    <3>3. \A i \in 1 .. n : parts[i] = Of(Indices[i]) /\ Indices[i] \in Seq(keep)
      <4> SUFFICES ASSUME NEW i \in 1 .. n PROVE parts[i] = Of(Indices[i]) /\ Indices[i] \in Seq(keep)
        OBVIOUS
      <4>1. CASE i \in keep
        <5>1. parts[i] = <<v[i]>> /\ Indices[i] = <<i>>
          BY <4>1
        <5>2. Of(<<i>>) = <<v[i]>> /\ <<i>> \in Seq(keep)
          BY <4>1
        <5> HIDE DEF parts, Indices, Of
        <5> QED BY <5>1, <5>2
      <4>2. CASE i \notin keep
        <5>1. parts[i] = << >> /\ Indices[i] = << >>
          BY <4>2
        <5>2. Of(<< >>) = << >> /\ << >> \in Seq(keep)
          OBVIOUS
        <5> HIDE DEF parts, Indices, Of
        <5> QED BY <5>1, <5>2
      <4> QED BY <4>1, <4>2
    <3>4. ASSUME NEW s \in Seq(keep), NEW t \in Seq(keep) PROVE Of(s) \o Of(t) = Of(s \o t)
      <4>1. \A u \in Seq(keep) : Of(u) \in Seq(S) /\ Len(Of(u)) = Len(u) /\ \A k \in 1 .. Len(u) : Of(u)[k] = v[u[k]]
        <5> SUFFICES ASSUME NEW u \in Seq(keep)
                     PROVE  Of(u) \in Seq(S) /\ Len(Of(u)) = Len(u) /\ \A k \in 1 .. Len(u) : Of(u)[k] = v[u[k]]
          OBVIOUS
        <5>1. \A k \in 1 .. Len(u) : v[u[k]] \in S
          <6>1. \A k \in 1 .. Len(u) : u[k] \in keep
            BY ElementOfSeq
          <6> QED BY <6>1
        <5>2. Of(u) \in [1 .. Len(u) -> S] /\ \A k \in 1 .. Len(u) : Of(u)[k] = v[u[k]]
          <6> HIDE DEF S
          <6> QED BY <5>1
        <5>3. Len(u) \in Nat
          OBVIOUS
        <5> HIDE DEF Of, S
        <5> QED BY <5>2, <5>3, FunctionIsSeq
      <4>2. s \o t \in Seq(keep) /\ Len(s \o t) = Len(s) + Len(t)
            /\ \A k \in 1 .. Len(s) + Len(t) : (s \o t)[k] = IF k <= Len(s) THEN s[k] ELSE t[k - Len(s)]
        BY ConcatProperties
      <4>3. /\ Of(s) \o Of(t) \in Seq(S)
            /\ Len(Of(s) \o Of(t)) = Len(s) + Len(t)
            /\ \A k \in 1 .. Len(s) + Len(t) :
                 (Of(s) \o Of(t))[k] = IF k <= Len(s) THEN Of(s)[k] ELSE Of(t)[k - Len(s)]
        <5> HIDE DEF Of, S
        <5>1. Of(s) \in Seq(S) /\ Of(t) \in Seq(S) /\ Len(Of(s)) = Len(s) /\ Len(Of(t)) = Len(t)
          BY <4>1
        <5>2. /\ Of(s) \o Of(t) \in Seq(S)
              /\ Len(Of(s) \o Of(t)) = Len(Of(s)) + Len(Of(t))
              /\ \A k \in 1 .. Len(Of(s)) + Len(Of(t)) :
                   (Of(s) \o Of(t))[k] = IF k <= Len(Of(s)) THEN Of(s)[k] ELSE Of(t)[k - Len(Of(s))]
          BY <5>1, ConcatProperties
        <5> QED BY <5>1, <5>2
      <4>4. ASSUME NEW k \in 1 .. Len(s) + Len(t) PROVE (Of(s) \o Of(t))[k] = Of(s \o t)[k]
        <5>1. Len(s) \in Nat /\ Len(t) \in Nat
          OBVIOUS
        <5>2. Of(s \o t)[k] = v[(s \o t)[k]]
          <6> HIDE DEF Of, S
          <6> QED BY <4>1, <4>2
        <5>3. CASE k <= Len(s)
          <6> HIDE DEF Of, S
          <6> QED BY <4>1, <4>2, <4>3, <5>1, <5>2, <5>3
        <5>4. CASE ~(k <= Len(s))
          <6>1. k - Len(s) \in 1 .. Len(t)
            BY <5>1, <5>4
          <6> HIDE DEF Of, S
          <6> QED BY <4>1, <4>2, <4>3, <5>1, <5>2, <5>4, <6>1
        <5> QED BY <5>3, <5>4
      <4>5. Of(s \o t) \in Seq(S) /\ Len(Of(s \o t)) = Len(s) + Len(t)
        <5> HIDE DEF Of, S
        <5> QED BY <4>1, <4>2
      <4> HIDE DEF Of, S
      <4> QED BY <4>3, <4>4, <4>5, SeqEqual
    <3> DEFINE T == {j \in Nat : j + 1 <= n => f[j + 1] = Of(g[j + 1])}
    <3>5. 0 \in T
      <4>1. f[1] = Of(g[1])
        <5>1. 1 \in 1 .. n
          BY <1>2
        <5> HIDE DEF parts, Indices, Of, S
        <5> QED BY <2>2, <3>2, <3>3, <5>1
      <4> QED BY <4>1
    <3>6. ASSUME NEW j \in T PROVE j + 1 \in T
      <4> SUFFICES ASSUME (j + 1) + 1 <= n PROVE f[(j + 1) + 1] = Of(g[(j + 1) + 1])
        OBVIOUS
      <4>1. j \in Nat /\ j + 1 \in 1 .. n /\ (j + 1) + 1 \in 2 .. n /\ ((j + 1) + 1) - 1 = j + 1
            /\ (j + 1) + 1 \in 1 .. n
        OBVIOUS
      <4>2. f[j + 1] = Of(g[j + 1])
        BY <4>1
      <4> DEFINE i == (j + 1) + 1
      <4> HIDE DEF parts, Indices, Of, S, i
      <4>3. f[i] = f[j + 1] \o parts[i] /\ g[i] = g[j + 1] \o Indices[i]
        BY <2>2, <3>2, <4>1 DEF i
      <4>4. g[j + 1] \in Seq(keep) /\ parts[i] = Of(Indices[i]) /\ Indices[i] \in Seq(keep)
        BY <3>3, <4>1 DEF i
      <4> QED BY <3>4, <4>2, <4>3, <4>4 DEF i
    <3>7. Nat \subseteq T
      <4> HIDE DEF T
      <4> QED BY <3>5, <3>6, NatSetInduction
    <3>8. f[n] = Of(g[n])
      <4>1. n - 1 \in Nat /\ (n - 1) + 1 = n /\ n <= n
        BY <1>2
      <4>2. n - 1 \in T
        BY <3>7, <4>1
      <4> HIDE DEF Of
      <4> QED BY <4>1, <4>2
    <3> HIDE DEF parts, S, Picked
    <3> QED BY <3>2, <3>8 DEF parts
  <2> HIDE DEF Picked, m
  <2> QED BY <2>3, <2>4 DEF Picked
<1> QED BY <1>1, <1>2

-----------------------------------------------------------------------------
\* What the shapers of Teams make of a listing.
RepliesLinkKey == "replies@odata.nextLink"
Cut(replies) == IF Len(replies) > TeamsExpandedReplyCap THEN TeamsExpandedReplyCap ELSE Len(replies)
TypeSeen(r, type) ==
  IF IncludeUnknownEnumMembers \notin r.prefer.others /\ type \notin {"message", "chatEvent", "typing"}
  THEN "unknownFutureValue" ELSE type
OfChannel(r) == ChannelMessages(r.path) /\ ~HasSegment(r.path, {"replies"})

\* What the n-th of them makes of one object, as far as a listing needs it.
Visit(n, r, o, v) ==
  /\ DOMAIN o \ {"members@odata.nextLink"} \subseteq DOMAIN v /\ ~Has(v, "displayName")
  /\ \A k \in {"id", "replyToId"} \cap DOMAIN o : v[k] = o[k]
  /\ Has(o, RepliesLinkKey) /\ n # 5 => v[RepliesLinkKey] = o[RepliesLinkKey]
  /\ Has(o, "messageType") =>
       v.messageType = IF n = 1 THEN TypeSeen(r, o.messageType) ELSE o.messageType
  /\ Has(o, "replies") =>
       IF n = 5 /\ Len(o.replies) > TeamsExpandedReplyCap
       THEN /\ v.replies = SubSeq(o.replies, 1, TeamsExpandedReplyCap)
            /\ Has(v, RepliesLinkKey) /\ v[RepliesLinkKey] = r.path \o <<o.id, "replies">>
       ELSE v.replies = o.replies
  /\ Has(o, "value") => v.value = IF n = 6 /\ OfChannel(r) THEN RootsOf(o.value) ELSE o.value

LEMMA ShapersVisit ==
  ASSUME NEW n \in 1 .. 7, NEW r, NEW o, ~Has(o, "displayName")
  PROVE  Visit(n, r, o, Visited(TeamsShapers[n], r, o))
<1> DEFINE v == Visited(TeamsShapers[n], r, o)
<1> USE DEF Visit, Visited, TeamsShapers, Has, RepliesLinkKey, Named
<1>1. CASE n = 1
  <2>1. v = HideEnumsWithoutPrefer(r, o)
    BY <1>1
  <2> QED BY <1>1, <2>1 DEF HideEnumsWithoutPrefer, TypeSeen
<1>2. CASE n = 2
  <2>1. v = DropSenderOnSystemEvents(o)
    BY <1>2
  <2> QED BY <1>2, <2>1 DEF DropSenderOnSystemEvents, With
<1>3. CASE n = 3
  <2>1. v = DropTopicOnOneOnOneChats(o)
    BY <1>3
  <2> QED BY <1>3, <2>1 DEF DropTopicOnOneOnOneChats, With
<1>4. CASE n = 4
  <2>1. v = TruncateExpandedMembers(o, TeamsExpandedMemberCap)
    BY <1>4
  <2>2. CASE v = o
    BY <1>4, <2>2
  <2>3. CASE v # o
    <3> DEFINE cut == [o EXCEPT !.members = SubSeq(@, 1, TeamsExpandedMemberCap)]
    <3>1. v = [k \in DOMAIN cut \ {"members@odata.nextLink"} |-> cut[k]]
      BY <2>1, <2>3 DEF TruncateExpandedMembers, Without
    <3>2. DOMAIN cut = DOMAIN o /\ \A k \in DOMAIN o \ {"members"} : cut[k] = o[k]
      OBVIOUS
    <3>3. DOMAIN v = DOMAIN o \ {"members@odata.nextLink"}
          /\ \A k \in DOMAIN o \ {"members", "members@odata.nextLink"} : v[k] = o[k]
      <4> HIDE DEF cut, v
      <4> QED BY <3>1, <3>2
    <3>4. Visit(4, r, o, v)
      <4> HIDE DEF v
      <4> QED BY <3>3
    <3> QED BY <1>4, <3>4
  <2> QED BY <2>2, <2>3
<1>5. CASE n = 5
  <2>1. v = PageExpandedReplies(r, o, TeamsExpandedReplyCap)
    BY <1>5
  <2> DEFINE long == Has(o, "replies") /\ Len(o.replies) > TeamsExpandedReplyCap
             cut == [o EXCEPT !.replies = SubSeq(@, 1, TeamsExpandedReplyCap)]
  <2>2. CASE long
    <3>1. v = [k \in DOMAIN cut \cup {RepliesLinkKey} |->
                 IF k = RepliesLinkKey THEN r.path \o <<o.id, "replies">> ELSE cut[k]]
      BY <2>1, <2>2 DEF PageExpandedReplies, With, RepliesLink
    <3>2. /\ DOMAIN cut = DOMAIN o /\ \A k \in DOMAIN o \ {"replies"} : cut[k] = o[k]
          /\ cut.replies = SubSeq(o.replies, 1, TeamsExpandedReplyCap)
      BY <2>2
    <3>3. /\ DOMAIN v = DOMAIN o \cup {RepliesLinkKey}
          /\ \A k \in DOMAIN o \ {"replies", RepliesLinkKey} : v[k] = o[k]
          /\ v.replies = SubSeq(o.replies, 1, TeamsExpandedReplyCap)
          /\ v[RepliesLinkKey] = r.path \o <<o.id, "replies">>
      <4> HIDE DEF cut, v
      <4> QED BY <2>2, <3>1, <3>2
    <3>4. Visit(5, r, o, v)
      <4> HIDE DEF v
      <4> QED BY <2>2, <3>3
    <3> QED BY <1>5, <3>4
  <2>3. CASE ~long
    <3>1. v = o
      BY <2>1, <2>3 DEF PageExpandedReplies
    <3>2. Visit(5, r, o, v)
      <4> HIDE DEF v
      <4> QED BY <2>3, <3>1
    <3> QED BY <1>5, <3>2
  <2> HIDE DEF v
  <2> QED BY <2>2, <2>3
<1>6. CASE n = 6
  <2>1. v = RootChannelMessagesOnly(r, o)
    BY <1>6
  <2> QED BY <1>6, <2>1 DEF RootChannelMessagesOnly, OfChannel
<1>7. CASE n = 7
  <2>1. v = PopulateOnlyJoinedTeamsFields(r, o)
    BY <1>7
  <2> QED BY <1>7, <2>1 DEF PopulateOnlyJoinedTeamsFields
<1> HIDE DEF Visit, Visited, TeamsShapers, Has, RepliesLinkKey, Named
<1> QED BY <1>1, <1>2, <1>3, <1>4, <1>5, <1>6, <1>7

-----------------------------------------------------------------------------
\* Sequences, by their lengths and elements.
LEMMA SequenceOf ==
  ASSUME NEW k \in Nat, NEW f, f = [i \in 1 .. k |-> f[i]]
  PROVE  IsSequence(f) /\ Len(f) = k /\ DOMAIN f = 1 .. k /\ f \in Seq({f[i] : i \in 1 .. k})
<1> DEFINE S == {f[i] : i \in 1 .. k}
<1>1. f \in [1 .. k -> S]
  BY Zenon
<1> HIDE DEF S
<1>2. f \in Seq(S) /\ Len(f) = k
  BY <1>1, FunctionIsSeq
<1>3. DOMAIN f = 1 .. k
  BY <1>1
<1> QED BY <1>2, <1>3 DEF IsSequence, S

LEMMA Beginning ==
  ASSUME NEW s, IsSequence(s), NEW c \in Nat, c <= Len(s)
  PROVE  LET t == SubSeq(s, 1, c)
         IN IsSequence(t) /\ Len(t) = c /\ DOMAIN t = 1 .. c /\ \A i \in 1 .. c : t[i] = s[i]
<1> DEFINE t == SubSeq(s, 1, c)
           S == {s[i] : i \in 1 .. Len(s)}
<1>1. s \in Seq(S) /\ Len(s) \in Nat
  BY SequenceOf DEF IsSequence
<1> HIDE DEF S
<1>2. Len(t) = c /\ t \in Seq(S) /\ \A i \in 1 .. c : t[i] = s[i]
  <2>1. 1 \in 1 .. Len(s) + 1 /\ c \in (1 - 1) .. Len(s)
    BY <1>1
  <2>2. t \in Seq(S) /\ Len(t) = c - 1 + 1 /\ \A i \in 1 .. c - 1 + 1 : t[i] = s[1 + i - 1]
    BY <1>1, <2>1, SubSeqProperties
  <2> HIDE DEF t
  <2> QED BY <2>2
<1> HIDE DEF t
<1>3. t = [i \in 1 .. c |-> t[i]]
  BY <1>2
<1> QED BY <1>2, <1>3, SequenceOf DEF t

-----------------------------------------------------------------------------
\* A message and its replies, after n shapers.
TypeAt(n, r, type) == IF n = 0 THEN type ELSE TypeSeen(r, type)
Count(n, o) == IF n < 5 THEN Len(o.replies) ELSE Cut(o.replies)
ReplyAt(n, r, m, o) ==
  IsObject(m, {"id", "messageType"}) /\ m.id = o.id /\ m.messageType = TypeAt(n, r, o.messageType)
ThreadAt(n, r, m, o) ==
  /\ ReplyAt(n, r, m, o) /\ IsObject(m, {"replyToId", "replies"}) /\ m.replyToId = o.replyToId
  /\ IsSequence(m.replies) /\ Len(m.replies) = Count(n, o)
  /\ \A j \in 1 .. Count(n, o) : ReplyAt(n, r, m.replies[j], o.replies[j])
  /\ n >= 5 /\ Len(o.replies) > TeamsExpandedReplyCap =>
       Has(m, RepliesLinkKey) /\ m[RepliesLinkKey] = r.path \o <<o.id, "replies">>

LEMMA ReplyStep ==
  ASSUME NEW n \in 1 .. 7, NEW r, NEW m, NEW o, ReplyAt(n - 1, r, m, o)
  PROVE  ReplyAt(n, r, Visited(TeamsShapers[n], r, m), o)
<1> DEFINE v == Visited(TeamsShapers[n], r, m)
<1>1. Visit(n, r, m, v)
  BY ShapersVisit DEF ReplyAt, IsObject
<1>2. n - 1 = 0 <=> n = 1
  OBVIOUS
<1> HIDE DEF v
<1>3. ReplyAt(n, r, v, o)
  BY <1>1, <1>2 DEF Visit, ReplyAt, IsObject, Has, TypeAt
<1> QED BY <1>3 DEF v

LEMMA ThreadStep ==
  ASSUME NEW n \in 1 .. 7, NEW r, NEW m, NEW o, IsThread(o), ThreadAt(n - 1, r, m, o)
  PROVE  ThreadAt(n, r, WalkItem(TeamsShapers[n], r, m), o)
<1> DEFINE v == Visited(TeamsShapers[n], r, m)
           x == WalkItem(TeamsShapers[n], r, m)
           q == v.replies
<1>1. Visit(n, r, m, v) /\ ReplyAt(n, r, v, o)
  BY ShapersVisit, ReplyStep DEF ThreadAt, ReplyAt, IsObject
<1>2. Len(o.replies) \in Nat /\ TeamsExpandedReplyCap \in Nat
  BY ShaperCaps DEF IsThread, IsSequence
<1>3. IsSequence(q) /\ Len(q) = Count(n, o) /\ \A j \in 1 .. Count(n, o) : q[j] = m.replies[j]
  <2>1. q = IF n = 5 /\ Len(m.replies) > TeamsExpandedReplyCap
            THEN SubSeq(m.replies, 1, TeamsExpandedReplyCap) ELSE m.replies
    <3> HIDE DEF v
    <3> QED BY <1>1 DEF Visit, ThreadAt, IsObject, Has
  <2>2. IsSequence(m.replies) /\ Len(m.replies) = Count(n - 1, o)
    BY DEF ThreadAt
  <2> HIDE DEF q
  <2>3. CASE n = 5 /\ Len(m.replies) > TeamsExpandedReplyCap
    <3>1. Len(m.replies) = Len(o.replies) /\ Count(n, o) = TeamsExpandedReplyCap
      BY <1>2, <2>2, <2>3 DEF Count, Cut
    <3>2. q = SubSeq(m.replies, 1, TeamsExpandedReplyCap)
      BY <2>1, <2>3
    <3> QED BY <1>2, <2>2, <2>3, <3>1, <3>2, Beginning
  <2>4. CASE ~(n = 5 /\ Len(m.replies) > TeamsExpandedReplyCap)
    <3>1. Count(n, o) = Count(n - 1, o)
      BY <1>2, <2>2, <2>4 DEF Count, Cut
    <3> QED BY <2>1, <2>2, <2>4, <3>1
  <2> QED BY <2>3, <2>4
<1>4. /\ DOMAIN x = DOMAIN v /\ \A k \in DOMAIN v \ Lists : x[k] = v[k]
      /\ Has(v, "replies") => x.replies = [i \in DOMAIN q |-> Visited(TeamsShapers[n], r, q[i])]
  BY DEF WalkItem, Lists, Has
<1>5. Has(v, "replies") /\ Has(v, "replyToId") /\ v.replyToId = o.replyToId
  <2> HIDE DEF v
  <2> QED BY <1>1 DEF Visit, ThreadAt, IsObject, Has
<1> DEFINE p == [i \in 1 .. Count(n, o) |-> Visited(TeamsShapers[n], r, q[i])]
<1>6. Count(n, o) \in Nat /\ DOMAIN q = 1 .. Count(n, o)
  <2> HIDE DEF q
  <2> QED BY <1>2, <1>3, SequenceOf DEF Count, Cut, IsSequence
<1>7. IsSequence(p) /\ Len(p) = Count(n, o)
  <2>1. p = [i \in 1 .. Count(n, o) |-> p[i]]
    OBVIOUS
  <2> HIDE DEF p
  <2> QED BY <1>6, <2>1, SequenceOf
<1>8. \A j \in 1 .. Count(n, o) : ReplyAt(n, r, p[j], o.replies[j])
  <2> SUFFICES ASSUME NEW j \in 1 .. Count(n, o) PROVE ReplyAt(n, r, p[j], o.replies[j])
    OBVIOUS
  <2>1. p[j] = Visited(TeamsShapers[n], r, m.replies[j])
    <3> HIDE DEF q
    <3> QED BY <1>3
  <2>2. j \in 1 .. Count(n - 1, o)
    BY <1>2, <1>6 DEF Count, Cut
  <2>3. ReplyAt(n - 1, r, m.replies[j], o.replies[j])
    BY <2>2 DEF ThreadAt
  <2> HIDE DEF p, q, v, x
  <2> QED BY <2>1, <2>3, ReplyStep
<1>9. x.replies = p
  <2> HIDE DEF q, x, v
  <2> QED BY <1>4, <1>5, <1>6
<1>10. n >= 5 /\ Len(o.replies) > TeamsExpandedReplyCap =>
         Has(v, RepliesLinkKey) /\ v[RepliesLinkKey] = r.path \o <<o.id, "replies">>
  <2> SUFFICES ASSUME n >= 5, Len(o.replies) > TeamsExpandedReplyCap
               PROVE  Has(v, RepliesLinkKey) /\ v[RepliesLinkKey] = r.path \o <<o.id, "replies">>
    OBVIOUS
  <2> HIDE DEF v, x, p, q
  <2>1. CASE n = 5
    <3>1. Len(m.replies) = Len(o.replies) /\ m.id = o.id
      BY <2>1 DEF ThreadAt, Count, ReplyAt
    <3>2. Has(m, "replies")
      BY DEF ThreadAt, IsObject, Has
    <3> QED BY <1>1, <2>1, <3>1, <3>2 DEF Visit
  <2>2. CASE n # 5
    <3>1. Has(m, RepliesLinkKey) /\ m[RepliesLinkKey] = r.path \o <<o.id, "replies">>
      BY <2>2 DEF ThreadAt
    <3>2. RepliesLinkKey # "members@odata.nextLink"
      BY DEF RepliesLinkKey
    <3>3. DOMAIN m \ {"members@odata.nextLink"} \subseteq DOMAIN v
      BY <1>1 DEF Visit
    <3>4. v[RepliesLinkKey] = m[RepliesLinkKey]
      BY <1>1, <2>2, <3>1 DEF Visit
    <3> QED BY <3>1, <3>2, <3>3, <3>4 DEF Has
  <2> QED BY <2>1, <2>2
<1>11. ReplyAt(n, r, x, o) /\ IsObject(x, {"replyToId", "replies"}) /\ x.replyToId = o.replyToId
  <2> HIDE DEF x, v, q, p
  <2>1. {"id", "messageType", "replyToId"} \cap Lists = {}
    BY DEF Lists
  <2> QED BY <1>1, <1>4, <1>5, <2>1 DEF ReplyAt, IsObject, Has
<1>12. n >= 5 /\ Len(o.replies) > TeamsExpandedReplyCap =>
         Has(x, RepliesLinkKey) /\ x[RepliesLinkKey] = r.path \o <<o.id, "replies">>
  <2>1. RepliesLinkKey \notin Lists
    BY DEF Lists, RepliesLinkKey
  <2> HIDE DEF x, v, q, p
  <2> QED BY <1>4, <1>10, <2>1 DEF Has
<1>13. ThreadAt(n, r, x, o)
  <2> HIDE DEF x, v, q, p
  <2> QED BY <1>7, <1>8, <1>9, <1>11, <1>12 DEF ThreadAt
<1> QED BY <1>13

-----------------------------------------------------------------------------
\* The roots of a listing w are found where the openers of v are.
RootsMatch(v, w) ==
  \E m \in Nat : \E index \in [1 .. m -> 1 .. Len(v)] :
    /\ Openers(v) = [k \in 1 .. m |-> v[index[k]]]
    /\ RootsOf(w) = [k \in 1 .. m |-> w[index[k]]]

LEMMA RootsAreOpeners ==
  ASSUME NEW v, NEW w, IsSequence(v), IsSequence(w), Len(w) = Len(v),
         \A i \in 1 .. Len(v) : "replyToId" \in DOMAIN w[i],
         \A i \in 1 .. Len(v) : w[i].replyToId = v[i].replyToId
  PROVE  RootsMatch(v, w)
<1> DEFINE n == Len(v)
           keep == {i \in 1 .. n : v[i].replyToId = "null"}
           Picked(u) == [i \in 1 .. n |-> IF i \in keep THEN <<u[i]>> ELSE << >>]
<1>1. n \in Nat /\ DOMAIN v = 1 .. n /\ DOMAIN w = 1 .. n
  BY SequenceOf DEF IsSequence
<1>2. PICK m \in Nat : \E index \in [1 .. m -> keep] : \A u :
        FlattenSeq(Picked(u)) = [k \in 1 .. m |-> u[index[k]]]
  <2>1. keep \in SUBSET (1 .. n)
    OBVIOUS
  <2> HIDE DEF keep, n
  <2> QED BY <1>1, <2>1, Selection
<1>3. PICK index \in [1 .. m -> keep] : \A u : FlattenSeq(Picked(u)) = [k \in 1 .. m |-> u[index[k]]]
  BY <1>2
<1>4. Openers(v) = FlattenSeq(Picked(v))
  <2>1. Picked(v) = [i \in DOMAIN v |-> IF v[i].replyToId = "null" THEN <<v[i]>> ELSE << >>]
    BY <1>1
  <2> HIDE DEF Picked
  <2> QED BY <2>1 DEF Openers
<1>5. RootsOf(w) = FlattenSeq(Picked(w))
  <2>1. Picked(w) = [i \in DOMAIN w |-> IF IsReply(w[i]) THEN << >> ELSE <<w[i]>>]
    BY <1>1 DEF IsReply, Has
  <2> HIDE DEF Picked
  <2> QED BY <2>1 DEF RootsOf
<1>6. index \in [1 .. m -> 1 .. Len(v)]
  OBVIOUS
<1> HIDE DEF Picked
<1>7. Openers(v) = [k \in 1 .. m |-> v[index[k]]]
  BY <1>3, <1>4
<1>8. RootsOf(w) = [k \in 1 .. m |-> w[index[k]]]
  BY <1>3, <1>5
<1> QED BY <1>6, <1>7, <1>8 DEF RootsMatch

\* A listing, after n shapers.
Items(n, listing) == IF n < 6 THEN listing ELSE Openers(listing)
ListingAt(n, r, b, listing) ==
  /\ IsObject(b, {"value"}) /\ IsSequence(b.value) /\ IsSequence(Items(n, listing))
  /\ Len(b.value) = Len(Items(n, listing))
  /\ \A i \in 1 .. Len(b.value) : ThreadAt(n, r, b.value[i], Items(n, listing)[i])
                                  /\ IsThread(Items(n, listing)[i])

LEMMA ListingStep ==
  ASSUME NEW n \in 1 .. 7, NEW r, OfChannel(r), NEW b, NEW listing, IsSequence(listing),
         ListingAt(n - 1, r, b, listing)
  PROVE  ListingAt(n, r, WalkJSON(TeamsShapers[n], r, b), listing)
<1> DEFINE v == Visited(TeamsShapers[n], r, b)
           x == WalkJSON(TeamsShapers[n], r, b)
           q == v.value
           items == Items(n, listing)
<1>1. Visit(n, r, b, v) /\ Has(b, "value")
  BY ShapersVisit DEF ListingAt, IsObject, Has
<1>2. /\ IsSequence(q) /\ IsSequence(items) /\ Len(q) = Len(items)
      /\ \A i \in 1 .. Len(q) : ThreadAt(n - 1, r, q[i], items[i]) /\ IsThread(items[i])
  <2>1. q = IF n = 6 THEN RootsOf(b.value) ELSE b.value
    <3> HIDE DEF v
    <3> QED BY <1>1 DEF Visit
  <2> HIDE DEF q
  <2>2. CASE n # 6
    <3>1. items = Items(n - 1, listing)
      BY <2>2 DEF Items
    <3> HIDE DEF items
    <3> QED BY <2>1, <2>2, <3>1 DEF ListingAt
  <2>3. CASE n = 6
    <3>1. /\ IsSequence(b.value) /\ Len(b.value) = Len(listing)
          /\ \A i \in 1 .. Len(listing) : ThreadAt(n - 1, r, b.value[i], listing[i]) /\ IsThread(listing[i])
      BY <2>3 DEF ListingAt, Items
    <3> DEFINE all == b.value
    <3>2. \A i \in 1 .. Len(listing) : "replyToId" \in DOMAIN all[i]
      BY <3>1 DEF ThreadAt, IsObject
    <3>3. \A i \in 1 .. Len(listing) : all[i].replyToId = listing[i].replyToId
      BY <3>1 DEF ThreadAt, IsObject
    <3>4. RootsMatch(listing, all)
      <4> HIDE DEF all
      <4>1. IsSequence(all) /\ Len(all) = Len(listing)
        BY <3>1 DEF all
      <4> QED BY <3>2, <3>3, <4>1, RootsAreOpeners
    <3>5. PICK m \in Nat : \E index \in [1 .. m -> 1 .. Len(listing)] :
            /\ Openers(listing) = [k \in 1 .. m |-> listing[index[k]]]
            /\ RootsOf(all) = [k \in 1 .. m |-> all[index[k]]]
      BY <3>4 DEF RootsMatch
    <3>6. PICK index \in [1 .. m -> 1 .. Len(listing)] :
            /\ Openers(listing) = [k \in 1 .. m |-> listing[index[k]]]
            /\ RootsOf(all) = [k \in 1 .. m |-> all[index[k]]]
      BY <3>5
    <3>7. items = [k \in 1 .. m |-> listing[index[k]]] /\ q = [k \in 1 .. m |-> b.value[index[k]]]
      BY <2>1, <2>3, <3>6 DEF Items
    <3> HIDE DEF items
    <3>8. items = [k \in 1 .. m |-> items[k]] /\ q = [k \in 1 .. m |-> q[k]]
      BY <3>7
    <3>9. Len(items) = m /\ IsSequence(items) /\ IsSequence(q) /\ Len(q) = m
      BY <3>8, SequenceOf
    <3>10. \A k \in 1 .. m : ThreadAt(n - 1, r, q[k], items[k]) /\ IsThread(items[k])
      BY <3>1, <3>6, <3>7
    <3> QED BY <3>9, <3>10
  <2> QED BY <2>2, <2>3
<1>3. /\ DOMAIN x = DOMAIN v
      /\ Has(v, "value") => x.value = [i \in DOMAIN q |-> WalkItem(TeamsShapers[n], r, q[i])]
  BY DEF WalkJSON, Lists, Has
<1>4. Has(v, "value") /\ ~Has(v, "displayName")
  <2> HIDE DEF v
  <2> QED BY <1>1 DEF Visit, Has
<1> DEFINE p == [i \in 1 .. Len(q) |-> WalkItem(TeamsShapers[n], r, q[i])]
<1>5. DOMAIN q = 1 .. Len(q) /\ Len(q) \in Nat
  <2> HIDE DEF q
  <2> QED BY <1>2, SequenceOf DEF IsSequence
<1>6. x.value = p
  <2> HIDE DEF x, v, q
  <2> QED BY <1>3, <1>4, <1>5
<1>7. IsSequence(p) /\ Len(p) = Len(q)
  <2>1. p = [i \in 1 .. Len(q) |-> p[i]]
    OBVIOUS
  <2> HIDE DEF p, q
  <2> QED BY <1>5, <2>1, SequenceOf
<1>8. \A i \in 1 .. Len(q) : ThreadAt(n, r, p[i], items[i])
  <2> SUFFICES ASSUME NEW i \in 1 .. Len(q) PROVE ThreadAt(n, r, p[i], items[i])
    OBVIOUS
  <2>1. p[i] = WalkItem(TeamsShapers[n], r, q[i])
    <3> HIDE DEF q
    <3> QED OBVIOUS
  <2> HIDE DEF p, q, items
  <2> QED BY <1>2, <2>1, ThreadStep
<1>9. IsObject(x, {"value"})
  <2> HIDE DEF x, v
  <2> QED BY <1>3, <1>4 DEF IsObject, Has
<1>10. ListingAt(n, r, x, listing)
  <2> HIDE DEF x, p, q, items
  <2> QED BY <1>2, <1>6, <1>7, <1>8, <1>9 DEF ListingAt, items
<1> QED BY <1>10

\* The shapers of Teams, one after the other.
LEMMA ShapedInTurn ==
  ASSUME NEW r, NEW response
  PROVE  \E f : /\ f[0] = response /\ Shaped(TeamsShapers, r, response) = f[7]
                /\ \A n \in 1 .. 7 : f[n] = Shape(TeamsShapers[n], r, f[n - 1])
<1> DEFINE S(n, x) == Shape(TeamsShapers[n], r, x)
           one == S(1, response)
           two == S(2, one)
           three == S(3, two)
           four == S(4, three)
           five == S(5, four)
           six == S(6, five)
           seven == S(7, six)
           g == [n \in 0 .. 7 |-> IF n = 0 THEN response ELSE IF n = 1 THEN one ELSE IF n = 2 THEN two
                                  ELSE IF n = 3 THEN three ELSE IF n = 4 THEN four
                                  ELSE IF n = 5 THEN five ELSE IF n = 6 THEN six ELSE seven]
           Folds(f) == f = [n \in 0 .. 7 |-> IF n = 0 THEN response ELSE S(n, f[n - 1])]
           h == CHOOSE f : Folds(f)
<1>1. Len(TeamsShapers) = 7
  BY DEF TeamsShapers
<1>2. Folds(g)
  <2> SUFFICES ASSUME NEW n \in 0 .. 7 PROVE g[n] = IF n = 0 THEN response ELSE S(n, g[n - 1])
    BY Zenon
  <2>1. n \in {0, 1, 2, 3, 4, 5, 6, 7}
    OBVIOUS
  <2> HIDE DEF S
  <2> QED BY <2>1
<1>3. Shaped(TeamsShapers, r, response) = h[7]
  BY <1>1 DEF Shaped
<1> HIDE DEF g, S
<1>4. Folds(h)
  BY <1>2
<1> HIDE DEF h
<1>5. h[0] = response /\ \A n \in 1 .. 7 : h[n] = S(n, h[n - 1])
  BY <1>4
<1> QED BY <1>3, <1>5 DEF S

LEMMA ListingIsShaped ==
  ASSUME NEW r, OfChannel(r), NEW response, response.json, IsListing(response)
  PROVE  ListingAt(7, r, Shaped(TeamsShapers, r, response).body, response.body.value)
<1> DEFINE listing == response.body.value
<1>1. PICK f : /\ f[0] = response /\ Shaped(TeamsShapers, r, response) = f[7]
               /\ \A n \in 1 .. 7 : f[n] = Shape(TeamsShapers[n], r, f[n - 1])
  BY ShapedInTurn
<1> DEFINE Fine(n) == f[n].json /\ "body" \in DOMAIN f[n] /\ ListingAt(n, r, f[n].body, listing)
<1>2. IsSequence(listing) /\ Fine(0)
  <2>1. /\ IsSequence(listing) /\ \A i \in 1 .. Len(listing) : IsThread(listing[i])
        /\ IsObject(response.body, {"value"}) /\ "body" \in DOMAIN response
    BY SequenceOf DEF IsListing, IsSequence
  <2>2. \A i \in 1 .. Len(listing) : ThreadAt(0, r, listing[i], listing[i])
    <3> SUFFICES ASSUME NEW o, IsThread(o) PROVE ThreadAt(0, r, o, o)
      BY <2>1
    <3>1. /\ \A j \in 1 .. Len(o.replies) : IsObject(o.replies[j], {"id", "messageType"})
          /\ IsSequence(o.replies) /\ IsObject(o, {"id", "messageType", "replyToId", "replies"})
      BY SequenceOf DEF IsThread, IsSequence
    <3>2. IsObject(o, {"id", "messageType"}) /\ IsObject(o, {"replyToId", "replies"})
      BY <3>1 DEF IsObject
    <3> QED BY <3>1, <3>2 DEF ThreadAt, ReplyAt, TypeAt, Count
  <2>3. ListingAt(0, r, response.body, listing)
    <3>1. Items(0, listing) = response.body.value
      BY DEF Items
    <3> QED BY <2>1, <2>2, <3>1 DEF ListingAt
  <2> QED BY <1>1, <2>1, <2>3
<1>3. ASSUME NEW n \in 1 .. 7, Fine(n - 1) PROVE Fine(n)
  <2> DEFINE t == f[n - 1]
  <2>1. f[n] = [t EXCEPT !.body = WalkJSON(TeamsShapers[n], r, @)]
    <3>1. TeamsShapers[n].is # "StripHeader"
      BY DEF TeamsShapers, Named
    <3>2. f[n] = Shape(TeamsShapers[n], r, t)
      BY <1>1
    <3> HIDE DEF t
    <3> QED BY <1>3, <3>1, <3>2 DEF Shape, t
  <2>2. f[n].body = WalkJSON(TeamsShapers[n], r, t.body) /\ "body" \in DOMAIN f[n]
    BY <1>3, <2>1
  <2>3. f[n].json
    BY <1>3, <2>1
  <2>4. ListingAt(n, r, WalkJSON(TeamsShapers[n], r, t.body), listing)
    <3>1. ListingAt(n - 1, r, t.body, listing)
      BY <1>3
    <3> HIDE DEF t, listing
    <3> QED BY <1>2, <3>1, ListingStep
  <2> QED BY <2>2, <2>3, <2>4
<1> HIDE DEF Fine
<1>4. Fine(7)
  <2>1. Fine(1)
    BY <1>2, <1>3
  <2>2. Fine(2)
    BY <2>1, <1>3
  <2>3. Fine(3)
    BY <2>2, <1>3
  <2>4. Fine(4)
    BY <2>3, <1>3
  <2>5. Fine(5)
    BY <2>4, <1>3
  <2>6. Fine(6)
    BY <2>5, <1>3
  <2> QED BY <2>6, <1>3
<1> QED BY <1>1, <1>4 DEF Fine

\* What is left of a thread is the thread, or its beginning and a link to the rest.
LEMMA ThreadsAreComplete ==
  ASSUME NEW r, NEW sent, NEW o, IsThread(o), ThreadAt(7, r, sent, o)
  PROVE  ThreadIsComplete(r.path, o, sent)
<1>1. /\ IsSequence(o.replies) /\ Len(o.replies) \in Nat /\ DOMAIN o.replies = 1 .. Len(o.replies)
      /\ TeamsExpandedReplyCap \in Nat \ {0}
  BY ShaperCaps, SequenceOf DEF IsThread, IsSequence
<1>2. Count(7, o) \in Nat /\ Count(7, o) <= Len(o.replies)
  BY <1>1 DEF Count, Cut
<1> DEFINE count == Count(7, o)
<1>3. /\ IsSequence(sent.replies) /\ Len(sent.replies) = count
      /\ \A j \in 1 .. count : sent.replies[j].id = o.replies[j].id
  BY DEF ThreadAt, ReplyAt
<1> HIDE DEF count
<1>4. DOMAIN sent.replies = 1 .. count
  BY <1>2, <1>3, SequenceOf DEF IsSequence, count
<1> DEFINE ids == [j \in 1 .. count |-> sent.replies[j].id]
           all == [j \in 1 .. Len(o.replies) |-> o.replies[j].id]
<1>5. IdsOf(sent.replies) = ids /\ IdsOf(o.replies) = all
  BY <1>1, <1>4 DEF IdsOf
<1>6. \A j \in 1 .. count : j \in 1 .. Len(o.replies) /\ ids[j] = all[j]
  BY <1>1, <1>2, <1>3 DEF count
<1>7. IsSequence(ids) /\ Len(ids) = count /\ IsSequence(all) /\ Len(all) = Len(o.replies)
  <2>1. ids = [j \in 1 .. count |-> ids[j]] /\ all = [j \in 1 .. Len(o.replies) |-> all[j]]
    OBVIOUS
  <2> HIDE DEF ids, all
  <2> QED BY <1>1, <1>2, <2>1, SequenceOf DEF count
<1>8. CASE Len(o.replies) > TeamsExpandedReplyCap
  <2>1. count = TeamsExpandedReplyCap
    BY <1>8 DEF Count, Cut, count
  <2>2. /\ Has(sent, "replies@odata.nextLink")
        /\ sent["replies@odata.nextLink"] = r.path \o <<o.id, "replies">>
    BY <1>8 DEF ThreadAt, RepliesLinkKey
  <2>3. sent.replies # << >>
    BY <1>1, <1>3, <2>1, EmptySeq
  <2>4. SubSeq(ids, 1, count) = SubSeq(all, 1, count)
    <3> HIDE DEF ids, all
    <3> DEFINE left == SubSeq(ids, 1, count)
               right == SubSeq(all, 1, count)
    <3>1. /\ left = [i \in 1 .. count |-> left[i]] /\ right = [i \in 1 .. count |-> right[i]]
          /\ \A i \in 1 .. count : left[i] = ids[i] /\ right[i] = all[i]
      BY <1>2, <1>7, Beginning DEF IsSequence, count
    <3> HIDE DEF left, right
    <3> QED BY <1>6, <3>1 DEF left, right
  <2>5. IsPrefix(ids, all)
    <3> HIDE DEF ids, all
    <3> QED BY <1>2, <1>7, <2>4 DEF IsPrefix, count
  <2> HIDE DEF ids, all
  <2> QED BY <1>5, <2>2, <2>3, <2>5 DEF ThreadIsComplete
<1>9. CASE ~(Len(o.replies) > TeamsExpandedReplyCap)
  <2>1. count = Len(o.replies)
    BY <1>9 DEF Count, Cut, count
  <2>2. ids = all
    BY <1>6, <2>1
  <2> HIDE DEF ids, all
  <2> QED BY <1>5, <2>2 DEF ThreadIsComplete
<1> QED BY <1>8, <1>9

\* A client that follows the links misses nothing of a channel (teams_shapers.go:139),
\* whatever lists and messages the handlers answer with, and however long they are.
THEOREM EverythingIsInReach ==
  ASSUME ChannelListings
  PROVE  Spec => []NothingIsOutOfReach
<1>1. Judging /\ Serving => NothingIsOutOfReach
  <2> SUFFICES ASSUME Judging, Serving, NEW c \in Calls, pc[c] = "answered", given[c] # Fault,
                      scenario.shapers = TeamsShapers, given[c].json, Channel(received[c].path)
               PROVE  LET sent == answer[c].body.value
                          roots == Openers(given[c].body.value)
                      IN /\ IdsOf(sent) = IdsOf(roots)
                         /\ \A i \in DOMAIN roots :
                              /\ ThreadIsComplete(received[c].path, roots[i], sent[i])
                              /\ sent[i].messageType = TypeFor(c, roots[i].messageType)
                              /\ \A j \in DOMAIN sent[i].replies :
                                   sent[i].replies[j].messageType
                                     = TypeFor(c, roots[i].replies[j].messageType)
    BY DEF NothingIsOutOfReach
  <2> DEFINE r == live[c]
             listing == given[c].body.value
             roots == Openers(listing)
             sent == answer[c].body.value
  <2>1. /\ Served(c) /\ Judged(c) /\ given[c] \in scenario.responses
        /\ received[c] \in scenario.requests /\ SentAs(r, received[c])
        /\ answer[c] = Shaped(TeamsShapers, r, given[c])
    BY DEF Serving, Judging, Served
  <2>2. scenario \in Scenarios /\ IsListing(given[c])
    BY <2>1 DEF Judging, ChannelListings
  <2>3. r.path = received[c].path /\ r.path \in Seq(STRING)
    BY <2>1, <2>2, ScenarioAssumption DEF SentAs
  <2>4. OfChannel(r)
    <3>1. Len(r.path) \in DOMAIN r.path
      BY <2>3 DEF Channel, Inside
    <3> QED BY <2>3, <3>1 DEF Channel, OfChannel, ChannelMessages, HasSegment
  <2>5. ListingAt(7, r, answer[c].body, listing)
    <3> HIDE DEF r
    <3> QED BY <2>1, <2>2, <2>4, ListingIsShaped
  <2>6. \A type : TypeFor(c, type) = TypeSeen(r, type)
    <3>1. Arrived(r) /\ Arrived(received[c])
      BY <2>1, <2>2, ScenarioAssumption DEF Judged, Arrived
    <3>2. r.prefer.page \in Int /\ received[c].prefer.page \in Int
      BY <3>1 DEF Arrived, IsRequest
    <3>3. IncludeUnknownEnumMembers \in r.prefer.others <=>
            /\ IncludeUnknownEnumMembers \in received[c].prefer.others
            /\ r.prefer.page = received[c].prefer.page
      BY <2>1, <3>2 DEF SentAs
    <3> QED BY <3>3 DEF TypeFor, TypeSeen
  <2>7. /\ IsSequence(sent) /\ IsSequence(roots) /\ Len(sent) = Len(roots)
        /\ \A i \in 1 .. Len(sent) : ThreadAt(7, r, sent[i], roots[i]) /\ IsThread(roots[i])
    BY <2>5 DEF ListingAt, Items
  <2>8. DOMAIN sent = 1 .. Len(sent) /\ DOMAIN roots = 1 .. Len(sent)
    <3> HIDE DEF sent, roots
    <3> QED BY <2>7, SequenceOf DEF IsSequence
  <2>9. IdsOf(sent) = IdsOf(roots)
    <3>1. \A i \in 1 .. Len(sent) : sent[i].id = roots[i].id
      BY <2>7 DEF ThreadAt, ReplyAt
    <3> HIDE DEF sent, roots
    <3> QED BY <2>8, <3>1 DEF IdsOf
  <2> HIDE DEF sent, roots, listing
  <2>10. ASSUME NEW i \in DOMAIN roots
         PROVE  /\ ThreadIsComplete(received[c].path, roots[i], sent[i])
                /\ sent[i].messageType = TypeFor(c, roots[i].messageType)
                /\ \A j \in DOMAIN sent[i].replies :
                     sent[i].replies[j].messageType = TypeFor(c, roots[i].replies[j].messageType)
    <3>1. ThreadAt(7, r, sent[i], roots[i]) /\ IsThread(roots[i])
      BY <2>7, <2>8
    <3>2. ThreadIsComplete(received[c].path, roots[i], sent[i])
      BY <2>3, <3>1, ThreadsAreComplete
    <3>3. sent[i].messageType = TypeFor(c, roots[i].messageType)
      BY <2>6, <3>1 DEF ThreadAt, ReplyAt, TypeAt
    <3>4. DOMAIN sent[i].replies = 1 .. Count(7, roots[i])
      BY <3>1, SequenceOf DEF ThreadAt, IsSequence
    <3>5. \A j \in 1 .. Count(7, roots[i]) :
            sent[i].replies[j].messageType = TypeFor(c, roots[i].replies[j].messageType)
      BY <2>6, <3>1 DEF ThreadAt, ReplyAt, TypeAt
    <3> QED BY <3>2, <3>3, <3>4, <3>5
  <2> QED BY <2>9, <2>10 DEF sent, roots, listing
<1> QED BY <1>1, InitJudging, StepJudging, InitServing, StepServing, PTL DEF Spec
============================================================================
