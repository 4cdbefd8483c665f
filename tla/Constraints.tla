---------------------------- MODULE Constraints ----------------------------
(***************************************************************************)
(* The constraints of graphmock (src/graphmock/constraints.go,             *)
(* teams_constraints.go): what each refuses of a request, and what the     *)
(* ones that do not refuse rewrite in it.                                  *)
(*                                                                         *)
(* A request is                                                            *)
(*   method, path   as in Permissions                                      *)
(*   auth           is there a bearer token?                               *)
(*   match          its If-Match, "" without one                           *)
(*   prefer         the page size it asks for, 0 for none, and the other   *)
(*                  directives of its Prefer headers                       *)
(*   query          the parsed options (filter, orderby, top, select,      *)
(*                  expand, start, end)                                    *)
(*   raw            the same options in Query.Raw, a map parsed once       *)
(*   body           "none", or a rule, an event or a search.               *)
(* A filter is a text (FilterFields), as it came off the wire.             *)
(***************************************************************************)
EXTENDS Permissions, FilterFields, SequencesExt

NoFilter == << >>
Options == [filter |-> NoFilter, orderby |-> << >>, top |-> 0, select |-> FALSE, expand |-> "",
            start |-> 0, end |-> 0]
IsRequest(r) ==
  /\ DOMAIN r = {"method", "path", "auth", "match", "prefer", "query", "raw", "body"}
  /\ DOMAIN r.prefer = {"page", "others"} /\ r.prefer.page \in Int
  /\ DOMAIN r.query = DOMAIN Options /\ r.query.top \in Int
Filtered(options) == options.filter # NoFilter
Inside(path, segment) == \E i \in 1 .. Len(path) - 1 : path[i] = segment

\* filterFields: the scan of a whole text, and the flush at its end.
FieldsIn(text) == Flush(FoldLeft(ScanToken, ScanStart, text)).fields

ChannelMessages(path) == Inside(path, "channels") /\ HasSegment(path, {"messages"})
ChatMessages(path) == Inside(path, "chats") /\ HasSegment(path, {"messages"})
MessagePath(path) == ChatMessages(path) \/ ChannelMessages(path)
CalendarView(path) == HasSegment(path, {"calendarview"})

-----------------------------------------------------------------------------
\* Exchange mail: the name of a function or of a recipient lambda counts wherever
\* it stands in the text, in a literal too.
RejectUnsupportedFilterFunctions(r) ==
  \E i \in 1 .. Len(r.query.filter) - 1 :
    Last(r.query.filter[i]) = "endswith" /\ r.query.filter[i + 1] = Open

Recipients == {"toRecipients", "ccRecipients", "bccRecipients"}

RejectRecipientLambdas(r) ==
  \E i \in 1 .. Len(r.query.filter) - 1 :
    /\ IsLambda(r.query.filter[i]) /\ r.query.filter[i + 1] = Open
    /\ Last(Collection(r.query.filter[i])) \in Recipients

ExchangeMailSortableFields ==
  {<<field>> : field \in {"isRead", "isDraft", "receivedDateTime", "sentDateTime", "categories"}}

RequireSortableFilter(r) ==
  /\ Filtered(r.query) /\ r.query.orderby # << >>
  /\ ~ FieldsIn(r.query.filter) \subseteq ExchangeMailSortableFields

\* Calendar views: both ends of the window, in order, and no filter on them, in
\* literals neither.
RequireCalendarWindow(r) ==
  /\ CalendarView(r.path)
  /\ r.raw.start = 0 \/ r.raw.end = 0 \/ r.raw.start > r.raw.end

RejectFilterOnCalendarView(r) ==
  /\ CalendarView(r.path)
  /\ \E i \in DOMAIN r.query.filter :
       \E j \in 1 .. Len(r.query.filter[i]) - 1 : r.query.filter[i][j] \in {"start", "end"}

\* Rules: any JSON body without a positive sequence will do.
RequireRuleSequence(r) ==
  /\ r.method = "POST" /\ HasSegment(r.path, {"messagerules"})
  /\ r.body.is # "none" /\ ~(r.body.is = "rule" /\ r.body.sequence > 0)

RequireAllDayAtMidnight(r) ==
  /\ r.method \in {"POST", "PATCH"} /\ HasSegment(r.path, {"events"})
  /\ r.body.is = "event" /\ r.body.allDay /\ ~r.body.midnight

\* Teams: what a channel's messages and replies may be asked for; only
\* descending timestamps; no projection, but for the replies of a channel.
RejectUnsupportedChannelMessageOptions(r) ==
  /\ Inside(r.path, "teams") /\ ChannelMessages(r.path)
  /\ \/ Filtered(r.raw) \/ r.raw.orderby # << >> \/ r.raw.select
     \/ r.raw.expand # "" /\ HasSegment(r.path, {"replies"})

RejectAscendingMessageSort(r) ==
  MessagePath(r.path) /\ \E i \in DOMAIN r.query.orderby : ~r.query.orderby[i].desc

RejectUnsupportedMessageSortProperty(r) ==
  /\ MessagePath(r.path)
  /\ \E i \in DOMAIN r.query.orderby :
       r.query.orderby[i].by \notin {<<"createdDateTime">>, <<"lastModifiedDateTime">>}

RejectSelectOnMessages(r) ==
  /\ MessagePath(r.path)
  /\ r.query.select \/ r.raw.expand \notin {""} \cup
       (IF ChannelMessages(r.path) THEN {"replies"} ELSE {})

RejectSearchSort(r) ==
  /\ SearchPath(r.path) /\ r.body.is = "search"
  /\ \E i \in DOMAIN r.body.requests :
       r.body.requests[i].sorted /\ "chatMessage" \in r.body.requests[i].types

RequireSearchEntityTypes(r) ==
  /\ SearchPath(r.path) /\ r.body.is = "search" /\ r.body.requests # << >>
  /\ \A i \in DOMAIN r.body.requests : "chatMessage" \notin r.body.requests[i].types

-----------------------------------------------------------------------------
\* A $filter that names another property than the first $orderby is dropped, from
\* the query and from the map it was parsed from.
FilterIsServed(query) ==
  query.orderby # << >> /\ FieldsIn(query.filter) = {query.orderby[1].by}

\* Mutant: it stays in the map.
IgnoreMismatchedMessageFilterInQuery(r) ==
  IF MessagePath(r.path) /\ Filtered(r.query) /\ ~FilterIsServed(r.query)
  THEN [r EXCEPT !.query.filter = NoFilter] ELSE r

IgnoreMismatchedMessageFilter(r) ==
  IF MessagePath(r.path) /\ Filtered(r.query) /\ ~FilterIsServed(r.query)
  THEN [r EXCEPT !.query.filter = NoFilter, !.raw.filter = NoFilter] ELSE r

\* CapTop: fewer items than asked for, without a word.
CapTop(r, inPath, maxTop) ==
  IF inPath /\ r.query.top > maxTop
  THEN [r EXCEPT !.query.top = maxTop, !.raw.top = maxTop] ELSE r

\* CapPageSize: Header.Set writes the page size over every Prefer directive.
CapPageSize(r, maxSize) ==
  IF r.prefer.page > maxSize THEN [r EXCEPT !.prefer = [page |-> maxSize, others |-> {}]] ELSE r

-----------------------------------------------------------------------------
\* RequireScopes: any of the suggested permissions, or one that stands in for it,
\* is enough, and a route without a suggestion is open.
RequireScopes(r, granted) ==
  LET suggested == SuggestedScopes(r.method, r.path)
  IN suggested # {} /\ \A scope \in suggested : ~ScopeSatisfies(granted, scope)

\* Does a constraint refuse a request?
Refuses(c, r) ==
  \/ c.is = "RejectUnsupportedFilterFunctions" /\ RejectUnsupportedFilterFunctions(r)
  \/ c.is = "RejectRecipientLambdas" /\ RejectRecipientLambdas(r)
  \/ c.is = "RequireSortableFilter" /\ RequireSortableFilter(r)
  \/ c.is = "RequireCalendarWindow" /\ RequireCalendarWindow(r)
  \/ c.is = "RejectFilterOnCalendarView" /\ RejectFilterOnCalendarView(r)
  \/ c.is = "RequireRuleSequence" /\ RequireRuleSequence(r)
  \/ c.is = "RequireAllDayAtMidnight" /\ RequireAllDayAtMidnight(r)
  \/ c.is = "RejectUnsupportedChannelMessageOptions" /\ RejectUnsupportedChannelMessageOptions(r)
  \/ c.is = "RejectAscendingMessageSort" /\ RejectAscendingMessageSort(r)
  \/ c.is = "RejectUnsupportedMessageSortProperty" /\ RejectUnsupportedMessageSortProperty(r)
  \/ c.is = "RejectSelectOnMessages" /\ RejectSelectOnMessages(r)
  \/ c.is = "RejectSearchSort" /\ RejectSearchSort(r)
  \/ c.is = "RequireSearchEntityTypes" /\ RequireSearchEntityTypes(r)
  \/ c.is = "RequireAuthorization" /\ ~r.auth
  \/ c.is = "RejectStaleETag" /\ r.match \notin {"", "*", c.current}
  \/ c.is = "RequireScopes" /\ RequireScopes(r, c.granted)

\* What it leaves of one that it lets through.
Rewritten(c, r) ==
  CASE c.is = "IgnoreMismatchedMessageFilter" -> IgnoreMismatchedMessageFilter(r)
    [] c.is = "CapTop" -> CapTop(r, IF c.segment = "query" THEN SearchPath(r.path)
                                    ELSE HasSegment(r.path, {c.segment}), c.max)
    [] c.is = "CapPageSize" -> CapPageSize(r, c.max)
    [] OTHER -> r

Named(name) == [is |-> name]

ExchangeMail == <<Named("RejectUnsupportedFilterFunctions"), Named("RejectRecipientLambdas"),
                  Named("RequireSortableFilter")>>

ExchangeCalendar == <<Named("RequireCalendarWindow"), Named("RejectFilterOnCalendarView")>>

ExchangeOutlook == <<Named("RequireRuleSequence"), Named("RequireAllDayAtMidnight")>>

Teams == <<
  Named("RejectUnsupportedChannelMessageOptions"), Named("IgnoreMismatchedMessageFilter"),
  Named("RejectAscendingMessageSort"), Named("RejectUnsupportedMessageSortProperty"),
  Named("RejectSelectOnMessages"),
  [is |-> "CapTop", segment |-> "chats", max |-> 50],
  [is |-> "CapTop", segment |-> "messages", max |-> 50],
  [is |-> "CapTop", segment |-> "query", max |-> 25],
  Named("RejectSearchSort"), Named("RequireSearchEntityTypes")>>
=============================================================================
