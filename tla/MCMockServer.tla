---------------------------- MODULE MCMockServer ----------------------------
(* Servers with the bundles of graphmock, and requests that meet every       *)
(* constraint of theirs and just miss it.                                    *)
EXTENDS MockServer, TLC

Symmetry == Permutations(Calls)

Asked(m, p) ==
  [method |-> m, path |-> p, auth |-> TRUE, match |-> "",
   prefer |-> [page |-> 0, others |-> {}], query |-> Options, raw |-> Options,
   body |-> [is |-> "none"]]
Get(p) == Asked("GET", p)
Querying(r, options) == [r EXCEPT !.query = options, !.raw = options]
Post(p, body) == [Asked("POST", p) EXCEPT !.body = body]

From == <<"from", "address">>
Me == <<"me", "messages">>
View == <<"me", "calendarview">>
Rules == <<"me", "mailfolders", "inbox", "messagerules">>
Events == <<"me", "events">>
Chats == <<"me", "chats">>
Joined == <<"me", "joinedteams">>
Chat == <<"chats", "c", "messages">>
Listed == <<"teams", "t", "channels", "c", "messages">>
Replies == <<"teams", "t", "channels", "c", "messages", "m", "replies">>
Search == <<"search", "query">>

\* Filters on the wire.
Equals(path) == <<path, Space, <<"eq">>, Space, <<"1">>>>
Both(left, right) == <<Open>> \o left \o <<Space, <<"and">>, Space>> \o right \o <<Close>>
Of(function, path) == << <<function>>, Open, path, Comma, Quote, <<"a">>, Quote, Close>>
AnyOf(collection, path) == << <<collection, "any">>, Open, <<"r">>, Colon>> \o Equals(path) \o <<Close>>
Says(path, words) == <<path, Space, <<"eq">>, Space, Quote>> \o words \o <<Quote>>
P(property) == <<property>>

By(property, descending) == [by |-> P(property), desc |-> descending]
Where(text) == [Options EXCEPT !.filter = text]
On(property) == Where(Equals(P(property)))
Sorted(options, property, descending) ==
  [options EXCEPT !.orderby = <<By(property, descending)>>]
Window(from, to) == [Options EXCEPT !.start = from, !.end = to]
Top(n) == [Options EXCEPT !.top = n]
Prefer(n, directives) == [Get(Me) EXCEPT !.prefer = [page |-> n, others |-> directives]]
Searching(types, inOrder) ==
  [is |-> "search", requests |-> <<[types |-> types, sorted |-> inOrder]>>]

MailRequests == {
  Get(Me),
  Querying(Get(Me), Where(Of("endswith", From))),
  Querying(Get(Me), Where(Says(P("subject"), <<P("endswith"), Open>>))),
  Querying(Get(Me), Where(AnyOf("toRecipients", <<"r", "address">>))),
  Querying(Get(Me), Sorted(On("isRead"), "receivedDateTime", TRUE)),
  Querying(Get(Me), Sorted(Where(Both(AnyOf("categories", P("r")), Equals(P("isRead")))),
                       "receivedDateTime", TRUE)),
  Querying(Get(Me), Sorted(Where(Both(Equals(P("isRead")), Of("contains", P("subject")))),
                       "receivedDateTime", TRUE)),
  Querying(Get(Me), On("hasAttachments")),
  Prefer(512, {}), Prefer(1000, {"IdType=ImmutableId"}),
  [Get(Me) EXCEPT !.auth = FALSE], [Get(Me) EXCEPT !.match = "*"],
  [Get(Me) EXCEPT !.match = "old"], Get(<<"unknown">>)}

OutlookRequests == {
  Querying(Get(View), Window(1, 2)), Querying(Get(View), Window(2, 1)), Querying(Get(View), Window(1, 0)),
  Querying(Get(View), [Window(1, 2) EXCEPT !.filter = Equals(<<"start", "dateTime">>)]),
  Post(Rules, [is |-> "rule", sequence |-> 1]), Post(Rules, [is |-> "rule", sequence |-> 0]),
  Post(Rules, [is |-> "none"]),
  Post(Events, [is |-> "event", allDay |-> TRUE, midnight |-> FALSE]),
  Post(Events, [is |-> "event", allDay |-> FALSE, midnight |-> FALSE])}

TeamsRequests == {
  Querying(Get(Chat), On("createdDateTime")),
  Querying(Get(Chat), Sorted(On("createdDateTime"), "createdDateTime", TRUE)),
  Querying(Get(Chat), Sorted(On("createdDateTime"), "lastModifiedDateTime", TRUE)),
  Querying(Get(Chat), Sorted(Options, "createdDateTime", FALSE)),
  Querying(Get(Chat), Sorted(Options, "subject", TRUE)),
  Querying(Get(Chat), Top(51)), Querying(Get(Chats), Top(200)), Querying(Get(Chats), Top(50)),
  Querying(Get(Chat), [Options EXCEPT !.select = TRUE]),
  Querying(Get(Listed), [Options EXCEPT !.expand = "replies"]),
  Querying(Get(Listed), On("createdDateTime")),
  Querying(Get(Replies), [Options EXCEPT !.expand = "replies"]),
  Querying(Get(Replies), Top(20)),
  Post(Search, Searching({"chatMessage"}, FALSE)), Post(Search, Searching({"chatMessage"}, TRUE)),
  Post(Search, Searching({"event"}, TRUE))}

ScopePaths == {
  Me, Chat, Chats, Listed, Events, <<"me">>, <<"me", "mailboxsettings">>,
  <<"users", "u", "mailboxsettings">>, <<"me", "inferenceclassification", "overrides">>,
  <<"me", "todo", "lists">>, <<"me", "sendmail">>, <<"users", "u", "contacts">>,
  <<"chats", "c", "messages", "m", "setreaction">>, <<"drives", "d">>, <<"users", "u">>, <<"groups", "g">>,
  <<"unknown">>}
ReadAndChange(p) == {Asked(m, p) : m \in {"GET", "PATCH"}}
Tokens == {
  MailPermissions, {"MailboxSettings.ReadWrite"},
  ReadPermissions, {"Chat.ReadWrite", "Group.ReadWrite.All"}}

\* Answers: a listing with a thread of one reply, one of two, and a reply among
\* the roots; one message; chats; teams; bytes.
Message(id, type, parent, replies) ==
  [id |-> id, messageType |-> type, replyToId |-> parent, from |-> "user", replies |-> replies,
   eventDetail |-> IF type = "systemEventMessage" THEN "detail" ELSE "null"]
Reply(id, type) == Message(id, type, "root", << >>)
Json(body) == [headers |-> {"ETag"}, json |-> TRUE, body |-> body]
Listing(items) == Json([value |-> items])

Empty == [headers |-> {"ETag"}, json |-> FALSE, body |-> [error |-> ""]]
Thread == Message("a", "message", "null", <<Reply("b", "systemEventMessage"), Reply("c", "message")>>)
Threads == Listing(<<
  Thread, Message("d", "systemEventMessage", "null", <<Reply("e", "systemEventMessage")>>),
  Reply("e", "message")>>)
ChatList == Listing(<<[id |-> "c", chatType |-> "oneOnOne", topic |-> "t",
                       members |-> <<[id |-> "x"], [id |-> "y"]>>]>>)
TeamList == Listing(<<[id |-> "t", displayName |-> "n", visibility |-> "private"]>>)

Server(constraints, requests) ==
  [constraints |-> constraints, shapers |-> << >>, requests |-> requests, responses |-> {Empty}]
Answering(requests, shapers, responses) ==
  [constraints |-> <<[is |-> "CapPageSize", max |-> 512]>>, shapers |-> shapers,
   requests |-> requests, responses |-> responses]
Scoped(granted) == <<[is |-> "RequireScopes", granted |-> granted]>>

ListRequests ==
  {[Get(Listed) EXCEPT !.prefer = [page |-> n, others |-> directives]] :
     n \in {0, 1000}, directives \in {{}, {IncludeUnknownEnumMembers}}}

MCScenarios ==
  {Server(ExchangeMail \o <<Named("RequireAuthorization"), [is |-> "CapPageSize", max |-> 512],
                            [is |-> "RejectStaleETag", current |-> "new"]>>, MailRequests),
   Server(ExchangeCalendar \o ExchangeOutlook, OutlookRequests),
   Server(Teams, TeamsRequests),
   Answering(ListRequests, TeamsShapers, {Threads, Empty}),
   Answering({Get(Chats), Get(Joined)}, TeamsShapers, {ChatList, TeamList}),
   Answering({Get(View), Get(Chats)},
             <<[is |-> "NameZonesTheWindowsWay", zone |-> "Tokyo"], [is |-> "StripHeader", name |-> "ETag"]>>,
             {Json([timeZone |-> "UTC"]), Empty})}
  \cup {Server(Scoped(granted), ReadAndChange(p)) : granted \in Tokens, p \in ScopePaths}

AllRoutes ==
  {<<m, p>> : m \in {"GET", "POST", "PATCH"},
              p \in (ScopePaths \ {<<"unknown">>}) \cup {View, Rules, Replies, Search, Joined}}

\* The proofs about PermissionsFit and NothingIsOutOfReach suppose of every server
\* what this one is: asked for what the service has, and answering with it.
ASSUME MCScenariosAreOfTheService == PermittedRequests /\ ChannelListings
=============================================================================
