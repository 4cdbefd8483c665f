------------------------------ MODULE Shapers -------------------------------
(***************************************************************************)
(* The shapers of graphmock (src/graphmock/shapers.go, teams_shapers.go):  *)
(* what they make of a response on its way out.                            *)
(*                                                                         *)
(* A response is its headers, whether its body is JSON, and that body.  A  *)
(* JSON object is a record of its keys: the lists it has under "value",    *)
(* "replies" and "members" are sequences of objects, every other value is  *)
(* a string, "null" for null.  A link is the path it leads to.             *)
(***************************************************************************)
EXTENDS Constraints

CONSTANTS
  TeamsExpandedMemberCap,  \* how many expanded members the service gives (25)
  TeamsExpandedReplyCap    \* how many expanded replies (200)

ASSUME ShaperCaps == {TeamsExpandedMemberCap, TeamsExpandedReplyCap} \subseteq Nat \ {0}

IncludeUnknownEnumMembers == "include-unknown-enum-members"

Has(object, key) == key \in DOMAIN object
With(object, key, value) ==
  [k \in DOMAIN object \cup {key} |-> IF k = key THEN value ELSE object[k]]
Without(object, key) == [k \in DOMAIN object \ {key} |-> object[k]]
Nulled(object, keys) == [k \in DOMAIN object |-> IF k \in keys THEN "null" ELSE object[k]]

-----------------------------------------------------------------------------
\* What each makes of one object of the answer to a request.
HideEnumsWithoutPrefer(r, object) ==
  IF /\ IncludeUnknownEnumMembers \notin r.prefer.others
     /\ Has(object, "messageType")
     /\ object.messageType \notin {"message", "chatEvent", "typing"}
  THEN [object EXCEPT !.messageType = "unknownFutureValue"] ELSE object

DropSenderOnSystemEvents(object) ==
  IF Has(object, "eventDetail") /\ object.eventDetail # "null"
  THEN With(object, "from", "null") ELSE object

DropTopicOnOneOnOneChats(object) ==
  IF Has(object, "chatType") /\ object.chatType = "oneOnOne"
  THEN With(object, "topic", "null") ELSE object

\* No link is left to the members that are cut off.
TruncateExpandedMembers(object, limit) ==
  IF Has(object, "members") /\ Len(object.members) > limit
  THEN Without([object EXCEPT !.members = SubSeq(@, 1, limit)], "members@odata.nextLink")
  ELSE object

\* Mutant: the link goes back to the collection.
CollectionLink(path, object) == path

\* repliesLink: relative to the path that was asked for, as if it were a collection.
RepliesLink(path, object) == path \o <<object.id, "replies">>

PageExpandedReplies(r, object, limit) ==
  IF Has(object, "replies") /\ Len(object.replies) > limit
  THEN With([object EXCEPT !.replies = SubSeq(@, 1, limit)],
            "replies@odata.nextLink", RepliesLink(r.path, object))
  ELSE object

IsReply(item) == Has(item, "replyToId") /\ item.replyToId # "null"
RootsOf(items) ==
  FlattenSeq([i \in DOMAIN items |-> IF IsReply(items[i]) THEN << >> ELSE <<items[i]>>])

RootChannelMessagesOnly(r, object) ==
  IF /\ ChannelMessages(r.path) /\ ~HasSegment(r.path, {"replies"})
     /\ Has(object, "value")
  THEN [object EXCEPT !.value = RootsOf(@)] ELSE object

JoinedTeamsPopulated ==
  {"id", "displayName", "description", "isArchived", "tenantId", "@odata.type"}

PopulateOnlyJoinedTeamsFields(r, object) ==
  IF HasSegment(r.path, {"joinedteams"}) /\ Has(object, "displayName")
  THEN Nulled(object, DOMAIN object \ JoinedTeamsPopulated) ELSE object

RewriteZones(object, zone) ==
  IF Has(object, "timeZone") THEN [object EXCEPT !.timeZone = zone] ELSE object

Visited(s, r, object) ==
  CASE s.is = "HideEnumsWithoutPrefer" -> HideEnumsWithoutPrefer(r, object)
    [] s.is = "DropSenderOnSystemEvents" -> DropSenderOnSystemEvents(object)
    [] s.is = "DropTopicOnOneOnOneChats" -> DropTopicOnOneOnOneChats(object)
    [] s.is = "TruncateExpandedMembers" -> TruncateExpandedMembers(object, s.limit)
    [] s.is = "PageExpandedReplies" -> PageExpandedReplies(r, object, s.limit)
    [] s.is = "RootChannelMessagesOnly" -> RootChannelMessagesOnly(r, object)
    [] s.is = "PopulateOnlyJoinedTeamsFields" -> PopulateOnlyJoinedTeamsFields(r, object)
    [] s.is = "NameZonesTheWindowsWay" -> RewriteZones(object, s.zone)

\* walkJSON: an object first, then the lists in what it has become. Bodies are a
\* collection of objects with lists of their own, no deeper.
Lists == {"value", "replies", "members"}
WalkItem(s, r, object) ==
  LET seen == Visited(s, r, object)
  IN [k \in DOMAIN seen |->
        IF k \in Lists THEN [i \in DOMAIN seen[k] |-> Visited(s, r, seen[k][i])] ELSE seen[k]]
WalkJSON(s, r, body) ==
  LET seen == Visited(s, r, body)
  IN [k \in DOMAIN seen |->
        IF k \in Lists THEN [i \in DOMAIN seen[k] |-> WalkItem(s, r, seen[k][i])] ELSE seen[k]]

\* rewriteBody leaves a body alone that is not JSON; StripHeader leaves the body alone.
Shape(s, r, response) ==
  IF s.is = "StripHeader" THEN [response EXCEPT !.headers = @ \ {s.name}]
  ELSE IF ~response.json THEN response
  ELSE [response EXCEPT !.body = WalkJSON(s, r, @)]

\* The shapers in their order.
Shaped(shapers, r, response) ==
  LET shaped[n \in 0 .. Len(shapers)] ==
        IF n = 0 THEN response ELSE Shape(shapers[n], r, shaped[n - 1])
  IN shaped[Len(shapers)]

TeamsShapers == <<
  Named("HideEnumsWithoutPrefer"), Named("DropSenderOnSystemEvents"),
  Named("DropTopicOnOneOnOneChats"),
  [is |-> "TruncateExpandedMembers", limit |-> TeamsExpandedMemberCap],
  [is |-> "PageExpandedReplies", limit |-> TeamsExpandedReplyCap],
  Named("RootChannelMessagesOnly"), Named("PopulateOnlyJoinedTeamsFields")>>
=============================================================================
