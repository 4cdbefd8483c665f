----------------------------- MODULE MockServer -----------------------------
(***************************************************************************)
(* graphmock.Server (src/graphmock/graphmock.go): a fake service whose     *)
(* handlers run on goroutines of their own, while the test that started it *)
(* sends calls, reads what was recorded and resets it.                     *)
(*                                                                         *)
(* Recorded keeps the parsed query of a request by value, but its Header   *)
(* and Query.Raw are the maps the handler goes on using, and constraints   *)
(* write to them after the mutex is released.  They are read from live     *)
(* here, by the call they belong to.                                       *)
(***************************************************************************)
EXTENDS Shapers

CONSTANTS
  Calls,      \* the requests a test makes, each of them once
  Scenarios,  \* a server's constraints and shapers, the requests it is sent and the
              \* responses of its handlers
  Handled,    \* the method and path pairs that Handle was called for
  NoRequest,  \* stands for the request of a call that was not sent
  NoResponse  \* and for the response of one that was not handled

\* A request comes with the options that parseQuery found in its Raw
\* (graphmock.go:160), and a cap is a number (constraints.go:112,
\* teams_constraints.go:203).
ASSUME ScenarioAssumption ==
  \A s \in Scenarios :
    /\ Len(s.constraints) \in Nat /\ DOMAIN s.constraints = 1 .. Len(s.constraints)
    /\ \A i \in DOMAIN s.constraints :
         s.constraints[i].is \in {"CapTop", "CapPageSize"} => s.constraints[i].max \in Int
    /\ \A r \in s.requests : IsRequest(r) /\ r.query = r.raw /\ r.path \in Seq(STRING)

VARIABLES
  scenario,   \* the server and what happens to it
  pc,         \* where the handler of each call is
  live,       \* the request it is handling
  received,   \* the request as it came (a history variable)
  at,         \* the constraint that is next
  given,      \* the response to it, as the handler gave it (history)
  answer,     \* and as it is sent
  seen,       \* the requests recorded
  failed,     \* was the test failed by a handler?
  earlier,    \* the calls that were answered when this one was sent (history)
  past,       \* the calls answered before the last Reset (history)
  recent      \* the calls sent since (history)

vars == <<scenario, pc, live, received, at, given, answer, seen, failed, earlier, past, recent>>

Answered == {c \in Calls : pc[c] \in {"answered", "not found"}}
Routed(r) == <<r.method, r.path>> \in Handled
Ids == {seen[i].id : i \in DOMAIN seen}

Init ==
  /\ scenario \in Scenarios
  /\ pc = [c \in Calls |-> "unsent"]
  /\ live = [c \in Calls |-> NoRequest]
  /\ received = [c \in Calls |-> NoRequest]
  /\ at = [c \in Calls |-> 1]
  /\ given = [c \in Calls |-> NoResponse]
  /\ answer = [c \in Calls |-> NoResponse]
  /\ seen = << >>
  /\ failed = FALSE
  /\ earlier = [c \in Calls |-> {}]
  /\ past = {}
  /\ recent = {}

Goto(c, label) == pc' = [pc EXCEPT ![c] = label]

\* The test, or a client under test, sends a request.
Send(c) ==
  /\ pc[c] = "unsent"
  /\ Goto(c, "arrived")
  /\ \E r \in scenario.requests :
       live' = [live EXCEPT ![c] = r] /\ received' = [received EXCEPT ![c] = r]
  /\ earlier' = [earlier EXCEPT ![c] = Answered]
  /\ recent' = recent \cup {c}
  /\ UNCHANGED <<scenario, at, given, answer, seen, failed, past>>

\* The mux answers what nothing was registered for.
NotFound(c) ==
  /\ pc[c] = "arrived" /\ ~Routed(live[c])
  /\ Goto(c, "not found")
  /\ UNCHANGED <<scenario, live, received, at, given, answer, seen, failed, earlier, past, recent>>

\* The body breaks off: Fatalf ends the goroutine, and the request with it.
BodyBreaks(c) ==
  /\ pc[c] = "arrived" /\ Routed(live[c])
  /\ Goto(c, "aborted")
  /\ failed' = TRUE
  /\ UNCHANGED <<scenario, live, received, at, given, answer, seen, earlier, past, recent>>

\* Mutant: only what will be handled is recorded.
RecordedIfAccepted(c) ==
  IF \E i \in DOMAIN scenario.constraints : Refuses(scenario.constraints[i], live[c])
  THEN seen ELSE Append(seen, [id |-> c, query |-> live[c].query])

Recorded(c) == Append(seen, [id |-> c, query |-> live[c].query])

\* The request is recorded under the mutex before anything judges it.
Record(c) ==
  /\ pc[c] = "arrived" /\ Routed(live[c])
  /\ Goto(c, "enforce")
  /\ seen' = Recorded(c)
  /\ UNCHANGED <<scenario, live, received, at, given, answer, failed, earlier, past, recent>>

Exhausted(c) == at[c] > Len(scenario.constraints)

\* The envelope of an error.
Fault == [headers |-> {}, json |-> TRUE, body |-> [error |-> "refused"]]

\* The next constraint: the first one that refuses the request answers it.
Enforce(c) ==
  /\ pc[c] = "enforce" /\ ~Exhausted(c)
  /\ LET constraint == scenario.constraints[at[c]]
     IN IF Refuses(constraint, live[c])
        THEN /\ Goto(c, "respond")
             /\ given' = [given EXCEPT ![c] = Fault]
             /\ UNCHANGED <<live, at>>
        ELSE /\ live' = [live EXCEPT ![c] = Rewritten(constraint, @)]
             /\ at' = [at EXCEPT ![c] = @ + 1]
             /\ UNCHANGED <<pc, given>>
  /\ UNCHANGED <<scenario, received, answer, seen, failed, earlier, past, recent>>

\* Nothing has refused it: the test's handler responds.
Handle(c) ==
  /\ pc[c] = "enforce" /\ Exhausted(c)
  /\ Goto(c, "respond")
  /\ \E response \in scenario.responses : given' = [given EXCEPT ![c] = response]
  /\ UNCHANGED <<scenario, live, received, at, answer, seen, failed, earlier, past, recent>>

\* The shaped response is written and reaches the caller.
Respond(c) ==
  /\ pc[c] = "respond"
  /\ Goto(c, "answered")
  /\ answer' = [answer EXCEPT ![c] = Shaped(scenario.shapers, live[c], given[c])]
  /\ UNCHANGED <<scenario, live, received, at, given, seen, failed, earlier, past, recent>>

\* Reset: what was recorded is dropped, whatever is still being handled.
Reset ==
  /\ seen' = << >>
  /\ past' = Answered
  /\ recent' = {}
  /\ UNCHANGED <<scenario, pc, live, received, at, given, answer, failed, earlier>>

Next ==
  \/ \E c \in Calls : Send(c) \/ NotFound(c) \/ BodyBreaks(c) \/ Record(c) \/ Enforce(c)
                      \/ Handle(c) \/ Respond(c)
  \/ Reset

Spec == Init /\ [][Next]_vars

\* Requests, with the maps as they are when it is called.
Requests == [i \in DOMAIN seen |->
  [query |-> seen[i].query, raw |-> live[seen[i].id].raw, prefer |-> live[seen[i].id].prefer]]

-----------------------------------------------------------------------------
\* "Requests returns every request received so far, oldest first", "Reset
\* discards recorded requests, for a test that runs several commands"
\* (graphmock.go:103, 110): a routed call that was sent since the last Reset and has
\* its answer is recorded, refused or not; one answered before it is not; and a
\* call stands before every call sent after its answer. The options of a record
\* are as they arrived, whatever the constraints have made of them since.
RecordsAreExact ==
  /\ \A c \in recent : pc[c] = "answered" => c \in Ids
  /\ past \cap Ids = {}
  /\ \A i, j \in DOMAIN seen : i < j => seen[i].id # seen[j].id
                                        /\ seen[j].id \notin earlier[seen[i].id]
  /\ \A i \in DOMAIN seen : seen[i].query = received[seen[i].id].query

\* The calls that a handler is about to get, or has got.
Reached == {c \in Calls : (pc[c] = "enforce" /\ Exhausted(c)) \/ given[c] \notin {NoResponse, Fault}}

\* However constraints rewrite a request for one another, the handler gets one
\* that no constraint refuses and none has anything left to rewrite in: the order
\* of a bundle leaves no gap ("a request the service would reject is rejected
\* here too", graphmock.go:13). What it reads in Query and in Query.Raw is the same.
HandledIsAdmissible ==
  \A c \in Reached :
    /\ \A i \in DOMAIN scenario.constraints :
         /\ ~Refuses(scenario.constraints[i], live[c])
         /\ Rewritten(scenario.constraints[i], live[c]) = live[c]
    /\ live[c].query = live[c].raw

\* The token of RequireScopes and the requests its server let through.
Admitted ==
  {[granted |-> scenario.constraints[i].granted, method |-> live[c].method, path |-> live[c].path] :
     i \in {j \in DOMAIN scenario.constraints : scenario.constraints[j].is = "RequireScopes"},
     c \in Reached}

MailPermissions == {"Mail.Read", "Mail.ReadWrite", "Mail.Send"}
SettingsPermissions == {"MailboxSettings.Read", "MailboxSettings.ReadWrite"}
ReadPermissions == {resource.read : resource \in {Resource[name] : name \in DOMAIN Resource}}

\* The order of the route table keeps the services apart: mail permissions open no
\* chat or channel ("naming a permission that cannot grant the request",
\* permissions.go:232), nor the mailbox settings, which open no mail; and what
\* reads does not write, but for /me, where the table has one permission for all.
\* And "a broader permission stands in for a narrower one" (permissions.go:343): a
\* token with the permission to change a resource may read it, unless it is a
\* group, for whose reading the table of stand-ins has no entry.
PermissionsFit ==
  \A admitted \in Admitted :
    LET granted == admitted.granted
        method == admitted.method
        path == admitted.path
    IN /\ HasSegment(path, {"chats", "teams"}) => ~ granted \subseteq MailPermissions
       /\ HasSegment(path, {"mailboxsettings"}) => ~ granted \subseteq MailPermissions
       /\ HasSegment(path, {"messages", "inferenceclassification"})
            => ~ granted \subseteq SettingsPermissions
       /\ method \notin ReadMethods /\ WithoutVersion(path) # <<"me">>
            => ~ granted \subseteq ReadPermissions
       /\ \A name \in DOMAIN Resource \ {"groups"} :
            Resource[name].write \in granted \cap SuggestedScopes(method, path)
              => \A scope \in SuggestedScopes("GET", path) : ScopeSatisfies(granted, scope)

\* The requests of which that can be said: the path is of one service, and the table
\* has a permission to change what a change is sent to (it has none for channels and
\* for the translation of identifiers, and suggests nothing for a route it does not
\* know, which leaves it open).
OfOneService(method, path) ==
  /\ HasSegment(path, {"chats", "teams"}) => ~HasSegment(path, {"inferenceclassification", "sendmail"})
  /\ HasSegment(path, {"messages", "inferenceclassification"}) => ~HasSegment(path, {"mailboxsettings"})
  /\ method \notin ReadMethods /\ WithoutVersion(path) # <<"me">> =>
       /\ SuggestedScopes(method, path) # {}
       /\ ~HasSegment(path, {"translateexchangeids"})
       /\ HasSegment(path, {"channels"}) => HasSegment(path, {"messages", "replies"})

PermittedRequests ==
  \A s \in Scenarios :
    (\E i \in DOMAIN s.constraints : s.constraints[i].is = "RequireScopes") =>
      \A r \in s.requests : Routed(r) => OfOneService(r.method, r.path)

-----------------------------------------------------------------------------
\* The collection of a channel's messages.
Channel(path) ==
  Inside(path, "channels") /\ path[Len(path)] = "messages" /\ ~HasSegment(path, {"replies"})
Openers(messages) ==
  FlattenSeq([i \in DOMAIN messages |->
                IF messages[i].replyToId = "null" THEN <<messages[i]>> ELSE << >>])
IdsOf(items) == [i \in DOMAIN items |-> items[i].id]

\* Every reply of a message that was sent can be had: it is in the answer, or the
\* link beside those that are leads to the replies of that message.
ThreadIsComplete(path, message, sent) ==
  \/ IdsOf(sent.replies) = IdsOf(message.replies)
  \/ /\ sent.replies # << >> /\ IsPrefix(IdsOf(sent.replies), IdsOf(message.replies))
     /\ Has(sent, "replies@odata.nextLink")
     /\ sent["replies@odata.nextLink"] = path \o <<message.id, "replies">>

\* The type of a message as the caller of a listing gets it.
TypeFor(c, type) ==
  IF \/ type \in {"message", "chatEvent", "typing"}
     \/ /\ IncludeUnknownEnumMembers \in received[c].prefer.others
        /\ live[c].prefer.page = received[c].prefer.page
  THEN type ELSE "unknownFutureValue"

\* "A client that follows only the outer link truncates each long thread" and
\* "unknownFutureValue, with no error" (teams_shapers.go:139, 43): what the shapers
\* take out of a channel listing, one after the other and in the messages inside
\* messages too, a careful client can still get. No root is lost, replies are there
\* or behind their own link, and types have their names for the client that asked,
\* unless CapPageSize dropped what it asked together with the page size.
NothingIsOutOfReach ==
  \A c \in Calls :
    pc[c] = "answered" /\ given[c] # Fault /\ scenario.shapers = TeamsShapers
      /\ given[c].json /\ Channel(received[c].path) =>
    LET sent == answer[c].body.value
        roots == Openers(given[c].body.value)
    IN /\ IdsOf(sent) = IdsOf(roots)
       /\ \A i \in DOMAIN roots :
            /\ ThreadIsComplete(received[c].path, roots[i], sent[i])
            /\ sent[i].messageType = TypeFor(c, roots[i].messageType)
            /\ \A j \in DOMAIN sent[i].replies :
                 sent[i].replies[j].messageType = TypeFor(c, roots[i].replies[j].messageType)

\* The answers of which that can be said: messages with their replies, of which none
\* is taken for a team.
IsSequence(s) == Len(s) \in Nat /\ s = [i \in 1 .. Len(s) |-> s[i]]
IsObject(m, keys) == keys \subseteq DOMAIN m /\ ~Has(m, "displayName")
IsThread(m) ==
  /\ IsObject(m, {"id", "messageType", "replyToId", "replies"})
  /\ IsSequence(m.replies)
  /\ \A j \in DOMAIN m.replies : IsObject(m.replies[j], {"id", "messageType"})
IsListing(response) ==
  /\ {"json", "body"} \subseteq DOMAIN response
  /\ IsObject(response.body, {"value"})
  /\ IsSequence(response.body.value)
  /\ \A i \in DOMAIN response.body.value : IsThread(response.body.value[i])

ChannelListings ==
  \A s \in Scenarios : \A r \in s.requests, response \in s.responses :
    s.shapers = TeamsShapers /\ Channel(r.path) /\ response.json => IsListing(response)

-----------------------------------------------------------------------------
\* "Recorded is one request the server received" (graphmock.go:94), whatever the
\* constraints have made of it since.
RecordedIsReceived ==
  \A i \in DOMAIN seen :
    LET r == received[seen[i].id]
    IN Requests[i] = [query |-> r.query, raw |-> r.raw, prefer |-> r.prefer]
=============================================================================
