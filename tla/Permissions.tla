---------------------------- MODULE Permissions ----------------------------
(***************************************************************************)
(* Which delegated permission a route needs and which ones stand in for    *)
(* it: SuggestDelegatedScopes and ScopeSatisfies (src/permissions.go).     *)
(*                                                                         *)
(* A path is the sequence of its segments, a permission its name; both are *)
(* compared by the code without regard to case, so here they have one.     *)
(* Where the code looks for "/segment" anywhere in the path, paths have    *)
(* that segment or none beginning with it.                                 *)
(***************************************************************************)
EXTENDS Naturals, Sequences

HasSegment(path, names) == \E i \in DOMAIN path : path[i] \in names

\* normalizeSuggestionPath: without the API version, unless it is all there is.
WithoutVersion(path) ==
  IF Len(path) > 1 /\ path[1] \in {"v1.0", "beta"} THEN Tail(path) ELSE path

ReadMethods == {"GET", "HEAD", "OPTIONS"}

\* A permission to read a resource and the one to change it.
Resource == [
  settings |-> [read |-> "MailboxSettings.Read", write |-> "MailboxSettings.ReadWrite"],
  todo     |-> [read |-> "Tasks.Read",           write |-> "Tasks.ReadWrite"],
  mail     |-> [read |-> "Mail.Read",            write |-> "Mail.ReadWrite"],
  calendar |-> [read |-> "Calendars.Read",       write |-> "Calendars.ReadWrite"],
  contacts |-> [read |-> "Contacts.Read",        write |-> "Contacts.ReadWrite"],
  files    |-> [read |-> "Files.Read",           write |-> "Files.ReadWrite"],
  chat     |-> [read |-> "Chat.ReadBasic",       write |-> "Chat.ReadWrite"],
  users    |-> [read |-> "User.ReadBasic.All",   write |-> "User.ReadWrite.All"],
  groups   |-> [read |-> "Group.Read.All",       write |-> "Group.ReadWrite.All"]]

Reactions == {"setreaction", "unsetreaction", "softdelete", "undosoftdelete"}

ChatScope(read, path) ==
  IF HasSegment(path, {"messages"})
  THEN IF read THEN "Chat.Read"
       ELSE IF HasSegment(path, Reactions) THEN "Chat.ReadWrite" ELSE "ChatMessage.Send"
  ELSE IF read THEN Resource.chat.read ELSE Resource.chat.write

TeamScope(read, path) ==
  IF HasSegment(path, {"messages", "replies"})
  THEN IF read THEN "ChannelMessage.Read.All" ELSE "ChannelMessage.Send"
  ELSE IF HasSegment(path, {"channels"}) THEN "Channel.ReadBasic.All" ELSE "Team.ReadBasic.All"

SearchPath(path) == \E i \in 1 .. Len(path) - 1 : path[i] = "search" /\ path[i + 1] = "query"

\* What the route table says of a path, whatever comes before it: the segments
\* that select a plain resource, in the order of the switch.
PlainRoutes == <<
  [segments |-> {"messages", "mailfolders"},            of |-> Resource.mail],
  [segments |-> {"events", "calendar", "calendars"},    of |-> Resource.calendar],
  [segments |-> {"contacts", "contactfolders"},         of |-> Resource.contacts],
  [segments |-> {"drive", "drives", "driveitems"},      of |-> Resource.files],
  [segments |-> {"users"},                              of |-> Resource.users],
  [segments |-> {"groups"},                             of |-> Resource.groups]>>

PlainScopes(read, path) ==
  LET matching == {i \in DOMAIN PlainRoutes : HasSegment(path, PlainRoutes[i].segments)}
      route == PlainRoutes[CHOOSE i \in matching : \A j \in matching : i <= j]
  IN IF matching # {} THEN {IF read THEN route.of.read ELSE route.of.write}
     ELSE IF HasSegment(path, {"directoryroles", "directoryroletemplates", "organization"})
          THEN {"Directory.Read.All"} ELSE {}

TeamsScopes(read, path) ==
  IF SearchPath(path) THEN {"Chat.Read"}
  ELSE IF HasSegment(path, {"presence", "presences"})
       THEN {IF Len(path) > 1 /\ path[1] = "me" THEN "Presence.Read" ELSE "Presence.Read.All"}
  ELSE IF HasSegment(path, {"chats"}) THEN {ChatScope(read, path)}
  ELSE IF HasSegment(path, {"teams", "joinedteams", "channels"}) THEN {TeamScope(read, path)}
  ELSE {}

\* The mailbox's own special cases.
SpecialScopes(read, path) ==
  LET either(resource) == {IF read THEN resource.read ELSE resource.write}
  IN IF path = <<"me">> \/ HasSegment(path, {"translateexchangeids"}) THEN {"User.Read"}
     ELSE IF HasSegment(path, {"mailboxsettings"}) THEN either(Resource.settings)
     ELSE IF Len(path) > 1 /\ path[1] = "me" /\ path[2] = "todo" THEN either(Resource.todo)
     ELSE IF HasSegment(path, {"inferenceclassification"}) THEN either(Resource.mail)
     ELSE IF HasSegment(path, {"sendmail"}) THEN {"Mail.Send"}
     ELSE {}

\* Mutant: the mail case comes before the Teams cases, as it once did.
SuggestedScopesMailFirst(method, rawPath) ==
  LET path == WithoutVersion(rawPath)
      read == method \in ReadMethods
      special == SpecialScopes(read, path)
      plain == PlainScopes(read, path)
  IN IF special # {} THEN special ELSE IF plain # {} THEN plain ELSE TeamsScopes(read, path)

\* SuggestDelegatedScopes; an unknown route suggests nothing.
SuggestedScopes(method, rawPath) ==
  LET path == WithoutVersion(rawPath)
      read == method \in ReadMethods
      special == SpecialScopes(read, path)
      teams == TeamsScopes(read, path)
  IN IF special # {} THEN special ELSE IF teams # {} THEN teams ELSE PlainScopes(read, path)

-----------------------------------------------------------------------------
\* impliesScope: the permissions that stand in for one besides itself.
StandIns == {
  <<"User.Read",               {"User.ReadBasic.All", "User.ReadWrite.All"}>>,
  <<"User.ReadBasic.All",      {"User.ReadWrite.All"}>>,
  <<"Mail.Read",               {"Mail.ReadWrite"}>>,
  <<"Mail.Send",               {"Mail.ReadWrite"}>>,
  <<"MailboxSettings.Read",    {"MailboxSettings.ReadWrite"}>>,
  <<"Calendars.Read",          {"Calendars.ReadWrite"}>>,
  <<"Tasks.Read",              {"Tasks.ReadWrite"}>>,
  <<"Contacts.Read",           {"Contacts.ReadWrite"}>>,
  <<"Files.Read",              {"Files.ReadWrite"}>>,
  <<"Chat.ReadBasic",          {"Chat.Read", "Chat.ReadWrite"}>>,
  <<"Chat.Read",               {"Chat.ReadWrite"}>>,
  <<"ChatMessage.Send",        {"Chat.ReadWrite"}>>,
  <<"Team.ReadBasic.All",      {"Directory.Read.All"}>>,
  <<"Channel.ReadBasic.All",   {"Group.Read.All", "Group.ReadWrite.All", "Directory.Read.All"}>>,
  <<"ChannelMessage.Read.All", {"Group.Read.All", "Group.ReadWrite.All"}>>,
  <<"ChannelMessage.Send",     {"Group.ReadWrite.All"}>>,
  <<"Presence.Read",           {"Presence.Read.All"}>>}

Accepted(scope) == {scope} \cup UNION {entry[2] : entry \in {e \in StandIns : e[1] = scope}}

\* ScopeSatisfies.
ScopeSatisfies(granted, required) == Accepted(required) \cap granted # {}
=============================================================================
