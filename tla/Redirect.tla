------------------------------ MODULE Redirect ------------------------------
(***************************************************************************)
(* One http.Client.Do of the Graph client: the request resolveURL allowed, *)
(* the redirects the service answers with, and the CheckRedirect wrapper   *)
(* of redirectClient (src/redirect.go:50) that decides on each of them.    *)
(*                                                                         *)
(* Requests are mutable objects.  The caller's own CheckRedirect callback  *)
(* gets pointers to the next request and to every earlier one, so it may   *)
(* rewrite URLs, Host headers, methods and contexts before it approves.    *)
(* via is that mutable history; sent is the log of what the transport      *)
(* really put on the wire, bearer token included.                          *)
(***************************************************************************)
EXTENDS Origin, Sequences

CONSTANTS
  Methods,        \* HTTP methods in play
  References,     \* what a caller may pass as Request.URL
  Locations,      \* what the service may put into a Location header
  CallbackURLs,   \* what a callback may write into a request
  CallbackHosts,  \* Host headers a callback may write
  OtherBinding,   \* the binding of another request, whose context a callback may transplant
  RedirectLimit,  \* defaultMaxRedirects, redirect.go:12
  HopBound        \* bound: the service stops redirecting after this many requests

HostHeader == [host : Spellings \cup {""}, port : Ports \cup {NoPort, EmptyPort}]

ASSUME LimitAssumption == RedirectLimit \in Nat \ {0}
ASSUME PeersAssumption ==
  /\ References \subseteq URL /\ Locations \subseteq URL /\ CallbackURLs \subseteq URL
  /\ CallbackHosts \subseteq HostHeader

NoHost == [host |-> "", port |-> NoPort]
HostOf(u) == [host |-> u.host, port |-> u.port]
OriginOf(u) == HostURL(u.scheme, HostOf(u))

\* Values of the private context key: this request's binding, another
\* request's, or none.
Contexts == {"own", "other", "none"}

VARIABLES
  pc,        \* "idle", "sending", "waiting", "checking" or "done"
  callback,  \* does the caller's http.Client have a CheckRedirect of its own?
  home,      \* this request's binding: origin and method (requestOrigin)
  next,      \* the request being built, checked or sent
  via,       \* the earlier requests, as their objects are now
  sent,      \* the requests as they went out
  result     \* how the exchange ended

vars == <<pc, callback, home, next, via, sent, result>>

NoRequest == [url |-> BaseURL, host |-> NoHost, method |-> "GET", ctx |-> "none"]

\* The binding behind a context value (originBinding); the caller guards "none".
Binding(ctx) == IF ctx = "own" THEN home ELSE OtherBinding

Init ==
  /\ pc = "idle"
  /\ callback \in BOOLEAN
  /\ home = [origin |-> OriginOf(BaseURL), method |-> "GET"]
  /\ next = NoRequest
  /\ via = << >>
  /\ sent = << >>
  /\ result = "none"

-----------------------------------------------------------------------------
\* newHTTPRequest: resolve, bind the origin and the method, attach the token.
NewHTTPRequest(ref, method) ==
  /\ pc = "idle"
  /\ LET r == ResolveURL(ref) IN
     \/ /\ ~r.ok
        /\ pc' = "done" /\ result' = r.why
        /\ UNCHANGED <<home, next>>
     \/ /\ r.ok
        /\ pc' = "sending"
        /\ home' = [origin |-> OriginOf(r.url), method |-> method]
        /\ next' = [url |-> r.url, host |-> HostOf(r.url), method |-> method, ctx |-> "own"]
        /\ UNCHANGED result
  /\ UNCHANGED <<callback, via, sent>>

\* net/http appends the request to its history and hands it to the transport.
Send ==
  /\ pc = "sending"
  /\ pc' = "waiting"
  /\ via' = Append(via, next)
  /\ sent' = Append(sent, next)
  /\ UNCHANGED <<callback, home, next, result>>

\* A final answer (a 3xx without Location is one), or the transport fails, or
\* the Location does not parse, which net/http reports as a failure too.
Answer ==
  /\ pc = "waiting"
  /\ pc' = "done"
  /\ result' \in {"response", "transport"}
  /\ UNCHANGED <<callback, home, next, via, sent>>

\* (*url.URL).Parse: a Location is relative to the URL it answers.
Against(loc, base) ==
  CASE loc.scheme # "" -> loc
    [] loc.scheme = "" /\ (loc.host # "" \/ loc.user) -> [loc EXCEPT !.scheme = base.scheme]
    [] OTHER -> [base EXCEPT !.fragment = loc.fragment, !.opaque = FALSE]

Relative(loc) == loc.scheme = ""

\* net/http's method for the next hop: 307 and 308 keep it, the others turn
\* all but GET and HEAD into GET.
NextMethod(method, preserve) ==
  IF preserve \/ method \in {"GET", "HEAD"} THEN method ELSE "GET"

\* A redirect: net/http builds the next request on the first request's context
\* and keeps a custom Host header for a relative Location.
Redirected(loc, preserve) ==
  /\ pc = "waiting"
  /\ Len(sent) < HopBound
  /\ pc' = "checking"
  /\ next' = [url    |-> Against(loc, next.url),
              host   |-> IF Relative(loc) /\ next.host # HostOf(next.url)
                         THEN next.host ELSE NoHost,
              method |-> NextMethod(next.method, preserve),
              ctx    |-> via[1].ctx]
  /\ UNCHANGED <<callback, home, via, sent, result>>

-----------------------------------------------------------------------------
\* redirect.go:36
UnchangedBinding(req, history, ctx) ==
  /\ ctx # "none"
  /\ req.ctx = ctx
  /\ \A i \in DOMAIN history : history[i].ctx = ctx

SafeRedirectMethod(method) == method \in {"GET", "HEAD", "OPTIONS"}

\* Mutants: the Host header is not looked at; the methods are not.
AnyHost(req, binding) == TRUE
AnyMethod(req, binding) == TRUE

HostStays(req, binding) ==
  req.host = NoHost \/ SameOrigin(HostURL(req.url.scheme, req.host), binding.origin)

MethodsSafe(req, binding) == SafeRedirectMethod(binding.method) /\ SafeRedirectMethod(req.method)

\* redirect.go:86: "ok", or why the destination is refused.
RedirectDestination(req, binding) ==
  IF ~SameOrigin(req.url, binding.origin) \/ ~HostStays(req, binding) THEN "untrusted redirect"
  ELSE IF ~MethodsSafe(req, binding) THEN "unsafe redirect"
  ELSE "ok"

\* Both validations of the wrapper; ctx is the binding read on entry.
Verdict(req, history, ctx) ==
  IF UnchangedBinding(req, history, ctx)
  THEN RedirectDestination(req, Binding(ctx))
  ELSE "untrusted redirect"

\* What a callback can make of the requests it is handed.
CallbackRequests ==
  [url : CallbackURLs, host : CallbackHosts \cup {NoHost}, method : Methods, ctx : Contexts]

Rewritten(history, indices, url, ctx) ==
  [i \in DOMAIN history |->
     IF i \in indices THEN [history[i] EXCEPT !.url = url, !.ctx = ctx] ELSE history[i]]

Refuse(why) == pc' = "done" /\ result' = why

\* The first validation, with the destination net/http proposes.
RefusedBeforeCallback ==
  LET v == Verdict(next, via, next.ctx) IN
  /\ Len(via) = 0 \/ v # "ok"
  /\ Refuse(IF Len(via) = 0 THEN "untrusted redirect" ELSE v)
  /\ UNCHANGED <<next, via>>

Approved == Len(via) # 0 /\ Verdict(next, via, next.ctx) = "ok"

\* Mutant: the limit is compared off by one.
PastLimit == Len(via) > RedirectLimit

AtLimit == Len(via) >= RedirectLimit

\* Replacing CheckRedirect switches net/http's own limit off.
NoCallback ==
  /\ Approved /\ ~callback
  /\ \/ AtLimit /\ Refuse("redirect limit")
     \/ ~AtLimit /\ pc' = "sending" /\ UNCHANGED result
  /\ UNCHANGED <<next, via>>

\* The callback may fail, ask for the last response, or rewrite and approve;
\* what it approves is validated again, against the binding read on entry.
\* (The objects of a refused exchange are not read again and stay as they were.)
Callback ==
  /\ Approved /\ callback
  /\ \/ Refuse("refused by caller") /\ UNCHANGED <<next, via>>
     \/ Refuse("response") /\ UNCHANGED <<next, via>>
     \/ \E req \in CallbackRequests \cup {next},
           indices \in SUBSET DOMAIN via, url \in CallbackURLs, ctx \in Contexts :
          LET v == Verdict(req, Rewritten(via, indices, url, ctx), next.ctx) IN
          \/ v # "ok" /\ Refuse(v) /\ UNCHANGED <<next, via>>
          \/ /\ v = "ok" /\ pc' = "sending" /\ UNCHANGED result
             /\ next' = req
             /\ via' = Rewritten(via, indices, url, ctx)

CheckRedirect ==
  /\ pc = "checking"
  /\ RefusedBeforeCallback \/ NoCallback \/ Callback
  /\ UNCHANGED <<callback, home, sent>>

Next ==
  \/ \E ref \in References, method \in Methods : NewHTTPRequest(ref, method)
  \/ Send
  \/ Answer
  \/ \E loc \in Locations, preserve \in BOOLEAN : Redirected(loc, preserve)
  \/ CheckRedirect

Spec == Init /\ [][Next]_vars

-----------------------------------------------------------------------------
Request == [url : URL, host : HostHeader, method : Methods \cup {"GET"}, ctx : Contexts]

Results == {"none", "invalid", "untrusted", "response", "transport", "untrusted redirect",
            "unsafe redirect", "redirect limit", "refused by caller"}

\* Every variable has the values its Go counterpart can have.
TypeOK ==
  /\ pc \in {"idle", "sending", "waiting", "checking", "done"}
  /\ callback \in BOOLEAN
  /\ home \in [origin : URL, method : Methods \cup {"GET"}]
  /\ next \in Request
  /\ via \in Seq(Request)
  /\ sent \in Seq(Request)
  /\ result \in Results

\* Whatever the service answers and the callback rewrites, the bearer token
\* only ever travels to an origin the client was configured to trust
\* (client.go:457 "may receive the bearer token").
BearerOnlyToTrusted ==
  \A i \in DOMAIN sent : Triple(sent[i].url) \in TrustedOrigins

\* "redirects must remain on the origin of the initial request, even when
\* another host is allowed here" (client.go:142): URL and Host header alike.
RedirectsStayHome ==
  \A i \in DOMAIN sent :
    /\ Triple(sent[i].url) = Triple(sent[1].url)
    /\ sent[i].host = NoHost
       \/ Triple(HostURL(sent[i].url.scheme, sent[i].host)) = Triple(sent[1].url)

\* A mutation goes out once: it is never followed to a redirect, neither
\* replayed (307, 308) nor turned into a GET, and no redirect, callback or
\* not, makes a mutation out of a read (redirect.go:73).
MutationsAreNotRedirected ==
  \A i \in DOMAIN sent : i > 1 => /\ SafeRedirectMethod(sent[1].method)
                                 /\ SafeRedirectMethod(sent[i].method)

\* Without a callback of the caller's, the default policy of net/http holds:
\* at most RedirectLimit requests in one exchange.
RedirectBudget == ~callback => Len(sent) <= RedirectLimit
=============================================================================
