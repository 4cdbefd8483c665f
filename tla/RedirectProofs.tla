--------------------------- MODULE RedirectProofs ---------------------------
(***************************************************************************)
(* One exchange of Redirect, for every configuration, every service and    *)
(* every callback: the bearer token stays on the origin the request was    *)
(* first allowed for, and a mutation goes out once.                        *)
(***************************************************************************)
EXTENDS Redirect, SequenceTheorems, TLAPS

\* Two URLs share an origin exactly when both are usable and their triples of
\* scheme, host and port agree (redirect.go:119).
LEMMA SameOriginIsTriple ==
  ASSUME NEW a \in URL, NEW b \in URL
  PROVE  SameOrigin(a, b) <=>
           ValidHTTPURL(a) /\ ValidHTTPURL(b) /\ Triple(a) = Triple(b)
<1>1. ASSUME NEW u \in URL, ValidHTTPURL(u)
      PROVE  Triple(u) = <<Fold(u.scheme), Fold(u.host), OriginPort(u)>>
  BY <1>1, PortsAssumption DEF Triple, OriginPort, ValidHTTPURL, PortOk, EqualFold
<1>2. CASE ValidHTTPURL(a) /\ ValidHTTPURL(b)
  BY <1>1, <1>2 DEF SameOrigin, EqualFold
<1>3. CASE ~(ValidHTTPURL(a) /\ ValidHTTPURL(b))
  BY <1>3 DEF SameOrigin
<1> QED BY <1>2, <1>3

\* A resolved URL is usable and on a trusted origin, so the first request of an
\* exchange is (client.go:421).
LEMMA ResolvedIsTrusted ==
  ASSUME NEW ref \in URL, ResolveURL(ref).ok
  PROVE  /\ ResolveURL(ref).url \in URL
         /\ ValidHTTPURL(ResolveURL(ref).url)
         /\ Triple(ResolveURL(ref).url) \in TrustedOrigins
<1>1. CASE ref.scheme # ""
  <2>1. ResolveURL(ref).url = ref /\ ValidHTTPURL(ref) /\ HostAllowed(ref)
    BY <1>1 DEF ResolveURL, Refused, Resolved
  <2>2. CASE SameOrigin(ref, BaseURL)
    BY <2>1, <2>2, SameOriginIsTriple, BaseAssumption DEF TrustedOrigins
  <2>3. CASE \E h \in AllowedHosts : SameOrigin(ref, HostURL(BaseURL.scheme, h))
    <3>1. PICK h \in AllowedHosts : SameOrigin(ref, HostURL(BaseURL.scheme, h))
      BY <2>3
    <3>2. HostURL(BaseURL.scheme, h) \in URL
      BY HostsAssumption, BaseAssumption DEF HostURL, URL
    <3> QED BY <2>1, <3>1, <3>2, SameOriginIsTriple DEF TrustedOrigins
  <2> QED BY <2>1, <2>2, <2>3 DEF HostAllowed
<1>2. CASE ref.scheme = ""
  BY <1>2, BaseAssumption DEF ResolveURL, Refused, Resolved, TrustedOrigins
<1> QED BY <1>1, <1>2

\* The origin kept in the binding is that of the URL it was taken from.
LEMMA OriginOfURL ==
  ASSUME NEW u \in URL, ValidHTTPURL(u)
  PROVE  /\ OriginOf(u) \in URL /\ ValidHTTPURL(OriginOf(u))
         /\ Triple(OriginOf(u)) = Triple(u)
BY DEF OriginOf, HostURL, HostOf, URL, ValidHTTPURL, PortOk, EqualFold, Triple

-----------------------------------------------------------------------------
\* The inductive invariant.  A request that is about to go out is approved: it
\* is at home, in URL and Host header, and bound to this exchange.  What makes
\* the approval sound is that while the exchange runs every object of the
\* history is bound to it too, so that the binding net/http copies from the
\* first request is this one.
AtHome(r) ==
  /\ ValidHTTPURL(r.url)
  /\ Triple(r.url) = Triple(home.origin)
  /\ \/ r.host = NoHost
     \/ Triple(HostURL(r.url.scheme, r.host)) = Triple(home.origin)
  /\ r.ctx = "own"

HomeTrusted == ValidHTTPURL(home.origin) /\ Triple(home.origin) \in TrustedOrigins

SentApproved ==
  \A i \in DOMAIN sent :
    /\ AtHome(sent[i])
    /\ i = 1 => sent[i].method = home.method
    /\ i > 1 => SafeRedirectMethod(home.method) /\ SafeRedirectMethod(sent[i].method)

NextApproved ==
  /\ pc = "sending" =>
       /\ AtHome(next)
       /\ Len(sent) = 0 => next.method = home.method
       /\ Len(sent) > 0 => SafeRedirectMethod(home.method) /\ SafeRedirectMethod(next.method)
  /\ pc = "checking" => next.ctx = "own"

HistoryBound ==
  pc # "done" => Len(via) = Len(sent) /\ \A i \in DOMAIN via : via[i].ctx = "own"

Counted ==
  /\ pc = "idle" => Len(sent) = 0
  /\ pc \in {"waiting", "checking"} => Len(sent) > 0
  /\ ~callback => Len(sent) <= RedirectLimit
  /\ ~callback /\ pc = "sending" => Len(sent) < RedirectLimit

Inv == TypeOK /\ HomeTrusted /\ SentApproved /\ NextApproved /\ HistoryBound /\ Counted

\* What the wrapper lets through is at home and safe (redirect.go:86).
LEMMA VerdictApproves ==
  ASSUME HomeTrusted, TypeOK, NEW req \in Request, NEW history,
         Verdict(req, history, "own") = "ok"
  PROVE  /\ AtHome(req)
         /\ SafeRedirectMethod(home.method) /\ SafeRedirectMethod(req.method)
         /\ \A i \in DOMAIN history : history[i].ctx = "own"
<1>1. UnchangedBinding(req, history, "own") /\ RedirectDestination(req, home) = "ok"
  BY DEF Verdict, Binding
<1>2. /\ SameOrigin(req.url, home.origin)
      /\ req.host = NoHost \/ SameOrigin(HostURL(req.url.scheme, req.host), home.origin)
      /\ SafeRedirectMethod(home.method) /\ SafeRedirectMethod(req.method)
  BY <1>1 DEF RedirectDestination, HostStays, MethodsSafe
<1>3. req.url \in URL /\ HostURL(req.url.scheme, req.host) \in URL /\ home.origin \in URL
  BY DEF Request, HostHeader, HostURL, URL, TypeOK
<1> QED BY <1>1, <1>2, <1>3, SameOriginIsTriple DEF AtHome, UnchangedBinding

\* A rewritten history is a history of the same length.
LEMMA RewrittenType ==
  ASSUME NEW history \in Seq(Request), NEW indices, NEW url \in URL, NEW ctx \in Contexts
  PROVE  /\ Rewritten(history, indices, url, ctx) \in Seq(Request)
         /\ Len(Rewritten(history, indices, url, ctx)) = Len(history)
<1> DEFINE n == Len(history)
           r == Rewritten(history, indices, url, ctx)
<1>1. n \in Nat /\ DOMAIN history = 1 .. n /\ history \in [1 .. n -> Request]
  BY LenProperties
<1>2. \A i \in 1 .. n : [history[i] EXCEPT !.url = url, !.ctx = ctx] \in Request
  BY <1>1 DEF Request
<1>3. r \in [1 .. n -> Request]
  BY <1>1, <1>2 DEF Rewritten
<1>4. r \in Seq(Request)
  BY <1>1, <1>3, SeqDef
<1> QED BY <1>1, <1>3, <1>4, LenProperties

\* A Location resolves to a URL.
LEMMA AgainstType ==
  ASSUME NEW loc \in URL, NEW base \in URL
  PROVE  Against(loc, base) \in URL
BY DEF Against, URL

LEMMA InitInv == Init => Inv
<1> SUFFICES ASSUME Init PROVE Inv
  OBVIOUS
<1>1. TypeOK
  <2>1. OriginOf(BaseURL) \in URL /\ home \in [origin : URL, method : Methods \cup {"GET"}]
    BY BaseAssumption, OriginOfURL DEF Init
  <2>2. NoRequest \in Request
    BY BaseAssumption DEF NoRequest, Request, HostHeader, NoHost, Contexts
  <2>3. << >> \in Seq(Request)
    BY EmptySeq
  <2> QED BY <2>1, <2>2, <2>3 DEF Init, TypeOK, Results
<1>2. HomeTrusted
  BY OriginOfURL, BaseAssumption DEF Init, HomeTrusted, TrustedOrigins
<1>3. SentApproved /\ NextApproved /\ HistoryBound /\ Counted
  BY LimitAssumption DEF Init, SentApproved, NextApproved, HistoryBound, Counted
<1> QED BY <1>1, <1>2, <1>3 DEF Inv

LEMMA StepInv == Inv /\ [Next]_vars => Inv'
<1> SUFFICES ASSUME Inv, [Next]_vars PROVE Inv'
  OBVIOUS
<1> USE DEF Inv
<1>1. ASSUME NEW ref \in References, NEW method \in Methods, NewHTTPRequest(ref, method)
      PROVE  Inv'
  <2>1. CASE ~ResolveURL(ref).ok
    BY <1>1, <2>1 DEF NewHTTPRequest, TypeOK, HomeTrusted, SentApproved, NextApproved,
       HistoryBound, Counted, AtHome, ResolveURL, Refused, Resolved, Results
  <2>2. CASE ResolveURL(ref).ok
    <3> DEFINE u == ResolveURL(ref).url
    <3>1. u \in URL /\ ValidHTTPURL(u) /\ Triple(u) \in TrustedOrigins
      BY <2>2, ResolvedIsTrusted, PeersAssumption
    <3>2. OriginOf(u) \in URL /\ ValidHTTPURL(OriginOf(u)) /\ Triple(OriginOf(u)) = Triple(u)
      BY <3>1, OriginOfURL
    <3>3. /\ pc = "idle" /\ pc' = "sending" /\ result' = result
          /\ home' = [origin |-> OriginOf(u), method |-> method]
          /\ next' = [url |-> u, host |-> HostOf(u), method |-> method, ctx |-> "own"]
          /\ callback' = callback /\ via' = via /\ sent' = sent
      BY <1>1, <2>2 DEF NewHTTPRequest
    <3> HIDE DEF u
    <3>4. HostOf(u) \in HostHeader
      BY <3>1 DEF HostOf, HostHeader, URL
    <3>5. TypeOK'
      BY <3>1, <3>2, <3>3, <3>4 DEF TypeOK, Request, Contexts
    <3>6. HomeTrusted'
      BY <3>1, <3>2, <3>3 DEF HomeTrusted
    <3>7. Triple(HostURL(u.scheme, HostOf(u))) = Triple(OriginOf(u))
      BY DEF OriginOf
    <3>8. Len(sent) = 0 /\ sent = << >>
      BY <3>3, EmptySeq DEF Counted, TypeOK
    <3>9. SentApproved' /\ NextApproved'
      BY <3>1, <3>2, <3>3, <3>7, <3>8 DEF SentApproved, NextApproved, AtHome
    <3> QED BY <3>3, <3>5, <3>6, <3>8, <3>9, LimitAssumption DEF HistoryBound, Counted
  <2> QED BY <2>1, <2>2
<1>2. ASSUME Send PROVE Inv'
  <2>1. /\ pc = "sending" /\ pc' = "waiting"
        /\ via' = Append(via, next) /\ sent' = Append(sent, next)
        /\ UNCHANGED <<callback, home, next, result>>
    BY <1>2 DEF Send
  <2>2. TypeOK'
    BY <2>1 DEF TypeOK
  <2>3. /\ Len(sent') = Len(sent) + 1 /\ Len(via') = Len(via) + 1
        /\ DOMAIN sent' = 1 .. Len(sent) + 1 /\ DOMAIN via' = 1 .. Len(via) + 1
        /\ DOMAIN sent = 1 .. Len(sent) /\ DOMAIN via = 1 .. Len(via)
        /\ \A i \in 1 .. Len(sent) + 1 : sent'[i] = IF i <= Len(sent) THEN sent[i] ELSE next
        /\ \A i \in 1 .. Len(via) + 1 : via'[i] = IF i <= Len(via) THEN via[i] ELSE next
        /\ Len(sent) \in Nat /\ Len(via) \in Nat
    BY <2>1 DEF TypeOK
  <2>4. HomeTrusted' /\ NextApproved'
    BY <2>1 DEF HomeTrusted, NextApproved
  <2>5. SentApproved'
    BY <2>1, <2>3 DEF SentApproved, NextApproved, AtHome
  <2>6. HistoryBound'
    BY <2>1, <2>3 DEF HistoryBound, NextApproved, AtHome
  <2>7. Counted'
    BY <2>1, <2>3, LimitAssumption DEF Counted
  <2> QED BY <2>2, <2>4, <2>5, <2>6, <2>7
<1>3. ASSUME Answer PROVE Inv'
  BY <1>3 DEF Answer, TypeOK, HomeTrusted, SentApproved, NextApproved, HistoryBound, Counted,
     AtHome, Results
<1>4. ASSUME NEW loc \in Locations, NEW preserve \in BOOLEAN, Redirected(loc, preserve)
      PROVE  Inv'
  <2>1. /\ pc = "waiting" /\ pc' = "checking"
        /\ next'.ctx = via[1].ctx
        /\ UNCHANGED <<callback, home, via, sent, result>>
    BY <1>4 DEF Redirected
  <2>2. 1 \in DOMAIN via /\ via[1].ctx = "own"
    BY <2>1, LenProperties DEF HistoryBound, Counted, TypeOK
  <2>3. next' \in Request
    <3>1. Against(loc, next.url) \in URL
      BY AgainstType, PeersAssumption DEF TypeOK, Request
    <3>2. (IF Relative(loc) /\ next.host # HostOf(next.url) THEN next.host ELSE NoHost) \in HostHeader
      BY DEF TypeOK, Request, HostHeader, NoHost
    <3>3. NextMethod(next.method, preserve) \in Methods \cup {"GET"}
      BY DEF NextMethod, TypeOK, Request
    <3> QED BY <1>4, <2>2, <3>1, <3>2, <3>3 DEF Redirected, Request, Contexts
  <2>4. TypeOK'
    BY <2>1, <2>3 DEF TypeOK
  <2> QED BY <2>1, <2>2, <2>4 DEF HomeTrusted, SentApproved, NextApproved, HistoryBound,
      Counted, AtHome
<1>5. ASSUME CheckRedirect PROVE Inv'
  <2>1. pc = "checking" /\ UNCHANGED <<callback, home, sent>> /\ next.ctx = "own" /\ next \in Request
    BY <1>5 DEF CheckRedirect, NextApproved, TypeOK
  <2>2. ASSUME pc' = "done", result' \in Results, UNCHANGED <<next, via>> PROVE Inv'
    BY <2>1, <2>2 DEF TypeOK, HomeTrusted, SentApproved, NextApproved, HistoryBound, Counted, AtHome
  <2>3. \A req, history, ctx : Verdict(req, history, ctx) # "ok" =>
          Verdict(req, history, ctx) \in Results
    BY DEF Verdict, RedirectDestination, HostStays, MethodsSafe, Results
  <2>4. CASE RefusedBeforeCallback
    BY <2>2, <2>3, <2>4 DEF RefusedBeforeCallback, Refuse, Results
  <2>5. CASE NoCallback
    <3>1. CASE AtLimit /\ Refuse("redirect limit")
      BY <2>2, <2>5, <3>1 DEF NoCallback, Refuse, Results
    <3>2. CASE ~AtLimit /\ pc' = "sending" /\ UNCHANGED result
      <4>1. Verdict(next, via, "own") = "ok" /\ UNCHANGED <<next, via>> /\ ~callback
        BY <2>1, <2>5 DEF NoCallback, Approved
      <4>2. AtHome(next) /\ SafeRedirectMethod(home.method) /\ SafeRedirectMethod(next.method)
        BY <2>1, <4>1, VerdictApproves
      <4>3. Len(via) < RedirectLimit
        BY <2>1, <3>2, LimitAssumption DEF AtLimit, TypeOK
      <4> QED BY <2>1, <3>2, <4>1, <4>2, <4>3 DEF TypeOK, HomeTrusted, SentApproved, NextApproved,
          HistoryBound, Counted, AtHome
    <3> QED BY <2>5, <3>1, <3>2 DEF NoCallback
  <2>6. CASE Callback
    <3>1. CASE /\ Refuse("refused by caller") \/ Refuse("response")
               /\ UNCHANGED <<next, via>>
      BY <2>2, <3>1 DEF Refuse, Results
    <3>2. ASSUME NEW req \in CallbackRequests \cup {next}, NEW indices \in SUBSET DOMAIN via,
                 NEW url \in CallbackURLs, NEW ctx \in Contexts,
                 Verdict(req, Rewritten(via, indices, url, ctx), next.ctx) = "ok",
                 pc' = "sending", UNCHANGED result, next' = req,
                 via' = Rewritten(via, indices, url, ctx)
          PROVE  Inv'
      <4>1. req \in Request
        <5>1. NoHost \in HostHeader
          BY DEF NoHost, HostHeader
        <5>2. CallbackRequests \subseteq Request
          BY <5>1, PeersAssumption DEF CallbackRequests, Request
        <5> QED BY <2>1, <5>2
      <4>2. /\ AtHome(req) /\ SafeRedirectMethod(home.method) /\ SafeRedirectMethod(req.method)
            /\ \A i \in DOMAIN via' : via'[i].ctx = "own"
        BY <2>1, <3>2, <4>1, VerdictApproves
      <4>3. via' \in Seq(Request) /\ Len(via') = Len(via)
        BY <3>2, RewrittenType, PeersAssumption DEF TypeOK
      <4>4. TypeOK'
        BY <2>1, <3>2, <4>1, <4>3 DEF TypeOK
      <4>5. callback
        BY <2>6 DEF Callback
      <4> QED BY <2>1, <3>2, <4>2, <4>3, <4>4, <4>5 DEF HomeTrusted, SentApproved, NextApproved,
          HistoryBound, Counted, AtHome
    <3>3. ASSUME NEW req \in CallbackRequests \cup {next}, NEW indices \in SUBSET DOMAIN via,
                 NEW url \in CallbackURLs, NEW ctx \in Contexts,
                 Verdict(req, Rewritten(via, indices, url, ctx), next.ctx) # "ok",
                 Refuse(Verdict(req, Rewritten(via, indices, url, ctx), next.ctx)),
                 UNCHANGED <<next, via>>
          PROVE  Inv'
      BY <2>2, <2>3, <3>3 DEF Refuse
    <3> QED BY <2>6, <3>1, <3>2, <3>3 DEF Callback
  <2> QED BY <1>5, <2>4, <2>5, <2>6 DEF CheckRedirect
<1>6. CASE UNCHANGED vars
  BY <1>6 DEF vars, TypeOK, HomeTrusted, SentApproved, NextApproved, HistoryBound, Counted, AtHome
<1> QED BY <1>1, <1>2, <1>3, <1>4, <1>5, <1>6 DEF Next

\* Inv holds throughout every exchange.
LEMMA Invariance == Spec => []Inv
<1> QED BY InitInv, StepInv, PTL DEF Spec

\* Redirect keeps its types (TypeOK).
THEOREM TypeCorrect == Spec => []TypeOK
<1>1. Inv => TypeOK
  BY DEF Inv
<1> QED BY <1>1, Invariance, PTL

\* The bearer token goes to trusted origins only, whatever a Location or a
\* callback says (client.go:457).
THEOREM TokenConfinement == Spec => []BearerOnlyToTrusted
<1>1. Inv => BearerOnlyToTrusted
  BY DEF Inv, HomeTrusted, SentApproved, AtHome, BearerOnlyToTrusted
<1> QED BY <1>1, Invariance, PTL

\* Redirects stay on the origin of the initial request (client.go:142).
THEOREM HomeConfinement == Spec => []RedirectsStayHome
<1>1. Inv => RedirectsStayHome
  <2> SUFFICES ASSUME Inv, NEW i \in DOMAIN sent
               PROVE  /\ Triple(sent[i].url) = Triple(sent[1].url)
                      /\ \/ sent[i].host = NoHost
                         \/ Triple(HostURL(sent[i].url.scheme, sent[i].host)) = Triple(sent[1].url)
    BY DEF RedirectsStayHome
  <2>1. 1 \in DOMAIN sent
    BY LenProperties DEF Inv, TypeOK
  <2> QED BY <2>1 DEF Inv, SentApproved, AtHome
<1> QED BY <1>1, Invariance, PTL

\* A mutation is never carried to a redirect, and no redirect makes one.
THEOREM MutationsSentOnce == Spec => []MutationsAreNotRedirected
<1>1. Inv => MutationsAreNotRedirected
  <2> SUFFICES ASSUME Inv, NEW i \in DOMAIN sent, i > 1
               PROVE  SafeRedirectMethod(sent[1].method) /\ SafeRedirectMethod(sent[i].method)
    BY DEF MutationsAreNotRedirected
  <2>1. 1 \in DOMAIN sent
    BY LenProperties DEF Inv, TypeOK
  <2> QED BY <2>1 DEF Inv, SentApproved
<1> QED BY <1>1, Invariance, PTL

\* The default policy ends every exchange within its limit.
THEOREM RedirectsAreBounded == Spec => []RedirectBudget
<1>1. Inv => RedirectBudget
  BY DEF Inv, Counted, RedirectBudget
<1> QED BY <1>1, Invariance, PTL

\* Nothing a callback did to an earlier request or to its context survives into
\* a request that goes out: each one carries the binding of its own exchange
\* (redirect.go:36).
THEOREM BindingSurvives == Spec => [](\A i \in DOMAIN sent : sent[i].ctx = "own")
<1>1. Inv => \A i \in DOMAIN sent : sent[i].ctx = "own"
  BY DEF Inv, SentApproved, AtHome
<1> QED BY <1>1, Invariance, PTL
=============================================================================
