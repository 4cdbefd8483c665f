------------------------------ MODULE Download ------------------------------
(***************************************************************************)
(* Client.Download (src/download.go:25): a request to Graph, retried while *)
(* it is throttled; perhaps a 302 to a preauthenticated URL, fetched by a  *)
(* request of its own; and the body streamed into the caller's writer,     *)
(* bounded by WithMaxResponseBytes.                                        *)
(*                                                                         *)
(* Content is counted in bytes: a body announces length of them and        *)
(* arrives of them come before its connection breaks (all of them, and     *)
(* then the end of the body, when it does not).  The service, the network, *)
(* the writer and the caller's context are external.                       *)
(***************************************************************************)
EXTENDS Naturals, Sequences

CONSTANTS
  MaxRetries,  \* WithMaxRetries
  Limits,      \* values of WithMaxResponseBytes; 0 stands for every non-positive one
  Statuses,    \* statuses the services answer with, one or more of each class
  MaxLength    \* bound: the longest body

ASSUME DownloadAssumption ==
  /\ MaxRetries \in Nat /\ Limits \subseteq Nat /\ MaxLength \in Nat
  /\ Statuses \subseteq 100 .. 599

VARIABLES
  limit,      \* maxResponseBytes of the client
  pc,         \* where Download is
  attempt,    \* the loop variable
  cancelled,  \* is the caller's context done?
  sent,       \* the requests that went out: to which service, with the token?
  resp,       \* the response in hand
  target,     \* the Location of a 302: "missing", "invalid", "http" or "https"
  open,       \* the response bodies not closed yet
  written,    \* bytes the caller's writer was given
  result      \* what Download returned, "none" so far

vars == <<limit, pc, attempt, cancelled, sent, resp, target, open, written, result>>

Graph == [to |-> "graph", bearer |-> TRUE]

\* Mutant: the content is asked for with the request that worked for Graph.
ContentWithToken == [to |-> "content", bearer |-> TRUE]

Content == [to |-> "content", bearer |-> FALSE]

Response == [from : {"graph", "content"}, status : Statuses, range : BOOLEAN,
             length : 0 .. MaxLength, arrives : 0 .. MaxLength]
NoResponse == [from |-> "graph", status |-> 0, range |-> FALSE, length |-> 0, arrives |-> 0]

Init ==
  /\ limit \in Limits
  /\ pc = "prepare"
  /\ attempt = 0
  /\ cancelled = FALSE
  /\ sent = << >>
  /\ resp = NoResponse
  /\ target = "missing"
  /\ open = 0
  /\ written = 0
  /\ result = "none"

Return(r) == pc' = "done" /\ result' = r
Success(status) == status \in 200 .. 299
RetryableStatus(status) == status \in {429, 502, 503, 504}

\* Mutant: a body is forgotten.
StillOpen == open

Closed == open - 1

\* newHTTPRequest: parameters, URL or token are refused, or the request goes out
\* with the token.
Prepare ==
  /\ pc = "prepare"
  /\ \/ Return("request") /\ UNCHANGED sent
     \/ pc' = "graph" /\ sent' = Append(sent, Graph) /\ UNCHANGED result
  /\ UNCHANGED <<limit, attempt, cancelled, resp, target, open, written>>

\* Either request fails: connection, timeout, cancelled context, a Location that
\* does not parse.  Unlike Do, Download does not try again.
TransportError ==
  /\ pc \in {"graph", "content"}
  /\ Return("transport")
  /\ UNCHANGED <<limit, attempt, cancelled, sent, resp, target, open, written>>

\* The service answers; with the redirect policy of the copied client a 3xx is
\* an answer like any other.
Answer ==
  /\ pc \in {"graph", "content"}
  /\ resp' \in {r \in Response : r.from = pc /\ r.arrives <= r.length}
  /\ target' \in IF pc = "graph" THEN {"missing", "invalid", "http", "https"} ELSE {target}
  /\ open' = open + 1
  /\ pc' = IF pc = "graph" THEN "status" ELSE "body"
  /\ UNCHANGED <<limit, attempt, cancelled, sent, written, result>>

Throttled == RetryableStatus(resp.status) /\ attempt < MaxRetries

\* A transient status is retried once its body is closed; a 302 is located;
\* anything else is the body, for better or worse.
CheckStatus ==
  /\ pc = "status"
  /\ IF Throttled
     THEN pc' = "sleep" /\ open' = Closed
     ELSE pc' = (IF resp.status = 302 THEN "locate" ELSE "body") /\ UNCHANGED open
  /\ UNCHANGED <<limit, attempt, cancelled, sent, resp, target, written, result>>

\* Mutant: nothing but the context ends the sleep.
TimerForContext == cancelled /\ pc' = "prepare" /\ attempt' = attempt + 1

Timer == pc' = "prepare" /\ attempt' = attempt + 1

\* c.sleep: the timer, or the context; when both are there, either.
Sleep ==
  /\ pc = "sleep"
  /\ \/ Timer /\ UNCHANGED result
     \/ cancelled /\ Return("context") /\ UNCHANGED attempt
  /\ UNCHANGED <<limit, cancelled, sent, resp, target, open, written>>

\* The body of the 302 is closed; only a usable https URL is fetched, by a
\* request without the token.
Locate ==
  /\ pc = "locate"
  /\ open' = Closed
  /\ IF target = "https"
     THEN pc' = "content" /\ sent' = Append(sent, Content) /\ UNCHANGED result
     ELSE Return("untrusted") /\ UNCHANGED sent
  /\ UNCHANGED <<limit, attempt, cancelled, resp, target, written>>

-----------------------------------------------------------------------------
\* downloadBody: what is not a whole success is turned into an error first.
Refusal ==
  IF resp.status = 206 \/ resp.range THEN {"partial"}
  ELSE IF resp.status = 304 /\ resp.from = "graph" THEN {"not modified"}
  ELSE IF Success(resp.status) THEN {}
  ELSE IF resp.status \in 300 .. 399 THEN {"unsafe redirect"}
  ELSE IF resp.from = "content" THEN {"status"}
  ELSE IF resp.arrives < resp.length THEN {"read error", "api"} ELSE {"api"}

Body ==
  /\ pc = "body"
  /\ IF Refusal = {}
     THEN pc' = "copy" /\ UNCHANGED <<open, result>>
     ELSE /\ \E r \in Refusal : Return(r)
          /\ open' = Closed
  /\ UNCHANGED <<limit, attempt, cancelled, sent, resp, target, written>>

\* What io.Copy can get: all that arrives, up to the limit.
Readable == IF limit > 0 /\ resp.arrives > limit THEN limit ELSE resp.arrives
Broken == resp.arrives < resp.length

\* Mutant: a stream that breaks is begun anew.
StreamAgain == pc' = "prepare" /\ UNCHANGED result

StreamFails == Return("stream")

\* io.Copy: bytes go to the writer, which may fail; the stream ends at the limit,
\* with the body, or where the connection breaks before either.
Copy ==
  /\ pc = "copy"
  /\ \/ written < Readable /\ written' = written + 1 /\ UNCHANGED <<pc, open, result>>
     \/ written < Readable /\ StreamFails /\ open' = Closed /\ UNCHANGED written
     \/ /\ written = Readable
        /\ IF Broken /\ ~(limit > 0 /\ resp.arrives >= limit)
           THEN StreamFails /\ open' = Closed
           ELSE pc' = "finish" /\ UNCHANGED <<open, result>>
        /\ UNCHANGED written
  /\ UNCHANGED <<limit, attempt, cancelled, sent, resp, target>>

\* Mutant: an end at the limit is the end.
AnyEnd == "ok"

\* One byte past the limit tells a body that was cut off from one that fitted,
\* and a connection that broke right there from either.
End == IF limit > 0 /\ resp.arrives > limit THEN "too large"
       ELSE IF limit > 0 /\ Broken THEN "finish"
       ELSE "ok"

Finish ==
  /\ pc = "finish"
  /\ open' = Closed
  /\ Return(End)
  /\ UNCHANGED <<limit, attempt, cancelled, sent, resp, target, written>>

Cancel ==
  /\ pc # "done" /\ ~cancelled
  /\ cancelled' = TRUE
  /\ UNCHANGED <<limit, pc, attempt, sent, resp, target, open, written, result>>

Step == Prepare \/ TransportError \/ Answer \/ CheckStatus \/ Sleep \/ Locate \/ Body
        \/ Copy \/ Finish

Next == Step \/ Cancel

Spec == Init /\ [][Next]_vars

\* http.Client.Timeout ends waits and reads (client.go:225), timers fire.
FairSpec == Spec /\ WF_vars(Step)

-----------------------------------------------------------------------------
\* "An error may leave partial bytes in out" (download.go:21), success may not:
\* the writer has the whole content, of an answer that is all of it.  The limit
\* bounds what the writer is given on failure too, and content that fits it
\* exactly is not too large.
SuccessIsWhole ==
  /\ result = "ok" => /\ written = resp.length
                      /\ Success(resp.status) /\ resp.status # 206 /\ ~resp.range
  /\ limit > 0 => written <= limit
  /\ result = "too large" => resp.length > limit

\* "Without the Graph bearer token", "it never follows another redirect"
\* (download.go:14): only requests to Graph carry the token, and the content is
\* asked for once, last, and never again whatever becomes of it.
TokenStaysWithGraph ==
  \A i \in DOMAIN sent :
    /\ sent[i].to # "graph" => ~sent[i].bearer
    /\ sent[i].to = "content" => i = Len(sent) /\ target = "https"

\* "Content requests and partial streams are never retried" (download.go:23):
\* once the writer was given a byte no request goes out, and it gets no byte of
\* another answer.
StreamsOnce == [][written > 0 => UNCHANGED <<sent, resp>>]_vars

\* Every body is closed by the time Download returns, and before it sleeps.
BodiesClosed == pc \in {"prepare", "sleep", "content", "done"} => open = 0

\* Every download returns, within its retries.
DownloadReturns == <>(pc = "done")
=============================================================================
