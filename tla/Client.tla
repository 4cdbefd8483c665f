------------------------------- MODULE Client -------------------------------
(***************************************************************************)
(* Client.Do under concurrent callers (src/client.go:292): the retry loop, *)
(* a request built and a token fetched for every attempt, sleeps the       *)
(* caller's context can interrupt, and the response decoded.               *)
(*                                                                         *)
(* The service and the network are external.  A request on the wire may be *)
(* served late or never, after its caller has given up on it included; an  *)
(* answer may get lost; a mutation may take effect and still be answered   *)
(* with a transient error (client.go:128).  The service keeps one resource *)
(* whose version is its ETag.                                              *)
(***************************************************************************)
EXTENDS Naturals

CONSTANTS
  Callers,       \* goroutines, one call of Do each
  Methods,       \* HTTP methods they use
  MaxRetries,    \* WithMaxRetries, clamped to zero from below (client.go:109)
  RetryUnsafe,   \* WithRetryUnsafeMethods of the client each of them uses
  Statuses,      \* statuses the service answers with, one or more of each class
  Bodies,        \* what response bodies may be like
  Limited,       \* is WithMaxResponseBytes positive?
  MaxVersion,    \* bound: versions of the resource
  MaxGeneration  \* bound: rotations of the token

ASSUME ClientAssumption ==
  /\ MaxRetries \in Nat /\ RetryUnsafe \in [Callers -> BOOLEAN] /\ Limited \in BOOLEAN
  /\ MaxVersion \in Nat \ {0} /\ MaxGeneration \in Nat
  /\ Methods \subseteq STRING
  /\ {200, 304, 412} \subseteq Statuses /\ Statuses \subseteq 100 .. 599
  /\ Bodies \subseteq {"empty", "good", "malformed", "oversize", "broken"}

VARIABLES
  pc,         \* where each caller is in Do
  req,        \* its Request
  cancelled,  \* is its context done?
  attempt,    \* the loop variable of Do
  token,      \* the generation of the token attached to this attempt
  reply,      \* what the service answered to its last attempt
  open,       \* does it hold an open response body?
  result,     \* what Do returned
  wire,       \* requests sent and not yet served
  version,    \* the ETag of the resource
  generation, \* the generation of the token the token source hands out
  applied,    \* mutations of each caller that took effect
  woke        \* the token generation when this attempt began

client == <<pc, req, cancelled, attempt, token, reply, open, result, woke>>
service == <<wire, version, generation, applied>>
vars == <<pc, req, cancelled, attempt, token, reply, open, result, woke,
          wire, version, generation, applied>>

\* etag is If-Match for a mutation and If-None-Match for a read, 0 for neither;
\* fault says what is wrong with the request: its body does not marshal, or
\* its parameters or URL are refused.
Request == [method : Methods \cup {"GET"}, etag : 0 .. MaxVersion, fault : {"none", "body", "request"}]

Safe(method) == method \in {"GET", "HEAD", "OPTIONS"}
Mutates(c) == ~Safe(req[c].method)

\* Mutant: the default policy retries every method.
CanRetryAny(c, method) == TRUE

\* client.go:332
CanRetryMethod(c, method) == RetryUnsafe[c] \/ Safe(method)

\* retry.go:24
RetryableStatus(status) == status \in {429, 502, 503, 504}

NoReply == [kind |-> "none", status |-> 0]
RedirectRefused == [kind |-> "refused", status |-> 0]
Status(s) == [kind |-> "response", status |-> s]

Errors == {"none", "body", "request", "token", "transport", "refused", "context",
           "not modified", "api", "read", "stream", "too large", "decode"}

\* What Do returns: a *Response or not, and which error; status is what the
\* answer it was decoded from said, 0 without one.
Outcome(err, meta, status) == [err |-> err, meta |-> meta, status |-> status]
Pending == Outcome("none", FALSE, 0)

Init ==
  /\ pc = [c \in Callers |-> "idle"]
  /\ req = [c \in Callers |-> [method |-> "GET", etag |-> 0, fault |-> "none"]]
  /\ cancelled = [c \in Callers |-> FALSE]
  /\ attempt = [c \in Callers |-> 0]
  /\ token = [c \in Callers |-> 0]
  /\ reply = [c \in Callers |-> NoReply]
  /\ open = [c \in Callers |-> FALSE]
  /\ result = [c \in Callers |-> Pending]
  /\ woke = [c \in Callers |-> 0]
  /\ wire = {}
  /\ version = 1
  /\ generation = 0
  /\ applied = [c \in Callers |-> 0]

-----------------------------------------------------------------------------
Goto(c, label) == pc' = [pc EXCEPT ![c] = label]
Return(c, err, meta, status) ==
  Goto(c, "returned") /\ result' = [result EXCEPT ![c] = Outcome(err, meta, status)]

\* Do begins: the body is encoded once, before the loop.  An ETag is one the
\* caller may have read before.
Do(c, r) ==
  /\ pc[c] = "idle"
  /\ r.etag <= version
  /\ req' = [req EXCEPT ![c] = r]
  /\ woke' = [woke EXCEPT ![c] = generation]
  /\ \/ r.fault = "body" /\ Return(c, "body", FALSE, 0)
     \/ r.fault # "body" /\ Goto(c, "prepare") /\ UNCHANGED result
  /\ UNCHANGED <<cancelled, attempt, token, reply, open, service>>

\* Mutant: the token of the first attempt is reused.
TokenOnce(c) == IF attempt[c] = 0 THEN generation ELSE token[c]

\* bearerToken: the source is asked whenever a request is built.
TokenFor(c) == generation

\* newHTTPRequest, on every attempt: parameters and URL are validated, then the
\* token source is asked for a token, which may fail.
NewHTTPRequest(c) ==
  /\ pc[c] = "prepare"
  /\ \/ req[c].fault = "request" /\ Return(c, "request", FALSE, 0) /\ UNCHANGED token
     \/ req[c].fault = "none" /\ Return(c, "token", FALSE, 0) /\ UNCHANGED token
     \/ /\ req[c].fault = "none"
        /\ token' = [token EXCEPT ![c] = TokenFor(c)]
        /\ Goto(c, "send")
        /\ UNCHANGED result
  /\ UNCHANGED <<req, cancelled, attempt, reply, open, woke, service>>

\* Mutant: a retry goes out without the conditional header.
ConditionOnce(c) == IF attempt[c] = 0 THEN req[c].etag ELSE 0

Condition(c) == req[c].etag

\* http.Client.Do puts the request, with its conditional header, on the wire.
\* The transport refuses to start on a context that is done (TransportError).
Send(c) ==
  /\ pc[c] = "send"
  /\ ~cancelled[c]
  /\ Goto(c, "wait")
  /\ wire' = wire \cup {[caller |-> c, attempt |-> attempt[c], etag |-> Condition(c)]}
  /\ reply' = [reply EXCEPT ![c] = NoReply]
  /\ UNCHANGED <<req, cancelled, attempt, token, open, result, woke,
                 version, generation, applied>>

\* Mutant: the attempt is compared off by one.
RetriesOnceMore(c) == attempt[c] <= MaxRetries /\ CanRetryMethod(c, req[c].method)

\* What both retry paths look at.
Retries(c) == attempt[c] < MaxRetries /\ CanRetryMethod(c, req[c].method)

\* http.Client.Do fails: connection, timeout, cancelled context or a Location
\* that does not parse (client.go:309).  The request may be served even so.
TransportError(c) ==
  /\ pc[c] \in {"send", "wait"}
  /\ reply' = [reply EXCEPT ![c] = NoReply]
  /\ IF Retries(c) THEN Goto(c, "sleep") /\ UNCHANGED result
     ELSE Return(c, "transport", FALSE, 0)
  /\ UNCHANGED <<req, cancelled, attempt, token, open, woke, service>>

Retried(c) == RetryableStatus(reply[c].status) /\ Retries(c)

\* Mutants: the body of a retried response stays open; a refused redirect is one
\* more transport failure.
KeepsBody(c) == open' = [open EXCEPT ![c] = TRUE]
RefusalIsFailure(c) ==
  IF Retries(c) THEN Goto(c, "sleep") /\ UNCHANGED result ELSE Return(c, "transport", FALSE, 0)

DrainAndClose(c) == UNCHANGED open
RefusalEnds(c) == Return(c, "refused", FALSE, 0)

\* http.Client.Do returns what the service answered: a refused redirect ends
\* the call, a transient status is retried once its body is drained and closed,
\* anything else is decoded.
Receive(c) ==
  /\ pc[c] = "wait"
  /\ reply[c] # NoReply
  /\ \/ reply[c] = RedirectRefused /\ RefusalEnds(c) /\ UNCHANGED open
     \/ /\ reply[c].kind = "response"
        /\ IF Retried(c) THEN Goto(c, "sleep") /\ DrainAndClose(c)
           ELSE Goto(c, "decode") /\ open' = [open EXCEPT ![c] = TRUE]
        /\ UNCHANGED result
  /\ UNCHANGED <<req, cancelled, attempt, token, reply, woke, service>>

\* Mutant: a retry does not count.
Uncounted(c) == attempt[c]

Counted(c) == attempt[c] + 1

\* c.sleep: the timer fires, or the context is done; when both are, either wins.
SleepEnds(c) ==
  /\ pc[c] = "sleep"
  /\ Goto(c, "prepare")
  /\ attempt' = [attempt EXCEPT ![c] = Counted(c)]
  /\ woke' = [woke EXCEPT ![c] = generation]
  /\ UNCHANGED <<req, cancelled, token, reply, open, result, service>>

SleepCancelled(c) ==
  /\ pc[c] = "sleep" /\ cancelled[c]
  /\ Return(c, "context", FALSE, 0)
  /\ UNCHANGED <<req, cancelled, attempt, token, reply, open, woke, service>>

\* decodeResponse: the error for a status, a destination and a body.  A body is
\* empty, JSON that fits ("good") or not JSON ("malformed"), longer than the
\* limit ("oversize", and JSON), or breaks off while it is read ("broken").
Outs == {"nil", "writer", "value"}

Success(status) == status \in 200 .. 299

DecodeError(status, out, body) ==
  CASE status = 304 -> "not modified"
    [] status # 304 /\ ~Success(status) -> IF body = "broken" THEN "read" ELSE "api"
    [] Success(status) /\ out = "nil" -> "none"
    [] Success(status) /\ out = "writer" -> IF body = "broken" THEN "stream" ELSE "none"
    [] Success(status) /\ out = "value" ->
         CASE body = "broken" -> "read"
           [] body = "oversize" -> IF Limited THEN "too large" ELSE "none"
           [] body = "malformed" -> "decode"
           [] OTHER -> "none"

\* The metadata comes with a success, a 304 and a failed stream.
HasMeta(err) == err \in {"none", "not modified", "stream"}

Decode(c) ==
  /\ pc[c] = "decode"
  /\ open' = [open EXCEPT ![c] = FALSE]
  /\ \E out \in Outs, body \in Bodies :
       LET err == DecodeError(reply[c].status, out, body) IN
       Return(c, err, HasMeta(err), reply[c].status)
  /\ UNCHANGED <<req, cancelled, attempt, token, reply, woke, service>>

\* The caller cancels its context while Do runs.
Cancel(c) ==
  /\ pc[c] \notin {"idle", "returned"} /\ ~cancelled[c]
  /\ cancelled' = [cancelled EXCEPT ![c] = TRUE]
  /\ UNCHANGED <<pc, req, attempt, token, reply, open, result, woke, service>>

-----------------------------------------------------------------------------
\* Answers that say nothing about an effect: the transient statuses, and a 3xx,
\* be it refused or (without a Location, or as the callback's last response)
\* returned as it is.  401 is for a token that was rotated out, 304 and 412 for
\* conditional requests, 404 stands for the other refusals.
Transient == {Status(s) : s \in {s \in Statuses : RetryableStatus(s) \/ s = 302}}
             \cup {RedirectRefused}
Failures(m) == Transient
               \cup {Status(s) : s \in Statuses \cap {404}}
               \cup {Status(s) : s \in {s \in Statuses : s = 401 /\ token[m.caller] < generation}}

\* The service takes m off the wire.  Its answer reaches the caller only if the
\* caller still waits for this attempt.
Answer(m, r) ==
  /\ wire' = wire \ {m}
  /\ reply' = IF pc[m.caller] = "wait" /\ attempt[m.caller] = m.attempt
              THEN [reply EXCEPT ![m.caller] = r] ELSE reply

\* It performs a mutation whose If-Match is absent or current, and answers with
\* success, with a transient error, or with a redirect.
Apply(m) ==
  /\ m \in wire /\ Mutates(m.caller)
  /\ m.etag \in {0, version}
  /\ version < MaxVersion
  /\ version' = version + 1
  /\ applied' = [applied EXCEPT ![m.caller] = @ + 1]
  /\ \E r \in {Status(200)} \cup Transient : Answer(m, r)
  /\ UNCHANGED <<pc, req, cancelled, attempt, token, open, result, woke, generation>>

\* It declines a mutation, without an effect: 412 for a stale If-Match.
Decline(m) ==
  /\ m \in wire /\ Mutates(m.caller)
  /\ \E r \in Failures(m) \cup (IF m.etag \in {0, version} THEN {} ELSE {Status(412)}) :
       Answer(m, r)
  /\ UNCHANGED <<pc, req, cancelled, attempt, token, open, result, woke,
                 version, generation, applied>>

\* It answers a read; 304 when the ETag the client sent is current.
Read(m) ==
  /\ m \in wire /\ ~Mutates(m.caller)
  /\ \E r \in Failures(m) \cup {IF m.etag = version THEN Status(304) ELSE Status(200)} :
       Answer(m, r)
  /\ UNCHANGED <<pc, req, cancelled, attempt, token, open, result, woke,
                 version, generation, applied>>

\* Somebody else changes the resource.
Elsewhere ==
  /\ version < MaxVersion
  /\ version' = version + 1
  /\ UNCHANGED <<client, wire, generation, applied>>

\* The token source starts to hand out a new token, the old one expires.
Rotate ==
  /\ generation < MaxGeneration
  /\ generation' = generation + 1
  /\ UNCHANGED <<client, wire, version, applied>>

-----------------------------------------------------------------------------
Step(c) ==
  \/ NewHTTPRequest(c) \/ Send(c) \/ TransportError(c) \/ Receive(c)
  \/ SleepEnds(c) \/ SleepCancelled(c) \/ Decode(c)

Serve == \E m \in wire : Apply(m) \/ Decline(m) \/ Read(m)

Next ==
  \/ \E c \in Callers : Step(c) \/ Cancel(c) \/ \E r \in Request : Do(c, r)
  \/ Serve
  \/ Elsewhere
  \/ Rotate

Spec == Init /\ [][Next]_vars

\* Mutant: the request is built without the caller's context.
PromptDeaf(c) == Step(c) /\ (pc[c] # "wait" \/ reply[c] # NoReply)

\* The goroutine of a call runs on: the token source and a read of the body
\* return, timers fire.  A wait ends when an answer is there or the context is
\* done.  Nothing is asked of the service.
Prompt(c) == Step(c) /\ (pc[c] # "wait" \/ reply[c] # NoReply \/ cancelled[c])
FairSpec == Spec /\ \A c \in Callers : WF_vars(Prompt(c))

\* http.Client.Timeout ends a wait too (client.go:225), unless the client was
\* given another http.Client without one.
TimeoutFires == \A c \in Callers : WF_vars(Step(c))

-----------------------------------------------------------------------------
Labels == {"idle", "prepare", "send", "wait", "decode", "sleep", "returned"}
Replies == {NoReply, RedirectRefused} \cup {Status(s) : s \in Statuses}
Message == [caller : Callers, attempt : 0 .. MaxRetries, etag : 0 .. MaxVersion]

\* Every variable has the values its Go counterpart can have; attempt stays
\* within the retry budget.
TypeOK ==
  /\ pc \in [Callers -> Labels]
  /\ req \in [Callers -> Request]
  /\ cancelled \in [Callers -> BOOLEAN]
  /\ attempt \in [Callers -> 0 .. MaxRetries]
  /\ token \in [Callers -> 0 .. MaxGeneration]
  /\ reply \in [Callers -> Replies]
  /\ open \in [Callers -> BOOLEAN]
  /\ result \in [Callers -> [err : Errors, meta : BOOLEAN, status : Statuses \cup {0}]]
  /\ woke \in [Callers -> 0 .. MaxGeneration]
  /\ wire \subseteq Message
  /\ version \in 1 .. MaxVersion
  /\ generation \in 0 .. MaxGeneration
  /\ applied \in [Callers -> Nat]

Returned(c) == pc[c] = "returned"

\* "Graph mutations can have side effects before a transient response or
\* connection failure is observed" (client.go:129): unless the client was told
\* to retry mutations, a call has at most one effect, late requests included.
MutationAtMostOnce == \A c \in Callers : ~RetryUnsafe[c] => applied[c] <= 1

\* A conditional mutation is safe to retry: its own effect makes its ETag stale,
\* so it takes effect at most once also with unsafe retries, and of several
\* mutations conditional on the same version one takes effect (client.go:248).
\* It fails when an attempt goes out without its If-Match header.
NoLostUpdate ==
  \A c, d \in Callers :
    /\ Mutates(c) /\ req[c].etag # 0 /\ applied[c] > 0
    /\ Mutates(d) /\ req[d].etag = req[c].etag /\ applied[d] > 0
    => c = d /\ applied[c] = 1

\* A call that returned success, whatever became of the body it was decoded
\* from, did what it was asked to; with the default policy no request of it is
\* left that could do it again.
SuccessIsFinal ==
  \A c \in Callers : Returned(c) /\ Mutates(c) /\ Success(result[c].status) =>
    /\ applied[c] > 0
    /\ ~RetryUnsafe[c] => \A m \in wire : m.caller # c

\* A mutation that was turned down before it was sent, or by a definite answer
\* of the service, did nothing and never will; it takes the absence of retries
\* to be able to say so.
TurnedDown(r) == r.err \in {"body", "request", "token"} \/ r.status \in {401, 404, 412}
RejectionIsFinal ==
  \A c \in Callers : ~RetryUnsafe[c] /\ Returned(c) /\ Mutates(c) /\ TurnedDown(result[c]) =>
    applied[c] = 0 /\ \A m \in wire : m.caller # c

\* A token that expires while a call sleeps costs it nothing: a 401 is only
\* surfaced when the rotation happened during the last attempt.
ExpiredOnlyMeanwhile ==
  \A c \in Callers : result[c].status = 401 => woke[c] < generation

\* Nobody holds a response body across a sleep or beyond the call.
NoOpenBody == \A c \in Callers : pc[c] # "decode" => ~open[c]

\* "Redirect refusals ... are never retried, even when WithRetryUnsafeMethods(true)
\* is set" (README.md:94), while every other failure is: once the client took
\* the refusal for an answer, the call is over and says so.
RefusalIsFinal ==
  \A c \in Callers : reply[c] = RedirectRefused =>
    \/ pc[c] = "wait"
    \/ Returned(c) /\ result[c].err = "refused"

\* With a timeout every call returns, within its retries and whatever the
\* service does.
EveryCallReturns == TimeoutFires => \A c \in Callers : pc[c] = "prepare" ~> Returned(c)

\* A call whose context is cancelled returns even if no answer ever comes and
\* the HTTP client has no timeout.
CancelledCallReturns == \A c \in Callers : cancelled[c] ~> Returned(c)

=============================================================================
