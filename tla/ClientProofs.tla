---------------------------- MODULE ClientProofs ----------------------------
(***************************************************************************)
(* Client.Do for any number of callers, any retry budget and either retry  *)
(* policy: what its outcomes say about effects on the service, and that it *)
(* implements RequestContract.                                             *)
(***************************************************************************)
EXTENDS ClientContract, FiniteSetTheorems, TLAPS

-----------------------------------------------------------------------------
\* The inductive invariant, in named parts.
Quiet(c) == \A m \in wire : m.caller # c

\* Requests on the wire are those their callers sent, ETag included.
WireGenuine ==
  \A m \in wire : /\ m.attempt <= attempt[m.caller]
                  /\ m.etag = req[m.caller].etag

\* Nothing happened on behalf of a caller that has not begun.
FreshStart ==
  \A c \in Callers : pc[c] = "idle" =>
    attempt[c] = 0 /\ applied[c] = 0 /\ Quiet(c) /\ reply[c] = NoReply

\* A caller sleeps only when it may retry, so attempts are counted by retries.
Budgeted ==
  \A c \in Callers :
    /\ pc[c] = "sleep" => attempt[c] < MaxRetries /\ CanRetryMethod(c, req[c].method)
    /\ attempt[c] > 0 => CanRetryMethod(c, req[c].method)

\* What Do returned agrees with the answer it was made from.
ResultGenuine ==
  \A c \in Callers :
    /\ ~Returned(c) => result[c] = Pending
    /\ pc[c] = "decode" => reply[c].kind = "response"
    /\ Returned(c) => result[c].status \in {0, reply[c].status}

\* A mutation the client may not retry is a single request: until that request
\* is served nothing has happened, and once it was nothing is left to happen.
OneShot ==
  \A c \in Callers : ~RetryUnsafe[c] /\ Mutates(c) =>
    /\ pc[c] \in {"prepare", "send"} => applied[c] = 0 /\ Quiet(c) /\ reply[c] = NoReply
    /\ ~Quiet(c) => applied[c] = 0 /\ reply[c] = NoReply
    /\ applied[c] <= 1

\* A definite refusal left no trace, an answer of success is backed by an effect.
AnswerHonest ==
  \A c \in Callers : Mutates(c) =>
    /\ ~RetryUnsafe[c] /\ reply[c].status \in {401, 404, 412} => applied[c] = 0
    /\ Success(reply[c].status) => applied[c] > 0

\* A request refused before it was sent left no trace either.
UnsentHonest ==
  \A c \in Callers :
    ~RetryUnsafe[c] /\ Mutates(c) /\ Returned(c) /\ result[c].err \in {"body", "request", "token"} =>
      applied[c] = 0 /\ Quiet(c)

\* The version has moved past every ETag a mutation took effect under.
EtagSpent ==
  \A c \in Callers : Mutates(c) /\ req[c].etag # 0 /\ applied[c] > 0 =>
    version > req[c].etag /\ applied[c] = 1

\* A read has no effect.
Reads == \A c \in Callers : ~Mutates(c) => applied[c] = 0

\* A 401 answers a token that was current when the attempt began.
TokenFresh ==
  \A c \in Callers :
    /\ woke[c] <= generation
    /\ pc[c] \in {"send", "wait"} => woke[c] <= token[c]
    /\ reply[c].status = 401 => woke[c] < generation /\ pc[c] \in {"wait", "decode", "returned"}

Control == WireGenuine /\ FreshStart /\ Budgeted /\ ResultGenuine /\ RefusalIsFinal /\ NoOpenBody
Effects == OneShot /\ AnswerHonest /\ UnsentHonest
Versions == Reads /\ EtagSpent /\ NoLostUpdate
Inv == TypeOK /\ Control /\ Effects /\ Versions /\ TokenFresh

-----------------------------------------------------------------------------
LEMMA InitType == Init => TypeOK
BY ClientAssumption DEF Init, TypeOK, Request, Labels, Replies, Message, Errors, Pending, Outcome

\* The two ways a step of Do moves on keep the types of pc and result.
LEMMA GotoType ==
  ASSUME TypeOK, NEW c \in Callers, NEW label \in Labels, Goto(c, label)
  PROVE  pc' \in [Callers -> Labels]
BY DEF TypeOK, Goto

LEMMA ReturnType ==
  ASSUME TypeOK, NEW c \in Callers, NEW err \in Errors, NEW meta \in BOOLEAN,
         NEW status \in Statuses \cup {0}, Return(c, err, meta, status)
  PROVE  /\ pc' \in [Callers -> Labels]
         /\ result' \in [Callers -> [err : Errors, meta : BOOLEAN, status : Statuses \cup {0}]]
BY DEF TypeOK, Return, Goto, Outcome, Labels

\* decodeResponse returns one of its errors whatever it is given.
LEMMA DecodeErrorType ==
  ASSUME NEW status, NEW out \in Outs, NEW body
  PROVE  DecodeError(status, out, body) \in Errors
<1>1. CASE status = 304
  BY <1>1 DEF DecodeError, Errors
<1>2. CASE status # 304 /\ ~Success(status)
  BY <1>2 DEF DecodeError, Errors
<1>3. CASE status # 304 /\ Success(status)
  BY <1>3 DEF DecodeError, Errors, Outs
<1> QED BY <1>1, <1>2, <1>3

\* None of them is the error of a request that was not sent.
LEMMA DecodeErrorNotUnsent ==
  ASSUME NEW status, NEW out \in Outs, NEW body
  PROVE  DecodeError(status, out, body) \notin {"body", "request", "token"}
<1>1. CASE status = 304
  BY <1>1 DEF DecodeError
<1>2. CASE status # 304 /\ ~Success(status)
  BY <1>2 DEF DecodeError
<1>3. CASE status # 304 /\ Success(status)
  BY <1>3 DEF DecodeError, Outs
<1> QED BY <1>1, <1>2, <1>3

\* Attempts stay within the budget because a caller that may not retry, or not
\* any more, does not sleep.
LEMMA TypeStep == TypeOK /\ Budgeted /\ [Next]_vars => TypeOK'
<1> SUFFICES ASSUME TypeOK, Budgeted, [Next]_vars PROVE TypeOK'
  OBVIOUS
<1> USE ClientAssumption
<1>1. ASSUME NEW c \in Callers, NEW r \in Request, Do(c, r) PROVE TypeOK'
  <2>1. /\ pc' \in [Callers -> Labels]
        /\ result' \in [Callers -> [err : Errors, meta : BOOLEAN, status : Statuses \cup {0}]]
    <3>1. CASE Return(c, "body", FALSE, 0)
      BY <3>1, ReturnType DEF Errors
    <3>2. CASE Goto(c, "prepare") /\ UNCHANGED result
      BY <3>2, GotoType DEF Labels, TypeOK
    <3> QED BY <1>1, <3>1, <3>2 DEF Do
  <2> QED BY <1>1, <2>1 DEF Do, TypeOK, service
<1>2. ASSUME NEW c \in Callers, NewHTTPRequest(c) PROVE TypeOK'
  <2>1. /\ pc' \in [Callers -> Labels]
        /\ result' \in [Callers -> [err : Errors, meta : BOOLEAN, status : Statuses \cup {0}]]
        /\ token' \in [Callers -> 0 .. MaxGeneration]
    <3>1. CASE Return(c, "request", FALSE, 0) /\ UNCHANGED token
      BY <3>1, ReturnType DEF Errors, TypeOK
    <3>2. CASE Return(c, "token", FALSE, 0) /\ UNCHANGED token
      BY <3>2, ReturnType DEF Errors, TypeOK
    <3>3. CASE /\ token' = [token EXCEPT ![c] = generation]
               /\ Goto(c, "send") /\ UNCHANGED result
      BY <3>3, GotoType DEF Labels, TypeOK
    <3> QED BY <1>2, <3>1, <3>2, <3>3 DEF NewHTTPRequest, TokenFor
  <2> QED BY <1>2, <2>1 DEF NewHTTPRequest, TokenFor, TypeOK, service
<1>3. ASSUME NEW c \in Callers, Send(c) PROVE TypeOK'
  <2>1. [caller |-> c, attempt |-> attempt[c], etag |-> req[c].etag] \in Message
    BY DEF Message, Request, TypeOK
  <2>2. pc' \in [Callers -> Labels]
    BY <1>3, GotoType DEF Send, Condition, Labels
  <2>3. wire' \subseteq Message
    BY <1>3, <2>1 DEF Send, Condition, TypeOK
  <2>4. reply' \in [Callers -> Replies]
    BY <1>3 DEF Send, Condition, TypeOK, Replies
  <2> QED BY <1>3, <2>2, <2>3, <2>4 DEF Send, Condition, TypeOK
<1>4. ASSUME NEW c \in Callers, TransportError(c) PROVE TypeOK'
  <2>1. /\ pc' \in [Callers -> Labels]
        /\ result' \in [Callers -> [err : Errors, meta : BOOLEAN, status : Statuses \cup {0}]]
    <3>1. CASE Return(c, "transport", FALSE, 0)
      BY <3>1, ReturnType DEF Errors
    <3>2. CASE Goto(c, "sleep") /\ UNCHANGED result
      BY <3>2, GotoType DEF Labels, TypeOK
    <3> QED BY <1>4, <3>1, <3>2 DEF TransportError, Retries
  <2> QED BY <1>4, <2>1 DEF TransportError, Retries, Replies, TypeOK, service
<1>5. ASSUME NEW c \in Callers, Receive(c) PROVE TypeOK'
  <2>1. /\ pc' \in [Callers -> Labels]
        /\ result' \in [Callers -> [err : Errors, meta : BOOLEAN, status : Statuses \cup {0}]]
        /\ open' \in [Callers -> BOOLEAN]
    <3>1. CASE Return(c, "refused", FALSE, 0) /\ UNCHANGED open
      BY <3>1, ReturnType DEF Errors, TypeOK
    <3>2. CASE Goto(c, "sleep") /\ UNCHANGED <<open, result>>
      BY <3>2, GotoType DEF Labels, TypeOK
    <3>3. CASE Goto(c, "decode") /\ open' = [open EXCEPT ![c] = TRUE] /\ UNCHANGED result
      BY <3>3, GotoType DEF Labels, TypeOK
    <3>4. \/ Return(c, "refused", FALSE, 0) /\ UNCHANGED open
          \/ Goto(c, "sleep") /\ UNCHANGED <<open, result>>
          \/ Goto(c, "decode") /\ open' = [open EXCEPT ![c] = TRUE] /\ UNCHANGED result
      BY <1>5, ZenonT(30) DEF Receive, DrainAndClose, RefusalEnds
    <3> QED BY <3>1, <3>2, <3>3, <3>4
  <2>2. UNCHANGED <<req, cancelled, attempt, token, reply, woke, service>>
    BY <1>5 DEF Receive, Retried, DrainAndClose, RefusalEnds, Retries
  <2>3. /\ req' \in [Callers -> Request] /\ cancelled' \in [Callers -> BOOLEAN]
        /\ attempt' \in [Callers -> 0 .. MaxRetries] /\ token' \in [Callers -> 0 .. MaxGeneration]
        /\ reply' \in [Callers -> Replies] /\ woke' \in [Callers -> 0 .. MaxGeneration]
    BY <2>2 DEF TypeOK
  <2>4. /\ wire' \subseteq Message /\ version' \in 1 .. MaxVersion
        /\ generation' \in 0 .. MaxGeneration /\ applied' \in [Callers -> Nat]
    BY <2>2 DEF TypeOK, service
  <2> QED BY <2>1, <2>3, <2>4 DEF TypeOK, Replies, Message
<1>6. ASSUME NEW c \in Callers, SleepEnds(c) PROVE TypeOK'
  <2>1. pc' \in [Callers -> Labels]
    BY <1>6, GotoType DEF SleepEnds, Counted, Labels
  <2>2. attempt[c] + 1 \in 0 .. MaxRetries
    BY <1>6 DEF SleepEnds, Counted, Budgeted, TypeOK
  <2>3. attempt' \in [Callers -> 0 .. MaxRetries]
    BY <1>6, <2>2 DEF SleepEnds, Counted, TypeOK
  <2>4. woke' \in [Callers -> 0 .. MaxGeneration]
    BY <1>6 DEF SleepEnds, Counted, TypeOK
  <2> QED BY <1>6, <2>1, <2>3, <2>4 DEF SleepEnds, Counted, TypeOK, service
<1>7. ASSUME NEW c \in Callers, SleepCancelled(c) PROVE TypeOK'
  <2>1. /\ pc' \in [Callers -> Labels]
        /\ result' \in [Callers -> [err : Errors, meta : BOOLEAN, status : Statuses \cup {0}]]
    <3>1. Return(c, "context", FALSE, 0)
      BY <1>7 DEF SleepCancelled
    <3> QED BY <3>1, ReturnType DEF Errors
  <2> QED BY <1>7, <2>1 DEF SleepCancelled, TypeOK, service
<1>8. ASSUME NEW c \in Callers, Decode(c) PROVE TypeOK'
  <2>1. reply[c].status \in Statuses \cup {0}
    BY DEF TypeOK, Replies, NoReply, RedirectRefused, Status
  <2>2. PICK out \in Outs, body \in Bodies :
          Return(c, DecodeError(reply[c].status, out, body),
                 HasMeta(DecodeError(reply[c].status, out, body)), reply[c].status)
    BY <1>8 DEF Decode
  <2>3. /\ pc' \in [Callers -> Labels]
        /\ result' \in [Callers -> [err : Errors, meta : BOOLEAN, status : Statuses \cup {0}]]
    <3> DEFINE err == DecodeError(reply[c].status, out, body)
    <3>1. err \in Errors
      BY DecodeErrorType
    <3>2. HasMeta(err) \in BOOLEAN
      BY DEF HasMeta
    <3> HIDE DEF err
    <3>3. Return(c, err, HasMeta(err), reply[c].status)
      BY <2>2 DEF err
    <3> QED BY <2>1, <3>1, <3>2, <3>3, ReturnType
  <2> QED BY <1>8, <2>3 DEF Decode, TypeOK, service
<1>9. ASSUME NEW c \in Callers, Cancel(c) PROVE TypeOK'
  BY <1>9 DEF Cancel, TypeOK, service
<1>10. ASSUME NEW m \in wire, NEW r \in Replies, Answer(m, r)
       PROVE  wire' \subseteq Message /\ reply' \in [Callers -> Replies]
  BY <1>10 DEF Answer, TypeOK
<1>11. ASSUME NEW m \in wire, Apply(m) PROVE TypeOK'
  <2>1. PICK r \in {Status(200)} \cup Transient : Answer(m, r)
    BY <1>11 DEF Apply
  <2>2. r \in Replies
    BY <2>1 DEF Transient, Replies
  <2> QED BY <1>10, <1>11, <2>1, <2>2 DEF Apply, TypeOK, Message
<1>12. ASSUME NEW m \in wire, Decline(m) PROVE TypeOK'
  <2>1. PICK r \in Failures(m) \cup (IF m.etag \in {0, version} THEN {} ELSE {Status(412)}) :
          Answer(m, r)
    BY <1>12 DEF Decline
  <2>2. r \in Replies
    BY <2>1 DEF Failures, Transient, Replies
  <2> QED BY <1>10, <1>12, <2>1, <2>2 DEF Decline, TypeOK
<1>13. ASSUME NEW m \in wire, Read(m) PROVE TypeOK'
  <2>1. PICK r \in Failures(m) \cup {IF m.etag = version THEN Status(304) ELSE Status(200)} :
          Answer(m, r)
    BY <1>13 DEF Read
  <2>2. r \in Replies
    BY <2>1 DEF Failures, Transient, Replies
  <2> QED BY <1>10, <1>13, <2>1, <2>2 DEF Read, TypeOK
<1>14. ASSUME Elsewhere \/ Rotate PROVE TypeOK'
  BY <1>14 DEF Elsewhere, Rotate, client, TypeOK
<1>15. CASE UNCHANGED vars
  BY <1>15 DEF vars, TypeOK
<1> QED BY <1>1, <1>2, <1>3, <1>4, <1>5, <1>6, <1>7, <1>8, <1>9, <1>11, <1>12, <1>13, <1>14, <1>15
       DEF Next, Step, Serve

LEMMA StepInv == Inv /\ [Next]_vars => Inv'
<1> SUFFICES ASSUME Inv, [Next]_vars PROVE Inv'
  OBVIOUS
<1> USE ClientAssumption DEF Quiet, Mutates, Returned, Pending, Outcome, Status, NoReply,
        RedirectRefused, Success, RetryableStatus, CanRetryMethod
<1>0. TypeOK /\ TypeOK' /\ Control /\ Effects /\ Versions /\ TokenFresh
  BY TypeStep DEF Inv, Control
\* A call begins.
<1>1. ASSUME NEW c \in Callers, NEW r \in Request, Do(c, r) PROVE Inv'
  <2>1. Control'
    <3>1. WireGenuine'
      BY <1>0, <1>1 DEF Do, Goto, Return, service, Control, WireGenuine,
         FreshStart,
         TypeOK, Message, Request, Replies
    <3>2. FreshStart'
      BY <1>0, <1>1 DEF Do, Goto, Return, service, Control, FreshStart,
         FreshStart,
         TypeOK, Message, Request, Replies
    <3>3. Budgeted'
      BY <1>0, <1>1 DEF Do, Goto, Return, service, Control, Budgeted,
         FreshStart,
         TypeOK, Message, Request, Replies
    <3>4. ResultGenuine'
      BY <1>0, <1>1 DEF Do, Goto, Return, service, Control, ResultGenuine,
         RefusalIsFinal,
         TypeOK, Message, Request, Replies
    <3>5. RefusalIsFinal'
      BY <1>0, <1>1 DEF Do, Goto, Return, service, Control, RefusalIsFinal,
         FreshStart, ResultGenuine,
         TypeOK, Message, Request, Replies
    <3>6. NoOpenBody'
      BY <1>0, <1>1 DEF Do, Goto, Return, service, Control, NoOpenBody,
         FreshStart,
         TypeOK, Message, Request, Replies
    <3> QED BY <3>1, <3>2, <3>3, <3>4, <3>5, <3>6 DEF Control
  <2>2. Effects'
    BY <1>0, <1>1, <2>1 DEF Do, Goto, Return, service,
       Effects, OneShot, AnswerHonest, UnsentHonest,
       Control, WireGenuine, FreshStart, Budgeted, ResultGenuine, RefusalIsFinal, NoOpenBody, Reads, Versions,
       TypeOK, Message, Request, Replies
  <2>3. Versions'
    BY <1>0, <1>1 DEF Do, Goto, Return, service,
       Versions, Reads, EtagSpent, NoLostUpdate, Control, WireGenuine, FreshStart,
       TypeOK, Message, Request, Replies
  <2>4. TokenFresh'
    BY <1>0, <1>1 DEF Do, Goto, Return, service, TokenFresh, Control, FreshStart,
       TypeOK, Message, Request, Replies
  <2> QED BY <1>0, <2>1, <2>2, <2>3, <2>4 DEF Inv
\* An attempt is built, or refused, or gets no token.
<1>2. ASSUME NEW c \in Callers, NewHTTPRequest(c) PROVE Inv'
  <2>1. Control'
    <3>1. WireGenuine'
      BY <1>0, <1>2 DEF NewHTTPRequest, TokenFor, Goto, Return, service, Control, WireGenuine,
         FreshStart,
         TypeOK, Message, Request, Replies
    <3>2. FreshStart'
      BY <1>0, <1>2 DEF NewHTTPRequest, TokenFor, Goto, Return, service, Control, FreshStart,
         FreshStart,
         TypeOK, Message, Request, Replies
    <3>3. Budgeted'
      BY <1>0, <1>2 DEF NewHTTPRequest, TokenFor, Goto, Return, service, Control, Budgeted,
         FreshStart,
         TypeOK, Message, Request, Replies
    <3>4. ResultGenuine'
      BY <1>0, <1>2 DEF NewHTTPRequest, TokenFor, Goto, Return, service, Control, ResultGenuine,
         RefusalIsFinal,
         TypeOK, Message, Request, Replies
    <3>5. RefusalIsFinal'
      BY <1>0, <1>2 DEF NewHTTPRequest, TokenFor, Goto, Return, service, Control, RefusalIsFinal,
         FreshStart, ResultGenuine,
         TypeOK, Message, Request, Replies
    <3>6. NoOpenBody'
      BY <1>0, <1>2 DEF NewHTTPRequest, TokenFor, Goto, Return, service, Control, NoOpenBody,
         FreshStart,
         TypeOK, Message, Request, Replies
    <3> QED BY <3>1, <3>2, <3>3, <3>4, <3>5, <3>6 DEF Control
  <2>2. Effects'
    <3>1. OneShot'
      BY <1>0, <1>2 DEF NewHTTPRequest, TokenFor, Goto, Return, service, Control, OneShot,
         FreshStart, WireGenuine, Budgeted, Effects,
         TypeOK, Message, Request, Replies
    <3>2. AnswerHonest'
      BY <1>0, <1>2 DEF NewHTTPRequest, TokenFor, Goto, Return, service, Control, AnswerHonest,
         FreshStart, OneShot, Effects, Versions, Reads,
         TypeOK, Message, Request, Replies
    <3>3. UnsentHonest'
      BY <1>0, <1>2 DEF NewHTTPRequest, TokenFor, Goto, Return, service, Control, UnsentHonest,
         FreshStart, OneShot, Effects, WireGenuine, ResultGenuine,
         TypeOK, Message, Request, Replies
    <3> QED BY <3>1, <3>2, <3>3 DEF Effects
  <2>3. Versions'
    BY <1>0, <1>2 DEF NewHTTPRequest, TokenFor, Goto, Return, service,
       Versions, Reads, EtagSpent, NoLostUpdate, Control, WireGenuine, FreshStart,
       TypeOK, Message, Request, Replies
  <2>4. TokenFresh'
    <3> SUFFICES ASSUME NEW d \in Callers
                 PROVE  /\ woke'[d] <= generation'
                        /\ pc'[d] \in {"send", "wait"} => woke'[d] <= token'[d]
                        /\ reply'[d].status = 401 =>
                             woke'[d] < generation' /\ pc'[d] \in {"wait", "decode", "returned"}
      BY DEF TokenFresh
    <3>1. UNCHANGED <<woke, generation, reply>> /\ pc[c] = "prepare"
      BY <1>2 DEF NewHTTPRequest, TokenFor, service
    <3>2. \/ token' = [token EXCEPT ![c] = generation]
          \/ UNCHANGED token /\ pc'[c] = "returned"
      BY <1>0, <1>2 DEF NewHTTPRequest, TokenFor, Return, Goto, TypeOK
    <3>3. d # c => pc'[d] = pc[d]
      BY <1>0, <1>2 DEF NewHTTPRequest, TokenFor, Return, Goto, TypeOK
    <3> QED BY <1>0, <3>1, <3>2, <3>3 DEF TokenFresh, TypeOK
  <2> QED BY <1>0, <2>1, <2>2, <2>3, <2>4 DEF Inv
\* It goes out: the wire gains a request that nothing else is left of.
<1>3. ASSUME NEW c \in Callers, Send(c) PROVE Inv'
  <2>1. Control'
    BY <1>0, <1>3 DEF Send, Condition, Goto,
       Control, WireGenuine, FreshStart, Budgeted, ResultGenuine, RefusalIsFinal, NoOpenBody,
       TypeOK, Message, Request, Replies
  <2>2. Effects'
    BY <1>0, <1>3, <2>1 DEF Send, Condition, Goto,
       Effects, OneShot, AnswerHonest, UnsentHonest,
       Control, WireGenuine, FreshStart, Budgeted, ResultGenuine, RefusalIsFinal, NoOpenBody, Reads, Versions,
       TypeOK, Message, Request, Replies
  <2>3. Versions'
    BY <1>0, <1>3 DEF Send, Condition, Goto,
       Versions, Reads, EtagSpent, NoLostUpdate, Control, WireGenuine, FreshStart,
       TypeOK, Message, Request, Replies
  <2>4. TokenFresh'
    BY <1>0, <1>3 DEF Send, Condition, Goto, TokenFresh, Control, FreshStart,
       TypeOK, Message, Request, Replies
  <2> QED BY <1>0, <2>1, <2>2, <2>3, <2>4 DEF Inv
\* It fails without an answer.
<1>4. ASSUME NEW c \in Callers, TransportError(c) PROVE Inv'
  <2>1. Control'
    BY <1>0, <1>4 DEF TransportError, Retries, Goto, Return, service,
       Control, WireGenuine, FreshStart, Budgeted, ResultGenuine, RefusalIsFinal, NoOpenBody,
       TypeOK, Message, Request, Replies
  <2>2. Effects'
    <3>1. OneShot'
      BY <1>0, <1>4 DEF TransportError, Retries, Goto, Return, service, Control, OneShot,
         Budgeted, Effects, TypeOK, Request, Replies
    <3>2. AnswerHonest'
      BY <1>0, <1>4 DEF TransportError, Retries, Goto, Return, service, AnswerHonest, Effects,
         TypeOK, Request, Replies
    <3>3. UnsentHonest'
      BY <1>0, <1>4 DEF TransportError, Retries, Goto, Return, service, Control, UnsentHonest,
         Effects, ResultGenuine, TypeOK, Request, Replies
    <3> QED BY <3>1, <3>2, <3>3 DEF Effects
  <2>3. Versions'
    BY <1>0, <1>4 DEF TransportError, Retries, Goto, Return, service,
       Versions, Reads, EtagSpent, NoLostUpdate, Control, WireGenuine, FreshStart,
       TypeOK, Message, Request, Replies
  <2>4. TokenFresh'
    BY <1>0, <1>4 DEF TransportError, Retries, Goto, Return, service, TokenFresh, Control, FreshStart,
       TypeOK, Message, Request, Replies
  <2> QED BY <1>0, <2>1, <2>2, <2>3, <2>4 DEF Inv
\* An answer is taken.
<1>5. ASSUME NEW c \in Callers, Receive(c) PROVE Inv'
  <2>1. Control'
    <3>1. WireGenuine'
      BY <1>0, <1>5 DEF Receive, Retried, DrainAndClose, RefusalEnds, Retries,
         Goto, Return, service, Control, WireGenuine,
         FreshStart,
         TypeOK, Message, Request, Replies
    <3>2. FreshStart'
      BY <1>0, <1>5 DEF Receive, Retried, DrainAndClose, RefusalEnds, Retries,
         Goto, Return, service, Control, FreshStart,
         FreshStart,
         TypeOK, Message, Request, Replies
    <3>3. Budgeted'
      BY <1>0, <1>5 DEF Receive, Retried, DrainAndClose, RefusalEnds, Retries,
         Goto, Return, service, Control, Budgeted,
         FreshStart,
         TypeOK, Message, Request, Replies
    <3>4. ResultGenuine'
      BY <1>0, <1>5 DEF Receive, Retried, DrainAndClose, RefusalEnds, Retries,
         Goto, Return, service, Control, ResultGenuine,
         RefusalIsFinal,
         TypeOK, Message, Request, Replies
    <3>5. RefusalIsFinal'
      <4> SUFFICES ASSUME NEW d \in Callers, reply'[d] = RedirectRefused
                   PROVE  pc'[d] = "wait" \/ (pc'[d] = "returned" /\ result'[d].err = "refused")
        BY DEF RefusalIsFinal
      <4>1. reply'[d] = reply[d]
        BY <1>5 DEF Receive
      <4>2. CASE d = c
        <5>0. reply[c].kind = "refused"
          BY <4>1, <4>2
        <5>1. Return(c, "refused", FALSE, 0)
          BY <1>5, <5>0 DEF Receive, RefusalEnds
        <5> QED BY <1>0, <5>1, <4>2 DEF Return, Goto, TypeOK
      <4>3. CASE d # c
        <5>1. pc'[d] = pc[d] /\ result'[d] = result[d]
          <6>1. \E label : Goto(c, label)
            BY <1>5 DEF Receive, RefusalEnds, Return
          <6>2. UNCHANGED result \/ Return(c, "refused", FALSE, 0)
            BY <1>5 DEF Receive, RefusalEnds
          <6> QED BY <1>0, <6>1, <6>2, <4>3 DEF Return, Goto, TypeOK
        <5> QED BY <1>0, <4>1, <5>1 DEF Control, RefusalIsFinal
      <4> QED BY <4>2, <4>3
    <3>6. NoOpenBody'
      BY <1>0, <1>5 DEF Receive, Retried, DrainAndClose, RefusalEnds, Retries,
         Goto, Return, service, Control, NoOpenBody,
         FreshStart,
         TypeOK, Message, Request, Replies
    <3> QED BY <3>1, <3>2, <3>3, <3>4, <3>5, <3>6 DEF Control
  <2>2. Effects'
    BY <1>0, <1>5, <2>1 DEF Receive, Retried, DrainAndClose, RefusalEnds, Retries,
       Goto, Return, service,
       Effects, OneShot, AnswerHonest, UnsentHonest,
       Control, WireGenuine, FreshStart, Budgeted, ResultGenuine, RefusalIsFinal, NoOpenBody, Reads, Versions,
       TypeOK, Message, Request, Replies
  <2>3. Versions'
    BY <1>0, <1>5 DEF Receive, Retried, DrainAndClose, RefusalEnds, Retries, Goto, Return, service,
       Versions, Reads, EtagSpent, NoLostUpdate, Control, WireGenuine, FreshStart,
       TypeOK, Message, Request, Replies
  <2>4. TokenFresh'
    <3> SUFFICES ASSUME NEW d \in Callers
                 PROVE  /\ woke'[d] <= generation'
                        /\ pc'[d] \in {"send", "wait"} => woke'[d] <= token'[d]
                        /\ reply'[d].status = 401 =>
                             woke'[d] < generation' /\ pc'[d] \in {"wait", "decode", "returned"}
      BY DEF TokenFresh
    <3>1. UNCHANGED <<woke, generation, reply, token>>
      BY <1>5 DEF Receive, Retried, DrainAndClose, RefusalEnds, Retries, service
    <3>2. \/ pc'[c] \in {"decode", "returned"}
          \/ RetryableStatus(reply[c].status) /\ pc'[c] = "sleep"
      BY <1>0, <1>5 DEF Receive, Retried, DrainAndClose, RefusalEnds, Retries, Return, Goto, TypeOK
    <3>3. d # c => pc'[d] = pc[d]
      BY <1>0, <1>5 DEF Receive, Retried, DrainAndClose, RefusalEnds, Retries, Return, Goto, TypeOK
    <3> QED BY <1>0, <3>1, <3>2, <3>3 DEF TokenFresh, TypeOK
  <2> QED BY <1>0, <2>1, <2>2, <2>3, <2>4 DEF Inv
\* The next attempt.
<1>6. ASSUME NEW c \in Callers, SleepEnds(c) PROVE Inv'
  <2>1. Control'
    BY <1>0, <1>6 DEF SleepEnds, Counted, Goto, service,
       Control, WireGenuine, FreshStart, Budgeted, ResultGenuine, RefusalIsFinal, NoOpenBody,
       TypeOK, Message, Request, Replies
  <2>2. Effects'
    BY <1>0, <1>6, <2>1 DEF SleepEnds, Counted, Goto, service,
       Effects, OneShot, AnswerHonest, UnsentHonest,
       Control, WireGenuine, FreshStart, Budgeted, ResultGenuine, RefusalIsFinal, NoOpenBody, Reads, Versions,
       TypeOK, Message, Request, Replies
  <2>3. Versions'
    BY <1>0, <1>6 DEF SleepEnds, Counted, Goto, service,
       Versions, Reads, EtagSpent, NoLostUpdate, Control, WireGenuine, FreshStart,
       TypeOK, Message, Request, Replies
  <2>4. TokenFresh'
    BY <1>0, <1>6 DEF SleepEnds, Counted, Goto, service, TokenFresh, Control, FreshStart,
       TypeOK, Message, Request, Replies
  <2> QED BY <1>0, <2>1, <2>2, <2>3, <2>4 DEF Inv
\* The context ends the call.
<1>7. ASSUME NEW c \in Callers, SleepCancelled(c) PROVE Inv'
  <2>1. Control'
    BY <1>0, <1>7 DEF SleepCancelled, Goto, Return, service,
       Control, WireGenuine, FreshStart, Budgeted, ResultGenuine, RefusalIsFinal, NoOpenBody,
       TypeOK, Message, Request, Replies
  <2>2. Effects'
    BY <1>0, <1>7, <2>1 DEF SleepCancelled, Goto, Return, service,
       Effects, OneShot, AnswerHonest, UnsentHonest,
       Control, WireGenuine, FreshStart, Budgeted, ResultGenuine, RefusalIsFinal, NoOpenBody, Reads, Versions,
       TypeOK, Message, Request, Replies
  <2>3. Versions'
    BY <1>0, <1>7 DEF SleepCancelled, Goto, Return, service,
       Versions, Reads, EtagSpent, NoLostUpdate, Control, WireGenuine, FreshStart,
       TypeOK, Message, Request, Replies
  <2>4. TokenFresh'
    BY <1>0, <1>7 DEF SleepCancelled, Goto, Return, service, TokenFresh, Control, FreshStart,
       TypeOK, Message, Request, Replies
  <2> QED BY <1>0, <2>1, <2>2, <2>3, <2>4 DEF Inv
\* The response is decoded.
<1>8. ASSUME NEW c \in Callers, Decode(c) PROVE Inv'
  <2>1. Control'
    BY <1>0, <1>8 DEF Decode, Goto, Return, service,
       Control, WireGenuine, FreshStart, Budgeted, ResultGenuine, RefusalIsFinal, NoOpenBody,
       TypeOK, Message, Request, Replies
  <2>2. Effects'
    <3>0. \A out \in Outs : \A status, body :
            DecodeError(status, out, body) \notin {"body", "request", "token"}
      BY DecodeErrorNotUnsent
    <3>1. OneShot'
      BY <1>0, <1>8, <3>0 DEF Decode, Goto, Return, service, Control, OneShot,
         FreshStart, WireGenuine, Budgeted, Effects,
         TypeOK, Message, Request, Replies
    <3>2. AnswerHonest'
      BY <1>0, <1>8, <3>0 DEF Decode, Goto, Return, service, Control, AnswerHonest,
         FreshStart, OneShot, Effects, Versions, Reads,
         TypeOK, Message, Request, Replies
    <3>3. UnsentHonest'
      BY <1>0, <1>8, <3>0 DEF Decode, Goto, Return, service, Control, UnsentHonest,
         FreshStart, OneShot, Effects, WireGenuine, ResultGenuine,
         TypeOK, Message, Request, Replies
    <3> QED BY <3>1, <3>2, <3>3 DEF Effects
  <2>3. Versions'
    BY <1>0, <1>8 DEF Decode, Goto, Return, service,
       Versions, Reads, EtagSpent, NoLostUpdate, Control, WireGenuine, FreshStart,
       TypeOK, Message, Request, Replies
  <2>4. TokenFresh'
    BY <1>0, <1>8 DEF Decode, Goto, Return, service, TokenFresh, Control, FreshStart,
       TypeOK, Message, Request, Replies
  <2> QED BY <1>0, <2>1, <2>2, <2>3, <2>4 DEF Inv
\* The context is cancelled.
<1>9. ASSUME NEW c \in Callers, Cancel(c) PROVE Inv'
  <2>1. Control'
    BY <1>0, <1>9 DEF Cancel, service,
       Control, WireGenuine, FreshStart, Budgeted, ResultGenuine, RefusalIsFinal, NoOpenBody,
       TypeOK, Message, Request, Replies
  <2>2. Effects'
    BY <1>0, <1>9, <2>1 DEF Cancel, service,
       Effects, OneShot, AnswerHonest, UnsentHonest,
       Control, WireGenuine, FreshStart, Budgeted, ResultGenuine, RefusalIsFinal, NoOpenBody, Reads, Versions,
       TypeOK, Message, Request, Replies
  <2>3. Versions'
    BY <1>0, <1>9 DEF Cancel, service,
       Versions, Reads, EtagSpent, NoLostUpdate, Control, WireGenuine, FreshStart,
       TypeOK, Message, Request, Replies
  <2>4. TokenFresh'
    BY <1>0, <1>9 DEF Cancel, service, TokenFresh, Control, FreshStart,
       TypeOK, Message, Request, Replies
  <2> QED BY <1>0, <2>1, <2>2, <2>3, <2>4 DEF Inv
\* A mutation takes effect; if it may not be retried, no other request of the
\* call is on the wire.
<1>10. ASSUME NEW m \in wire, Apply(m) PROVE Inv'
  <2>1. Control'
    BY <1>0, <1>10 DEF Apply, Answer, Transient,
       Control, WireGenuine, FreshStart, Budgeted, ResultGenuine, RefusalIsFinal, NoOpenBody,
       TypeOK, Message, Request, Replies
  <2>2. Effects'
    <3>0. ASSUME ~RetryUnsafe[m.caller], NEW n \in wire, n.caller = m.caller, Mutates(m.caller)
          PROVE  n = m
      <4>1. attempt[m.caller] = 0
        BY <1>0, <3>0 DEF Control, Budgeted, TypeOK, Message
      <4>2. n \in Message /\ m \in Message
        BY <1>0 DEF TypeOK
      <4>3. n.attempt <= attempt[m.caller] /\ m.attempt <= attempt[m.caller] /\ n.etag = m.etag
        BY <1>0, <3>0 DEF Control, WireGenuine
      <4>4. n.attempt = m.attempt
        BY <4>1, <4>2, <4>3 DEF Message
      <4> QED BY <3>0, <4>2, <4>3, <4>4 DEF Message
    <3>1. OneShot'
      BY <1>0, <1>10, <3>0 DEF Apply, Answer, Transient, Control, OneShot,
         FreshStart, WireGenuine, Budgeted, Effects,
         TypeOK, Message, Request, Replies
    <3>2. AnswerHonest'
      BY <1>0, <1>10, <3>0 DEF Apply, Answer, Transient, Control, AnswerHonest,
         FreshStart, OneShot, Effects, Versions, Reads,
         TypeOK, Message, Request, Replies
    <3>3. UnsentHonest'
      BY <1>0, <1>10, <3>0 DEF Apply, Answer, Transient, Control, UnsentHonest,
         FreshStart, OneShot, Effects, WireGenuine, ResultGenuine,
         TypeOK, Message, Request, Replies
    <3> QED BY <3>1, <3>2, <3>3 DEF Effects
  <2>3. Versions'
    BY <1>0, <1>10 DEF Apply, Answer, Transient,
       Versions, Reads, EtagSpent, NoLostUpdate, Control, WireGenuine, FreshStart,
       TypeOK, Message, Request, Replies
  <2>4. TokenFresh'
    BY <1>0, <1>10 DEF Apply, Answer, Transient, TokenFresh, Control, FreshStart,
       TypeOK, Message, Request, Replies
  <2> QED BY <1>0, <2>1, <2>2, <2>3, <2>4 DEF Inv
\* A mutation is declined; the same argument shows that nothing is left to happen.
<1>11. ASSUME NEW m \in wire, Decline(m) PROVE Inv'
  <2>1. Control'
    BY <1>0, <1>11 DEF Decline, Answer, Failures, Transient,
       Control, WireGenuine, FreshStart, Budgeted, ResultGenuine, RefusalIsFinal, NoOpenBody,
       TypeOK, Message, Request, Replies
  <2>2. Effects'
    <3>0. ASSUME ~RetryUnsafe[m.caller], NEW n \in wire, n.caller = m.caller, Mutates(m.caller)
          PROVE  n = m
      <4>1. attempt[m.caller] = 0
        BY <1>0, <3>0 DEF Control, Budgeted, TypeOK, Message
      <4>2. n \in Message /\ m \in Message
        BY <1>0 DEF TypeOK
      <4>3. n.attempt <= attempt[m.caller] /\ m.attempt <= attempt[m.caller] /\ n.etag = m.etag
        BY <1>0, <3>0 DEF Control, WireGenuine
      <4>4. n.attempt = m.attempt
        BY <4>1, <4>2, <4>3 DEF Message
      <4> QED BY <3>0, <4>2, <4>3, <4>4 DEF Message
    <3>1. OneShot'
      BY <1>0, <1>11, <3>0 DEF Decline, Answer, Failures, Transient, Control, OneShot,
         FreshStart, WireGenuine, Budgeted, Effects,
         TypeOK, Message, Request, Replies
    <3>2. AnswerHonest'
      BY <1>0, <1>11, <3>0 DEF Decline, Answer, Failures, Transient, Control, AnswerHonest,
         FreshStart, OneShot, Effects, Versions, Reads,
         TypeOK, Message, Request, Replies
    <3>3. UnsentHonest'
      BY <1>0, <1>11, <3>0 DEF Decline, Answer, Failures, Transient, Control, UnsentHonest,
         FreshStart, OneShot, Effects, WireGenuine, ResultGenuine,
         TypeOK, Message, Request, Replies
    <3> QED BY <3>1, <3>2, <3>3 DEF Effects
  <2>3. Versions'
    BY <1>0, <1>11 DEF Decline, Answer, Failures, Transient,
       Versions, Reads, EtagSpent, NoLostUpdate, Control, WireGenuine, FreshStart,
       TypeOK, Message, Request, Replies
  <2>4. TokenFresh'
    BY <1>0, <1>11 DEF Decline, Answer, Failures, Transient, TokenFresh, Control, FreshStart,
       TypeOK, Message, Request, Replies
  <2> QED BY <1>0, <2>1, <2>2, <2>3, <2>4 DEF Inv
\* A read is answered.
<1>12. ASSUME NEW m \in wire, Read(m) PROVE Inv'
  <2>1. Control'
    BY <1>0, <1>12 DEF Read, Answer, Failures, Transient,
       Control, WireGenuine, FreshStart, Budgeted, ResultGenuine, RefusalIsFinal, NoOpenBody,
       TypeOK, Message, Request, Replies
  <2>2. Effects'
    <3>1. ~Mutates(m.caller) /\ m \in Message
      BY <1>0, <1>12 DEF Read, TypeOK
    <3>2. /\ UNCHANGED <<pc, req, attempt, result, applied>> /\ wire' = wire \ {m}
          /\ \A d \in Callers : d # m.caller => reply'[d] = reply[d]
      BY <1>0, <1>12 DEF Read, Answer, TypeOK
    <3>3. OneShot'
      BY <1>0, <3>1, <3>2 DEF Effects, OneShot
    <3>4. AnswerHonest'
      BY <1>0, <3>1, <3>2 DEF Effects, AnswerHonest
    <3>5. UnsentHonest'
      BY <1>0, <3>1, <3>2 DEF Effects, UnsentHonest
    <3> QED BY <3>3, <3>4, <3>5 DEF Effects
  <2>3. Versions'
    BY <1>0, <1>12 DEF Read, Answer, Failures, Transient,
       Versions, Reads, EtagSpent, NoLostUpdate, Control, WireGenuine, FreshStart,
       TypeOK, Message, Request, Replies
  <2>4. TokenFresh'
    BY <1>0, <1>12 DEF Read, Answer, Failures, Transient, TokenFresh, Control, FreshStart,
       TypeOK, Message, Request, Replies
  <2> QED BY <1>0, <2>1, <2>2, <2>3, <2>4 DEF Inv
\* Nothing of the calls changes.
<1>13. CASE Elsewhere \/ Rotate \/ UNCHANGED vars
  <2>0. UNCHANGED <<client, wire, applied>> /\ version' >= version /\ generation' >= generation
    <3>1. version \in Nat /\ generation \in Nat
      BY <1>0 DEF TypeOK
    <3>2. CASE Elsewhere
      BY <3>1, <3>2 DEF Elsewhere
    <3>3. CASE Rotate
      BY <3>1, <3>3 DEF Rotate
    <3>4. CASE UNCHANGED vars
      BY <3>1, <3>4 DEF vars, client, service
    <3> QED BY <1>13, <3>2, <3>3, <3>4
  <2>1. Control'
    BY <1>0, <2>0 DEF client, Control, WireGenuine, FreshStart, Budgeted, ResultGenuine,
       RefusalIsFinal, NoOpenBody
  <2>2. Effects'
    BY <1>0, <2>0 DEF client, Effects, OneShot, AnswerHonest, UnsentHonest
  <2>3. Versions'
    <3>1. Reads' /\ NoLostUpdate'
      BY <1>0, <2>0 DEF client, Versions, Reads, NoLostUpdate
    <3>2. EtagSpent'
      <4> SUFFICES ASSUME NEW c \in Callers, Mutates(c), req[c].etag # 0, applied[c] > 0
                   PROVE  version' > req[c].etag /\ applied[c] = 1
        BY <2>0 DEF client, EtagSpent
      <4>1. version > req[c].etag /\ applied[c] = 1
        BY <1>0 DEF Versions, EtagSpent
      <4>2. version \in Nat /\ version' \in Nat /\ req[c].etag \in Nat
        BY <1>0 DEF TypeOK, Request
      <4> QED BY <2>0, <4>1, <4>2
    <3> QED BY <3>1, <3>2 DEF Versions
  <2>4. TokenFresh'
    BY <1>0, <2>0 DEF client, TokenFresh, TypeOK
  <2> QED BY <1>0, <2>1, <2>2, <2>3, <2>4 DEF Inv
<1> QED BY <1>1, <1>2, <1>3, <1>4, <1>5, <1>6, <1>7, <1>8, <1>9, <1>10, <1>11, <1>12, <1>13 DEF Next, Step, Serve

LEMMA InitInv == Init => Inv
<1> SUFFICES ASSUME Init PROVE Inv
  OBVIOUS
<1>1. TypeOK
  BY InitType
<1>2. Control
  <2>1. WireGenuine /\ FreshStart /\ Budgeted /\ NoOpenBody
    BY ClientAssumption DEF Init, WireGenuine, FreshStart, Budgeted, NoOpenBody, Quiet
  <2>2. ResultGenuine /\ RefusalIsFinal
    BY DEF Init, ResultGenuine, RefusalIsFinal, Returned, Pending, RedirectRefused, NoReply
  <2> QED BY <2>1, <2>2 DEF Control
<1>3. Effects
  BY DEF Init, Effects, OneShot, AnswerHonest, UnsentHonest, Quiet, Success, NoReply, Returned
<1>4. Versions
  BY DEF Init, Versions, Reads, EtagSpent, NoLostUpdate
<1>5. TokenFresh
  <2>1. /\ woke = [c \in Callers |-> 0] /\ generation = 0
        /\ pc = [c \in Callers |-> "idle"] /\ reply = [c \in Callers |-> NoReply]
    BY Zenon DEF Init
  <2>2. NoReply.status = 0
    BY DEF NoReply
  <2>3. \A c \in Callers : woke[c] <= generation
    <3> SUFFICES ASSUME NEW c \in Callers PROVE woke[c] <= generation
      OBVIOUS
    <3>1. woke[c] = 0
      BY <2>1, Zenon
    <3> QED BY <2>1, <3>1
  <2>4. \A c \in Callers : pc[c] \notin {"send", "wait"}
    BY <2>1
  <2>5. \A c \in Callers : reply[c].status # 401
    <3> SUFFICES ASSUME NEW c \in Callers PROVE reply[c].status # 401
      OBVIOUS
    <3>1. reply[c] = NoReply
      BY <2>1, Zenon
    <3> QED BY <2>2, <3>1
  <2> QED BY <2>3, <2>4, <2>5, Zenon DEF TokenFresh
<1> QED BY <1>1, <1>2, <1>3, <1>4, <1>5 DEF Inv

\* Inv holds in every reachable state.
LEMMA Invariance == Spec => []Inv
<1> QED BY InitInv, StepInv, PTL DEF Spec

-----------------------------------------------------------------------------
\* Client keeps its types, the retry budget of an attempt included (client.go:310).
THEOREM TypeCorrect == Spec => []TypeOK
<1>1. Inv => TypeOK
  BY DEF Inv
<1> QED BY <1>1, Invariance, PTL

\* Without unsafe retries a mutation has at most one effect, however often the
\* network fails and however late a request is served (client.go:128).
THEOREM AtMostOnce == Spec => []MutationAtMostOnce
<1>1. Inv => MutationAtMostOnce
  BY DEF Inv, Effects, OneShot, Versions, Reads, MutationAtMostOnce
<1> QED BY <1>1, Invariance, PTL

\* If-Match makes a mutation safe to retry and serialises concurrent ones.
THEOREM ConditionalUpdates == Spec => []NoLostUpdate
<1>1. Inv => NoLostUpdate
  BY DEF Inv, Versions
<1> QED BY <1>1, Invariance, PTL

\* Success means that the mutation took effect and that nothing of it is left.
THEOREM SuccessHonest == Spec => []SuccessIsFinal
<1>1. Inv => SuccessIsFinal
  <2> SUFFICES ASSUME Inv, NEW c \in Callers, Returned(c), Mutates(c), Success(result[c].status)
               PROVE  /\ applied[c] > 0
                      /\ ~RetryUnsafe[c] => \A m \in wire : m.caller # c
    BY DEF SuccessIsFinal
  <2>1. result[c].status = reply[c].status /\ reply[c] # NoReply
    BY DEF Inv, Control, ResultGenuine, Success, NoReply
  <2> QED BY <2>1 DEF Inv, Effects, OneShot, AnswerHonest, Quiet
<1> QED BY <1>1, Invariance, PTL

\* A definite refusal means that the mutation did nothing and never will.
THEOREM RejectionHonest == Spec => []RejectionIsFinal
<1>1. Inv => RejectionIsFinal
  <2> SUFFICES ASSUME Inv, NEW c \in Callers, ~RetryUnsafe[c], Returned(c), Mutates(c),
                      TurnedDown(result[c])
               PROVE  applied[c] = 0 /\ \A m \in wire : m.caller # c
    BY DEF RejectionIsFinal
  <2>1. CASE result[c].err \in {"body", "request", "token"}
    BY <2>1 DEF Inv, Effects, UnsentHonest, Quiet
  <2>2. CASE result[c].status \in {401, 404, 412}
    <3>1. reply[c].status = result[c].status /\ reply[c] # NoReply
      BY <2>2 DEF Inv, Control, ResultGenuine, NoReply
    <3> QED BY <2>2, <3>1 DEF Inv, Effects, OneShot, AnswerHonest, Quiet
  <2> QED BY <2>1, <2>2 DEF TurnedDown
<1> QED BY <1>1, Invariance, PTL

\* A 401 is never the price of a token that expired before the attempt began.
THEOREM TokensAreFresh == Spec => []ExpiredOnlyMeanwhile
<1>1. Inv => ExpiredOnlyMeanwhile
  BY DEF Inv, Control, ResultGenuine, TokenFresh, ExpiredOnlyMeanwhile, Pending, Outcome
<1> QED BY <1>1, Invariance, PTL

\* A refused redirect is never retried (README.md:94).
THEOREM RefusalsAreFinal == Spec => []RefusalIsFinal
<1>1. Inv => RefusalIsFinal
  BY DEF Inv, Control
<1> QED BY <1>1, Invariance, PTL

\* A response body is open only while it is decoded: none is left across a sleep,
\* another attempt or a return (client.go:322).
THEOREM BodiesAreClosed == Spec => []NoOpenBody
<1>1. Inv => NoOpenBody
  BY DEF Inv, Control
<1> QED BY <1>1, Invariance, PTL

-----------------------------------------------------------------------------
\* Every effect is paid for by a request: the effects of a call and its
\* requests still on the wire are no more than the attempts it has made.
Mine(c) == {m \in wire : m.caller = c}
Early(label) == label \in {"idle", "prepare", "send"}
Attempts(c) == attempt[c] + (IF Early(pc[c]) THEN 0 ELSE 1)

PaidFor ==
  \A c \in Callers : /\ IsFiniteSet(Mine(c))
                     /\ applied[c] + Cardinality(Mine(c)) <= Attempts(c)

\* A caller whose requests and effects stay as they are stays paid for, if its
\* attempts do not shrink.
LEMMA PaidForStays ==
  ASSUME TypeOK, TypeOK', PaidFor, wire' = wire, applied' = applied,
         \A c \in Callers : Attempts(c)' >= Attempts(c)
  PROVE  PaidFor'
<1>1. \A c \in Callers : Mine(c)' = Mine(c) /\ Cardinality(Mine(c)) \in Nat
  BY FS_CardinalityType DEF Mine, PaidFor
<1>2. \A c \in Callers : Attempts(c) \in Nat /\ Attempts(c)' \in Nat /\ applied[c] \in Nat
  BY ClientAssumption DEF Attempts, Early, TypeOK
<1> QED BY <1>1, <1>2 DEF PaidFor

\* Serving a request pays for at most one effect.
LEMMA PaidForServed ==
  ASSUME TypeOK, TypeOK', PaidFor, NEW m \in wire, wire' = wire \ {m},
         UNCHANGED <<pc, attempt>>,
         \/ applied' = applied
         \/ applied' = [applied EXCEPT ![m.caller] = @ + 1]
  PROVE  PaidFor'
<1> SUFFICES ASSUME NEW c \in Callers
             PROVE  /\ IsFiniteSet(Mine(c)')
                    /\ applied'[c] + Cardinality(Mine(c)') <= Attempts(c)
  BY DEF PaidFor, Attempts, Early
<1>1. /\ IsFiniteSet(Mine(c)) /\ Cardinality(Mine(c)) \in Nat
      /\ applied[c] \in Nat /\ Attempts(c) \in Nat
      /\ applied[c] + Cardinality(Mine(c)) <= Attempts(c)
  <2>1. IsFiniteSet(Mine(c)) /\ applied[c] + Cardinality(Mine(c)) <= Attempts(c)
    BY DEF PaidFor
  <2>2. Cardinality(Mine(c)) \in Nat
    BY <2>1, FS_CardinalityType
  <2>3. applied[c] \in Nat /\ Attempts(c) \in Nat
    BY ClientAssumption DEF TypeOK, Attempts, Early
  <2> QED BY <2>1, <2>2, <2>3
<1>2. CASE m.caller = c
  <2>1. m \in Mine(c) /\ Mine(c)' = Mine(c) \ {m}
    <3>1. m \in Mine(c)
      BY <1>2 DEF Mine
    <3>2. Mine(c)' = {x \in wire \ {m} : x.caller = c}
      BY DEF Mine
    <3>3. {x \in wire \ {m} : x.caller = c} = {x \in wire : x.caller = c} \ {m}
      OBVIOUS
    <3> QED BY <3>1, <3>2, <3>3 DEF Mine
  <2>2. /\ IsFiniteSet(Mine(c)')
        /\ Cardinality(Mine(c)') = Cardinality(Mine(c)) - 1
    BY <1>1, <2>1, FS_RemoveElement
  <2>3. applied'[c] <= applied[c] + 1 /\ applied'[c] \in Nat
    BY <1>1, <1>2 DEF TypeOK
  <2> QED BY <1>1, <2>2, <2>3
<1>3. CASE m.caller # c
  <2>1. Mine(c)' = Mine(c)
    BY <1>3 DEF Mine
  <2>2. applied'[c] = applied[c]
    BY <1>3 DEF TypeOK
  <2> QED BY <1>1, <2>1, <2>2
<1> QED BY <1>2, <1>3

\* A step of one caller does not shrink its attempts when it does not take it
\* back to before a request is sent, or counts the attempt it leaves.
LEMMA AttemptsGrow ==
  ASSUME TypeOK, TypeOK', NEW c \in Callers,
         \A d \in Callers \ {c} : pc'[d] = pc[d] /\ attempt'[d] = attempt[d],
         \/ attempt'[c] = attempt[c] /\ (Early(pc[c]) \/ ~Early(pc'[c]))
         \/ attempt'[c] = attempt[c] + 1
  PROVE  \A d \in Callers : Attempts(d)' >= Attempts(d)
<1> SUFFICES ASSUME NEW d \in Callers PROVE Attempts(d)' >= Attempts(d)
  OBVIOUS
<1>1. attempt[d] \in Nat /\ attempt'[d] \in Nat
  BY ClientAssumption DEF TypeOK
<1>2. CASE d # c
  BY <1>1, <1>2 DEF Attempts
<1>3. CASE d = c
  <2>1. /\ Attempts(d) = attempt[d] + (IF Early(pc[d]) THEN 0 ELSE 1)
        /\ Attempts(d)' = attempt'[d] + (IF Early(pc'[d]) THEN 0 ELSE 1)
    BY DEF Attempts, Early
  <2>2. CASE attempt'[c] = attempt[c] /\ (Early(pc[c]) \/ ~Early(pc'[c]))
    BY <1>1, <1>3, <2>1, <2>2
  <2>3. CASE attempt'[c] = attempt[c] + 1
    BY <1>1, <1>3, <2>1, <2>3
  <2> QED BY <2>2, <2>3
<1> QED BY <1>2, <1>3

LEMMA PaidForInit == Init => PaidFor
<1> SUFFICES ASSUME Init, NEW c \in Callers
             PROVE  IsFiniteSet(Mine(c)) /\ applied[c] + Cardinality(Mine(c)) <= Attempts(c)
  BY DEF PaidFor
<1>1. Mine(c) = {}
  BY DEF Init, Mine
<1>2. IsFiniteSet(Mine(c)) /\ Cardinality(Mine(c)) = 0
  BY <1>1, FS_EmptySet
<1> QED BY <1>2 DEF Init, Attempts, Early

LEMMA PaidForStep == Inv /\ Inv' /\ PaidFor /\ [Next]_vars => PaidFor'
<1> SUFFICES ASSUME Inv, Inv', PaidFor, [Next]_vars PROVE PaidFor'
  OBVIOUS
<1>0. TypeOK /\ TypeOK' /\ ClientAssumption
  BY ClientAssumption DEF Inv
<1>1. ASSUME NEW c \in Callers, Send(c) PROVE PaidFor'
  <2> DEFINE new == [caller |-> c, attempt |-> attempt[c], etag |-> req[c].etag]
  <2>1. wire' = wire \cup {new} /\ applied' = applied /\ attempt' = attempt
        /\ pc[c] = "send" /\ pc' = [pc EXCEPT ![c] = "wait"]
    BY <1>1 DEF Send, Condition, Goto
  <2> SUFFICES ASSUME NEW d \in Callers
               PROVE  /\ IsFiniteSet(Mine(d)')
                      /\ applied[d] + Cardinality(Mine(d)') <= Attempts(d)'
    BY <2>1 DEF PaidFor
  <2>2. /\ IsFiniteSet(Mine(d)) /\ Cardinality(Mine(d)) \in Nat
        /\ applied[d] \in Nat /\ Attempts(d) \in Nat
        /\ applied[d] + Cardinality(Mine(d)) <= Attempts(d)
    <3>1. IsFiniteSet(Mine(d)) /\ applied[d] + Cardinality(Mine(d)) <= Attempts(d)
      BY DEF PaidFor
    <3>2. Cardinality(Mine(d)) \in Nat
      BY <3>1, FS_CardinalityType
    <3>3. applied[d] \in Nat /\ Attempts(d) \in Nat
      BY <1>0 DEF TypeOK, Attempts, Early
    <3> QED BY <3>1, <3>2, <3>3
  <2>3. CASE d = c
    <3>1. Mine(d)' = Mine(d) \cup {new}
      BY <2>1, <2>3 DEF Mine
    <3>2. IsFiniteSet(Mine(d)') /\ Cardinality(Mine(d)') <= Cardinality(Mine(d)) + 1
                                /\ Cardinality(Mine(d)') \in Nat
      <4> HIDE DEF new
      <4>1. /\ IsFiniteSet(Mine(d) \cup {new})
            /\ Cardinality(Mine(d) \cup {new}) \in {Cardinality(Mine(d)), Cardinality(Mine(d)) + 1}
        BY <2>2, FS_AddElement
      <4> QED BY <2>2, <3>1, <4>1
    <3>3. Attempts(d)' = Attempts(d) + 1
      BY <1>0, <2>1, <2>3 DEF Attempts, Early, TypeOK
    <3> QED BY <2>2, <3>2, <3>3
  <2>4. CASE d # c
    <3>1. Mine(d)' = Mine(d)
      BY <2>1, <2>4 DEF Mine
    <3>2. Attempts(d)' = Attempts(d)
      BY <1>0, <2>1, <2>4 DEF Attempts, Early, TypeOK
    <3> QED BY <2>2, <3>1, <3>2
  <2> QED BY <2>3, <2>4
<1>2. ASSUME NEW c \in Callers,
             \/ \E r \in Request : Do(c, r)
             \/ NewHTTPRequest(c) \/ TransportError(c) \/ Receive(c) \/ SleepEnds(c)
             \/ SleepCancelled(c) \/ Decode(c) \/ Cancel(c)
      PROVE  PaidFor'
  <2>1. wire' = wire /\ applied' = applied
    BY <1>2 DEF Do, NewHTTPRequest, TokenFor, TransportError, Retries, Receive, Retried, DrainAndClose, RefusalEnds, SleepEnds, Counted, SleepCancelled, Decode,
       Cancel, service
  <2>2. /\ \A d \in Callers \ {c} : pc'[d] = pc[d] /\ attempt'[d] = attempt[d]
        /\ \/ attempt'[c] = attempt[c] /\ (Early(pc[c]) \/ ~Early(pc'[c]))
           \/ attempt'[c] = attempt[c] + 1
    <3>1. CASE \E r \in Request : Do(c, r)
      <4>1. \E label \in {"returned", "prepare"} : Goto(c, label)
        BY <3>1 DEF Do, Return
      <4>2. attempt' = attempt /\ pc[c] = "idle"
        BY <3>1 DEF Do
      <4> QED BY <1>0, <4>1, <4>2 DEF Goto, Early, TypeOK
    <3>2. CASE NewHTTPRequest(c)
      <4>1. \E label \in {"returned", "send"} : Goto(c, label)
        BY <3>2 DEF NewHTTPRequest, TokenFor, Return
      <4>2. attempt' = attempt /\ pc[c] = "prepare"
        BY <3>2 DEF NewHTTPRequest, TokenFor
      <4> QED BY <1>0, <4>1, <4>2 DEF Goto, Early, TypeOK
    <3>3. CASE TransportError(c)
      <4>1. \E label \in {"returned", "sleep"} : Goto(c, label)
        BY <3>3 DEF TransportError, Retries, Return
      <4>2. attempt' = attempt
        BY <3>3 DEF TransportError, Retries
      <4> QED BY <1>0, <4>1, <4>2 DEF Goto, Early, TypeOK
    <3>4. CASE Receive(c)
      <4>1. \E label \in {"returned", "sleep", "decode"} : Goto(c, label)
        BY <3>4 DEF Receive, Retried, DrainAndClose, RefusalEnds, Retries, Return
      <4>2. attempt' = attempt
        BY <3>4 DEF Receive, Retried, DrainAndClose, RefusalEnds, Retries
      <4> QED BY <1>0, <4>1, <4>2 DEF Goto, Early, TypeOK
    <3>5. CASE SleepEnds(c)
      <4>1. attempt' = [attempt EXCEPT ![c] = @ + 1] /\ Goto(c, "prepare")
        BY <3>5 DEF SleepEnds, Counted
      <4> QED BY <1>0, <4>1 DEF Goto, TypeOK
    <3>6. CASE SleepCancelled(c)
      <4>1. Goto(c, "returned") /\ attempt' = attempt
        BY <3>6 DEF SleepCancelled, Return
      <4> QED BY <1>0, <4>1 DEF Goto, Early, TypeOK
    <3>7. CASE Decode(c)
      <4>1. pc' = [pc EXCEPT ![c] = "returned"] /\ attempt' = attempt
        BY <3>7 DEF Decode, Return, Goto
      <4> QED BY <1>0, <4>1 DEF Early, TypeOK
    <3>8. CASE Cancel(c)
      <4>1. pc' = pc /\ attempt' = attempt
        BY <3>8 DEF Cancel
      <4> QED BY <4>1
    <3> QED BY <1>2, <3>1, <3>2, <3>3, <3>4, <3>5, <3>6, <3>7, <3>8
  <2>3. \A d \in Callers : Attempts(d)' >= Attempts(d)
    BY <1>0, <2>2, AttemptsGrow
  <2> QED BY <1>0, <2>1, <2>3, PaidForStays
<1>3. ASSUME NEW m \in wire, Apply(m) \/ Decline(m) \/ Read(m) PROVE PaidFor'
  BY <1>0, <1>3, PaidForServed DEF Apply, Decline, Read, Answer
<1>4. CASE Elsewhere \/ Rotate \/ UNCHANGED vars
  <2>1. wire' = wire /\ applied' = applied /\ pc' = pc /\ attempt' = attempt
    BY <1>4 DEF Elsewhere, Rotate, client, vars
  <2>2. \A c \in Callers : Attempts(c)' >= Attempts(c)
    BY <1>0, <2>1 DEF Attempts, Early, TypeOK
  <2> QED BY <1>0, <2>1, <2>2, PaidForStays
<1> QED BY <1>1, <1>2, <1>3, <1>4 DEF Next, Step, Serve

-----------------------------------------------------------------------------
\* What Do told its caller is backed by what happened: the two guards of the
\* contract's Return.
LEMMA ToldIsBacked ==
  ASSUME Inv, NEW c \in Callers, Returned(c)
  PROVE  /\ Told(c) \in {"done", "rejected", "unknown"}
         /\ Told(c) = "done" /\ Mutates(c) => applied[c] > 0
         /\ Told(c) = "rejected" => applied[c] = 0 \/ RetryUnsafe[c]
<1>1. CASE TurnedDown(result[c])
  <2>1. Told(c) = "rejected"
    BY <1>1, Returned(c) DEF Told
  <2>2. CASE ~RetryUnsafe[c] /\ Mutates(c)
    <3>1. CASE result[c].err \in {"body", "request", "token"}
      BY <2>1, <2>2, <3>1 DEF Inv, Effects, UnsentHonest
    <3>2. CASE result[c].status \in {401, 404, 412}
      <4>1. reply[c].status = result[c].status
        BY <3>2 DEF Inv, Control, ResultGenuine
      <4> QED BY <2>1, <2>2, <3>2, <4>1 DEF Inv, Effects, AnswerHonest
    <3> QED BY <1>1, <3>1, <3>2 DEF TurnedDown
  <2>3. CASE RetryUnsafe[c] \/ ~Mutates(c)
    BY <2>1, <2>3 DEF Inv, Versions, Reads
  <2> QED BY <2>2, <2>3
<1>2. CASE ~TurnedDown(result[c]) /\ Success(result[c].status)
  <2>1. Told(c) = "done"
    BY <1>2 DEF Told
  <2>2. reply[c].status = result[c].status
    BY <1>2 DEF Inv, Control, ResultGenuine, Success
  <2> QED BY <1>2, <2>1, <2>2 DEF Inv, Effects, AnswerHonest
<1>3. CASE ~TurnedDown(result[c]) /\ ~Success(result[c].status)
  BY <1>3 DEF Told
<1> QED BY <1>1, <1>2, <1>3

\* Once a mutation was turned down for good, no request of it is on the wire.
LEMMA RejectedIsQuiet ==
  ASSUME Inv, NEW m \in wire, ~RetryUnsafe[m.caller], Mutates(m.caller)
  PROVE  Told(m.caller) # "rejected"
<1> DEFINE c == m.caller
<1>1. c \in Callers /\ ~Quiet(c)
  BY DEF Inv, TypeOK, Message, Quiet
<1> SUFFICES ASSUME Returned(c), TurnedDown(result[c]) PROVE FALSE
  BY DEF Told
<1>2. reply[c] = NoReply
  BY <1>1 DEF Inv, Effects, OneShot
<1>3. result[c].err \notin {"body", "request", "token"}
  BY <1>1 DEF Inv, Effects, UnsentHonest
<1>4. result[c].status = 0
  BY <1>1, <1>2 DEF Inv, Control, ResultGenuine, NoReply
<1> QED BY <1>3, <1>4 DEF TurnedDown

LEMMA ContractInit == Init => Contract!Init
<1> SUFFICES ASSUME Init PROVE Contract!Init
  OBVIOUS
<1>1. \A c \in Callers : Phase(c) = "idle" /\ Mutates(c) = FALSE /\ Told(c) = "none"
  BY DEF Init, Phase, Told, Mutates, Safe, Returned
<1>2. [c \in Callers |-> Phase(c)] = [c \in Callers |-> "idle"]
  BY <1>1
<1>3. [c \in Callers |-> Mutates(c)] = [c \in Callers |-> FALSE]
  BY <1>1
<1>4. [c \in Callers |-> Told(c)] = [c \in Callers |-> "none"]
  BY <1>1
<1> QED BY <1>2, <1>3, <1>4 DEF Init, Contract!Init

\* A step that leaves phases, requests, results and effects alone is a stutter.
LEMMA Stutters ==
  ASSUME \A c \in Callers : Phase(c)' = Phase(c) /\ Told(c)' = Told(c),
         UNCHANGED <<req, applied>>
  PROVE  UNCHANGED Contract!vars
BY DEF Contract!vars, Mutates

\* A step that ends the call of c with an outcome the state backs is a Return.
LEMMA Returns ==
  ASSUME Inv, Inv', NEW c \in Callers, Phase(c) = "open", Returned(c)',
         pc' = [pc EXCEPT ![c] = "returned"], UNCHANGED <<req, applied>>,
         \A d \in Callers \ {c} : result'[d] = result[d]
  PROVE  \E o \in {"done", "rejected", "unknown"} : Contract!Return(c, o)
<1>1. /\ Told(c)' \in {"done", "rejected", "unknown"}
      /\ Told(c)' = "done" /\ Mutates(c) => applied[c] > 0
      /\ Told(c)' = "rejected" => applied[c] = 0 \/ RetryUnsafe[c]
  <2>1. (/\ Told(c) \in {"done", "rejected", "unknown"}
         /\ Told(c) = "done" /\ Mutates(c) => applied[c] > 0
         /\ Told(c) = "rejected" => applied[c] = 0 \/ RetryUnsafe[c])'
    BY ToldIsBacked, PTL
  <2> QED BY <2>1 DEF Mutates
<1>2. \A d \in Callers \ {c} : Phase(d)' = Phase(d) /\ Told(d)' = Told(d)
  BY DEF Phase, Told, Returned, Inv, TypeOK
<1>3. Phase(c)' = "returned"
  BY DEF Phase, Returned
<1>4. [d \in Callers |-> Phase(d)]' = [[d \in Callers |-> Phase(d)] EXCEPT ![c] = "returned"]
  BY <1>2, <1>3
<1>5. PICK o \in {"done", "rejected", "unknown"} : o = Told(c)'
  BY <1>1
<1>6. [d \in Callers |-> Told(d)]' = [[d \in Callers |-> Told(d)] EXCEPT ![c] = o]
  BY <1>2, <1>5
<1>7. [d \in Callers |-> Mutates(d)]' = [d \in Callers |-> Mutates(d)]
  BY DEF Mutates
<1>8. Contract!Return(c, o)
  BY <1>1, <1>4, <1>5, <1>6, <1>7 DEF Contract!Return
<1> QED BY <1>8

\* Do, where it returns, ends the call; where it moves on, nothing of the
\* contract changes.
LEMMA Ends ==
  ASSUME Inv, Inv', NEW c \in Callers, Phase(c) = "open",
         NEW err, NEW meta, NEW status, Return(c, err, meta, status),
         UNCHANGED <<req, applied>>
  PROVE  Contract!Next
<1>1. /\ pc' = [pc EXCEPT ![c] = "returned"]
      /\ \A d \in Callers \ {c} : result'[d] = result[d]
  BY DEF Return, Goto, Inv, TypeOK
<1>2. Returned(c)'
  BY <1>1 DEF Returned, Inv, TypeOK
<1>3. \E o \in {"done", "rejected", "unknown"} : Contract!Return(c, o)
  BY <1>1, <1>2, Returns
<1> QED BY <1>3 DEF Contract!Next

LEMMA Moves ==
  ASSUME TypeOK, NEW c \in Callers, Phase(c) = "open",
         NEW label, label \notin {"idle", "returned"}, Goto(c, label),
         UNCHANGED <<req, applied, result>>
  PROVE  UNCHANGED Contract!vars
<1>1. pc[c] \notin {"idle", "returned"} /\ pc'[c] = label /\ \A d \in Callers \ {c} : pc'[d] = pc[d]
  BY DEF Phase, Goto, TypeOK
<1>2. \A d \in Callers : Phase(d)' = Phase(d) /\ Returned(d)' = Returned(d)
  BY <1>1 DEF Phase, Returned
<1>3. \A d \in Callers : Told(d)' = Told(d)
  BY <1>2 DEF Told
<1> QED BY <1>2, <1>3, Stutters

\* Do begins a call, or refuses it on the spot.
LEMMA Begins ==
  ASSUME Inv, Inv', NEW c \in Callers, NEW r \in Request, Do(c, r)
  PROVE  Contract!Next
<1> DEFINE m == ~Safe(r.method)
<1>1. /\ pc[c] = "idle" /\ req' = [req EXCEPT ![c] = r] /\ applied' = applied /\ m \in BOOLEAN
      /\ TypeOK
  BY DEF Do, service, Inv, Safe
<1>2. [d \in Callers |-> Mutates(d)]' = [[d \in Callers |-> Mutates(d)] EXCEPT ![c] = m]
  BY <1>1 DEF Mutates, TypeOK
<1>3. [d \in Callers |-> Phase(d)][c] = "idle"
  BY <1>1 DEF Phase
<1>4. CASE Return(c, "body", FALSE, 0)
  <2>1. /\ pc' = [pc EXCEPT ![c] = "returned"]
        /\ result' = [result EXCEPT ![c] = Outcome("body", FALSE, 0)]
    BY <1>4 DEF Return, Goto
  <2>2. \A d \in Callers \ {c} : Phase(d)' = Phase(d) /\ Told(d)' = Told(d)
    BY <1>1, <2>1 DEF Phase, Told, Returned, TypeOK
  <2>3. Phase(c)' = "returned" /\ Told(c)' = "rejected"
    BY <1>1, <2>1 DEF Phase, Told, Returned, TypeOK, TurnedDown, Outcome
  <2>4. /\ [d \in Callers |-> Phase(d)]' = [[d \in Callers |-> Phase(d)] EXCEPT ![c] = "returned"]
        /\ [d \in Callers |-> Told(d)]' = [[d \in Callers |-> Told(d)] EXCEPT ![c] = "rejected"]
    BY <2>2, <2>3
  <2>5. Contract!Refuse(c, m)
    BY <1>1, <1>2, <1>3, <2>4 DEF Contract!Refuse
  <2> QED BY <1>1, <2>5 DEF Contract!Next
<1>5. CASE Goto(c, "prepare") /\ UNCHANGED result
  <2>1. pc' = [pc EXCEPT ![c] = "prepare"] /\ result' = result
    BY <1>5 DEF Goto
  <2>2. \A d \in Callers \ {c} : Phase(d)' = Phase(d)
    BY <1>1, <2>1 DEF Phase, TypeOK
  <2>3. \A d \in Callers : Returned(d)' = Returned(d)
    BY <1>1, <2>1 DEF Returned, TypeOK
  <2>4. \A d \in Callers : Told(d)' = Told(d)
    BY <2>1, <2>3 DEF Told
  <2>5. Phase(c)' = "open"
    BY <1>1, <2>1 DEF Phase, TypeOK
  <2>6. /\ [d \in Callers |-> Phase(d)]' = [[d \in Callers |-> Phase(d)] EXCEPT ![c] = "open"]
        /\ [d \in Callers |-> Told(d)]' = [d \in Callers |-> Told(d)]
    BY <2>2, <2>4, <2>5
  <2>7. Contract!Call(c, m)
    BY <1>1, <1>2, <1>3, <2>6 DEF Contract!Call
  <2> QED BY <1>1, <2>7 DEF Contract!Next
<1> QED BY <1>4, <1>5 DEF Do

\* The service performs a mutation: an effect the contract has room for.
LEMMA Takes ==
  ASSUME Inv, Inv', PaidFor, NEW m \in wire, Apply(m)
  PROVE  Contract!Effect(m.caller) /\ m.caller \in Callers
<1> DEFINE c == m.caller
<1>1. /\ c \in Callers /\ Mutates(c) /\ ~Quiet(c) /\ TypeOK
      /\ applied' = [applied EXCEPT ![c] = @ + 1]
      /\ pc' = pc /\ req' = req /\ result' = result
  BY DEF Apply, Inv, TypeOK, Message, Quiet
<1>2. [d \in Callers |-> Phase(d)][c] # "idle"
  BY <1>1 DEF Phase, Inv, Control, FreshStart
<1>3. applied[c] < (IF RetryUnsafe[c] THEN MaxRetries + 1 ELSE 1)
  <2>1. CASE ~RetryUnsafe[c]
    BY <1>1, <2>1 DEF Inv, Effects, OneShot
  <2>2. CASE RetryUnsafe[c]
    <3>1. /\ IsFiniteSet(Mine(c)) /\ applied[c] + Cardinality(Mine(c)) <= Attempts(c)
          /\ applied[c] \in Nat /\ attempt[c] \in 0 .. MaxRetries
      BY <1>1 DEF PaidFor, TypeOK
    <3>2. Cardinality(Mine(c)) \in Nat /\ Cardinality(Mine(c)) # 0
      <4>1. m \in Mine(c)
        BY DEF Mine
      <4> HIDE DEF c
      <4> QED BY <3>1, <4>1, FS_CardinalityType, FS_EmptySet
    <3> HIDE DEF c
    <3>3. Attempts(c) = attempt[c] + (IF Early(pc[c]) THEN 0 ELSE 1)
      BY DEF Attempts
    <3> QED BY <2>2, <3>1, <3>2, <3>3, ClientAssumption
  <2> QED BY <2>1, <2>2
<1>4. Told(c) = "rejected" => RetryUnsafe[c]
  BY <1>1, RejectedIsQuiet
<1>5. \A d \in Callers : Phase(d)' = Phase(d) /\ Mutates(d)' = Mutates(d) /\ Told(d)' = Told(d)
  BY <1>1 DEF Phase, Mutates, Told, Returned
<1>6. /\ [d \in Callers |-> Phase(d)]' = [d \in Callers |-> Phase(d)]
      /\ [d \in Callers |-> Mutates(d)]' = [d \in Callers |-> Mutates(d)]
      /\ [d \in Callers |-> Told(d)]' = [d \in Callers |-> Told(d)]
  BY <1>5
<1> HIDE DEF c
<1>7. Contract!Effect(c)
  BY <1>1, <1>2, <1>3, <1>4, <1>6 DEF Contract!Effect, Contract!Limit
<1> QED BY <1>1, <1>7 DEF c

LEMMA ContractStep == Inv /\ Inv' /\ PaidFor /\ [Next]_vars => [Contract!Next]_(Contract!vars)
<1> SUFFICES ASSUME Inv, Inv', PaidFor, [Next]_vars PROVE Contract!Next \/ UNCHANGED Contract!vars
  OBVIOUS
<1>0. TypeOK
  BY DEF Inv
<1>1. ASSUME NEW c \in Callers, \E r \in Request : Do(c, r) PROVE Contract!Next
  BY <1>1, Begins
<1>2. ASSUME NEW c \in Callers, Step(c) PROVE Contract!Next \/ UNCHANGED Contract!vars
  <2>1. Phase(c) = "open" /\ UNCHANGED <<req, applied>>
    BY <1>2 DEF Step, Phase, NewHTTPRequest, TokenFor, Send, Condition, TransportError, Retries, Receive, Retried, DrainAndClose, RefusalEnds, SleepEnds, Counted,
       SleepCancelled, Decode, service
  <2>2. \/ \E err, meta, status : Return(c, err, meta, status)
        \/ \E label \in {"prepare", "send", "wait", "decode", "sleep"} : Goto(c, label) /\ UNCHANGED result
    <3>1. CASE NewHTTPRequest(c)
      BY <3>1 DEF NewHTTPRequest, TokenFor
    <3>2. CASE Send(c) \/ SleepEnds(c)
      BY <3>2 DEF Send, Condition, SleepEnds, Counted
    <3>3. CASE TransportError(c)
      BY <3>3 DEF TransportError, Retries
    <3>4. CASE Receive(c)
      BY <3>4 DEF Receive, Retried, DrainAndClose, RefusalEnds, Retries
    <3>5. CASE SleepCancelled(c)
      BY <3>5 DEF SleepCancelled
    <3>6. CASE Decode(c)
      BY <3>6 DEF Decode
    <3> QED BY <1>2, <3>1, <3>2, <3>3, <3>4, <3>5, <3>6 DEF Step
  <2>3. ASSUME NEW err, NEW meta, NEW status, Return(c, err, meta, status) PROVE Contract!Next
    BY <2>1, <2>3, Ends
  <2>4. ASSUME NEW label \in {"prepare", "send", "wait", "decode", "sleep"},
               Goto(c, label), UNCHANGED result
        PROVE  UNCHANGED Contract!vars
    BY <1>0, <2>1, <2>4, Moves
  <2> QED BY <2>2, <2>3, <2>4
<1>3. ASSUME NEW m \in wire, Apply(m) PROVE Contract!Next
  BY <1>3, Takes DEF Contract!Next
<1>4. CASE \/ \E c \in Callers : Cancel(c)
           \/ \E m \in wire : Decline(m) \/ Read(m)
           \/ Elsewhere \/ Rotate \/ UNCHANGED vars
  <2>1. pc' = pc /\ req' = req /\ result' = result /\ applied' = applied
    BY <1>4 DEF Cancel, Decline, Read, Elsewhere, Rotate, client, service, vars
  <2>2. \A c \in Callers : Phase(c)' = Phase(c) /\ Told(c)' = Told(c)
    BY <2>1 DEF Phase, Told, Returned
  <2> QED BY <2>1, <2>2, Stutters
<1> QED BY <1>1, <1>2, <1>3, <1>4 DEF Next, Serve

\* Client.Do implements RequestContract for any number of callers, any retry
\* budget and either policy: whatever the network does, the effects a call has
\* on the service and what it tells its caller stay within the contract.
THEOREM Implements == Spec => ImplementsContract
<1>1. Init => Contract!Init /\ PaidFor
  BY ContractInit, PaidForInit
<1>2. Spec => []PaidFor
  <2>1. Inv /\ Inv' /\ PaidFor /\ [Next]_vars => PaidFor'
    BY PaidForStep
  <2> QED BY <1>1, <2>1, Invariance, PTL DEF Spec
<1>3. Inv /\ Inv' /\ PaidFor /\ [Next]_vars => [Contract!Next]_(Contract!vars)
  BY ContractStep
<1> QED BY <1>1, <1>2, <1>3, Invariance, PTL DEF Spec, ImplementsContract, Contract!Spec
=============================================================================
