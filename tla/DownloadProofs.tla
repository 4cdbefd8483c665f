--------------------------- MODULE DownloadProofs ---------------------------
(***************************************************************************)
(* Download for every retry budget, limit, length and set of statuses: the *)
(* content is whole where it is reported, the token stays with Graph, a    *)
(* stream is begun once and every body is closed.                          *)
(***************************************************************************)
EXTENDS Download, TLAPS

Labels == {"prepare", "graph", "status", "sleep", "locate", "content", "body", "copy", "finish", "done"}
Results == {"none", "request", "transport", "context", "untrusted", "partial", "not modified",
            "unsafe redirect", "status", "read error", "api", "stream", "too large", "finish", "ok"}
Targets == {"missing", "invalid", "http", "https"}

\* Where a response is in hand whose body is not closed yet.
Holding == {"status", "locate", "body", "copy", "finish"}

Types ==
  /\ limit \in Nat /\ MaxRetries \in Nat /\ MaxLength \in Nat
  /\ pc \in Labels /\ attempt \in 0 .. MaxRetries
  /\ sent \in Seq({Graph, Content}) /\ target \in Targets /\ open \in {0, 1}
  /\ resp.status \in Nat /\ resp.length \in 0 .. MaxLength /\ resp.arrives \in 0 .. resp.length
  /\ written \in 0 .. MaxLength /\ result \in Results

\* One body is open exactly where a response is in hand.
BodiesCounted == open = IF pc \in Holding THEN 1 ELSE 0

\* As long as Graph is asked, nobody else was; the content request is the last.
TokenKept ==
  /\ pc \in {"prepare", "graph", "status", "sleep", "locate"} => \A i \in DOMAIN sent : sent[i] = Graph
  /\ \A i \in DOMAIN sent : sent[i] = Content => i = Len(sent) /\ target = "https"

\* Nothing is written before the answer is known to be whole, nothing more than
\* can be read, and the copy ends with everything that can be. A sleep is for a
\* further attempt.
Written ==
  /\ written > 0 => pc \in {"copy", "finish", "done"}
  /\ pc \in {"copy", "finish"} => Refusal = {} /\ written <= Readable
  /\ pc = "finish" => written = Readable /\ (Broken => limit > 0 /\ resp.arrives >= limit)
  /\ pc # "done" => result = "none"
  /\ pc = "sleep" => attempt < MaxRetries

Inv == Types /\ BodiesCounted /\ TokenKept /\ Written /\ SuccessIsWhole

-----------------------------------------------------------------------------
LEMMA ReadableBounds ==
  ASSUME Types
  PROVE  /\ Readable \in Nat /\ Readable <= resp.arrives
         /\ limit > 0 => Readable <= limit
         /\ limit > 0 /\ resp.arrives > limit => Readable = limit
         /\ ~(limit > 0 /\ resp.arrives > limit) => Readable = resp.arrives
BY DEF Types, Readable

\* What downloadBody lets through is a whole success.
LEMMA RefusalMeans ==
  ASSUME Refusal = {}
  PROVE  Success(resp.status) /\ resp.status # 206 /\ ~resp.range
<1>1. CASE resp.status = 206 \/ resp.range
  <2>1. Refusal = {"partial"}
    BY <1>1, Zenon DEF Refusal
  <2> QED BY <2>1
<1>2. CASE ~(resp.status = 206 \/ resp.range) /\ ~Success(resp.status)
  <2>1. \/ Refusal = {"not modified"} \/ Refusal = {"unsafe redirect"} \/ Refusal = {"status"}
        \/ Refusal = {"read error", "api"} \/ Refusal = {"api"}
    BY <1>2, Zenon DEF Refusal
  <2> QED BY <2>1
<1>3. CASE ~(resp.status = 206 \/ resp.range) /\ Success(resp.status)
  BY <1>3
<1> QED BY <1>1, <1>2, <1>3

LEMMA RefusalType == Refusal \subseteq Results \ {"none", "ok", "too large"}
BY DEF Refusal, Results

LEMMA InitInv == Init => Inv
<1> SUFFICES ASSUME Init PROVE Inv
  OBVIOUS
<1>1. limit \in Nat
  BY DownloadAssumption DEF Init
<1>2. resp.status = 0 /\ resp.length = 0 /\ resp.arrives = 0
  BY DEF Init, NoResponse
<1>3. sent \in Seq({Graph, Content}) /\ DOMAIN sent = {}
  BY DEF Init
<1>4. Types
  BY <1>1, <1>2, <1>3, DownloadAssumption DEF Init, Types, Labels, Results, Targets
<1>5. BodiesCounted
  BY DEF Init, BodiesCounted, Holding
<1>6. TokenKept
  BY <1>3, Zenon DEF TokenKept
<1>7. Written /\ SuccessIsWhole
  <2>1. pc = "prepare" /\ result = "none" /\ written = 0
    BY DEF Init
  <2> QED BY <1>1, <2>1 DEF Written, SuccessIsWhole
<1> QED BY <1>4, <1>5, <1>6, <1>7 DEF Inv

LEMMA StepInv == Inv /\ [Next]_vars => Inv'
<1> SUFFICES ASSUME Inv, [Next]_vars PROVE Inv'
  OBVIOUS
<1> USE DEF Inv, BodiesCounted, Holding, Closed, Return
\* newHTTPRequest.
<1>1. CASE Prepare
  <2>1. CASE Return("request") /\ UNCHANGED sent
    BY <1>1, <2>1 DEF Prepare, Types, TokenKept, Written, SuccessIsWhole, Labels, Results
  <2>2. CASE pc' = "graph" /\ sent' = Append(sent, Graph) /\ UNCHANGED result
    <3>1. Types' /\ BodiesCounted' /\ Written' /\ SuccessIsWhole'
      BY <1>1, <2>2 DEF Prepare, Types, Written, SuccessIsWhole, Labels, Refusal, Readable
    <3>2. \A i \in DOMAIN sent' : sent'[i] = Graph
      BY <1>1, <2>2 DEF Prepare, Types, TokenKept
    <3>3. Graph # Content
      BY DEF Graph, Content
    <3> QED BY <3>1, <3>2, <3>3 DEF TokenKept
  <2> QED BY <1>1, <2>1, <2>2 DEF Prepare
\* Either request fails.
<1>2. CASE TransportError
  <2>1. Types' /\ BodiesCounted'
    BY <1>2 DEF TransportError, Types, Labels, Results
  <2>2. TokenKept'
    BY <1>2 DEF TransportError, TokenKept
  <2>3. Written' /\ SuccessIsWhole'
    BY <1>2 DEF TransportError, Written, SuccessIsWhole
  <2> QED BY <2>1, <2>2, <2>3
\* An answer.
<1>3. CASE Answer
  <2>1. PICK r \in Response : resp' = r /\ r.arrives <= r.length
    BY <1>3 DEF Answer
  <2>2. /\ resp'.status \in Nat /\ resp'.length \in 0 .. MaxLength /\ resp'.arrives \in 0 .. resp'.length
    <3>1. r.status \in Statuses /\ r.length \in 0 .. MaxLength /\ r.arrives \in 0 .. MaxLength
      BY <2>1, Zenon DEF Response
    <3>2. r.status \in Nat
      <4>1. Statuses \subseteq Nat
        BY DownloadAssumption
      <4> QED BY <3>1, <4>1
    <3>3. r.arrives \in 0 .. r.length
      BY <2>1, <3>1, DownloadAssumption
    <3> QED BY <2>1, <3>1, <3>2, <3>3
  <2>3. target' \in Targets /\ (pc = "content" => target' = target)
    BY <1>3 DEF Answer, Targets, Types
  <2>a. /\ pc \in {"graph", "content"} /\ pc' \in {"status", "body"} /\ open' = open + 1
        /\ UNCHANGED <<limit, attempt, cancelled, sent, written, result>>
    BY <1>3 DEF Answer
  <2>b. open = 0 /\ open' = 1 /\ written = 0 /\ result = "none"
    BY <2>a DEF Types, Written
  <2>4. Types'
    BY <2>a, <2>b, <2>2, <2>3 DEF Types, Labels
  <2>5. BodiesCounted' /\ Written' /\ SuccessIsWhole'
    BY <2>a, <2>b DEF Types, Written, SuccessIsWhole
  <2>6. TokenKept'
    <3>1. CASE pc = "graph"
      <4>1. \A i \in DOMAIN sent : sent[i] # Content
        BY <3>1 DEF TokenKept, Graph, Content
      <4> QED BY <1>3, <3>1, <4>1 DEF Answer, TokenKept
    <3>2. CASE pc = "content"
      BY <1>3, <2>3, <3>2 DEF Answer, TokenKept
    <3> QED BY <1>3, <3>1, <3>2 DEF Answer
  <2> QED BY <2>4, <2>5, <2>6
\* The status switch.
<1>4. CASE CheckStatus
  <2>1. Types' /\ BodiesCounted'
    BY <1>4 DEF CheckStatus, Types, Labels
  <2>2. TokenKept'
    BY <1>4 DEF CheckStatus, TokenKept
  <2>3. Written' /\ SuccessIsWhole'
    BY <1>4 DEF CheckStatus, Throttled, Written, SuccessIsWhole
  <2> QED BY <2>1, <2>2, <2>3
\* The sleep; an attempt before the last one led to it.
<1>5. CASE Sleep
  <2>0. pc = "sleep" /\ attempt \in Nat /\ attempt < MaxRetries /\ attempt + 1 \in 0 .. MaxRetries
    BY <1>5 DEF Sleep, Types, Written
  <2>1. Types' /\ BodiesCounted'
    BY <1>5, <2>0 DEF Sleep, Timer, Types, Labels, Results
  <2>2. TokenKept'
    BY <1>5 DEF Sleep, Timer, TokenKept
  <2>3. Written' /\ SuccessIsWhole'
    BY <1>5 DEF Sleep, Timer, Written, SuccessIsWhole
  <2> QED BY <2>1, <2>2, <2>3
\* The 302 leads to the content, without the token, or nowhere.
<1>6. CASE Locate
  <2>1. CASE target = "https"
    <3>1. pc' = "content" /\ sent' = Append(sent, Content) /\ UNCHANGED <<result, target>>
      BY <1>6, <2>1 DEF Locate
    <3>a. UNCHANGED <<limit, attempt, cancelled, resp, written>> /\ open' = open - 1 /\ pc = "locate"
      BY <1>6 DEF Locate
    <3>b. sent' \in Seq({Graph, Content})
      BY <3>1 DEF Types
    <3>c. Types' /\ BodiesCounted'
      BY <3>1, <3>a, <3>b DEF Types, Labels
    <3>d. Written' /\ SuccessIsWhole'
      BY <3>1, <3>a DEF Types, Written, SuccessIsWhole
    <3>2. Types' /\ BodiesCounted' /\ Written' /\ SuccessIsWhole'
      BY <3>c, <3>d
    <3>3. \A i \in DOMAIN sent : sent[i] # Content
      BY <1>6 DEF Locate, TokenKept, Graph, Content
    <3>4. \A i \in DOMAIN sent' : sent'[i] = Content => i = Len(sent')
      BY <3>1, <3>3 DEF Types
    <3> QED BY <2>1, <3>1, <3>2, <3>4 DEF TokenKept
  <2>2. CASE target # "https"
    BY <1>6, <2>2 DEF Locate, Types, TokenKept, Written, SuccessIsWhole, Labels, Results
  <2> QED BY <2>1, <2>2
\* What is not a whole success is an error.
<1>7. CASE Body
  <2>1. CASE Refusal = {}
    <3>1. /\ pc = "body" /\ pc' = "copy"
          /\ UNCHANGED <<limit, attempt, cancelled, sent, resp, target, open, written, result>>
      BY <1>7, <2>1 DEF Body
    <3>2. Refusal' = Refusal /\ Readable' = Readable
      BY <3>1 DEF Refusal, Readable
    <3>3. written = 0 /\ result = "none"
      BY <3>1 DEF Written, Types
    <3>4. Types' /\ BodiesCounted' /\ TokenKept' /\ SuccessIsWhole'
      BY <3>1, <3>3 DEF Types, TokenKept, SuccessIsWhole, Labels
    <3>5. Written'
      BY <2>1, <3>1, <3>2, <3>3, ReadableBounds DEF Written
    <3> QED BY <3>4, <3>5
  <2>2. CASE Refusal # {}
    <3>1. PICK r \in Refusal : pc' = "done" /\ result' = r
      BY <1>7, <2>2 DEF Body
    <3>2. r \in Results /\ r # "ok" /\ r # "too large"
      BY <3>1, RefusalType
    <3>3. /\ pc = "body" /\ open' = open - 1
          /\ UNCHANGED <<limit, attempt, cancelled, sent, resp, target, written>>
      BY <1>7, <2>2 DEF Body
    <3>b. open = 1
      BY <3>3
    <3>c. open' = 0
      BY <3>3, <3>b
    <3>d. result' \in Results
      BY <3>1, <3>2, Zenon
    <3>4. Types' /\ BodiesCounted'
      BY <3>1, <3>3, <3>c, <3>d DEF Types, Labels
    <3>5. TokenKept'
      BY <3>1, <3>3 DEF TokenKept
    <3>6. Written' /\ SuccessIsWhole'
      BY <3>1, <3>2, <3>3 DEF Types, Written, SuccessIsWhole
    <3> QED BY <3>4, <3>5, <3>6
  <2> QED BY <2>1, <2>2
\* Bytes are written, or the stream ends or fails.
<1>8. CASE Copy
  <2>0. UNCHANGED <<limit, attempt, cancelled, sent, resp, target>>
    BY <1>8 DEF Copy
  <2>1. Readable' = Readable /\ Refusal' = Refusal /\ Broken' = Broken
    BY <2>0 DEF Readable, Refusal, Broken
  <2>2. CASE written < Readable /\ written' = written + 1 /\ UNCHANGED <<pc, open, result>>
    <3>1. written' \in 0 .. MaxLength /\ written' <= Readable /\ (limit > 0 => written' <= limit)
      BY <2>2, ReadableBounds DEF Types
    <3> QED BY <1>8, <2>0, <2>1, <2>2, <3>1 DEF Copy, Types, TokenKept, Written, SuccessIsWhole
  <2>3. CASE StreamFails /\ open' = Closed /\ UNCHANGED written
    BY <1>8, <2>0, <2>3 DEF Copy, StreamFails, Types, TokenKept, Written, SuccessIsWhole, Labels, Results
  <2>4. CASE /\ written = Readable /\ ~(Broken /\ ~(limit > 0 /\ resp.arrives >= limit))
             /\ pc' = "finish" /\ UNCHANGED <<open, result, written>>
    <3>1. Types' /\ BodiesCounted' /\ TokenKept' /\ SuccessIsWhole'
      BY <1>8, <2>0, <2>4 DEF Copy, Types, TokenKept, Written, SuccessIsWhole, Labels
    <3>2. Written'
      BY <1>8, <2>0, <2>1, <2>4 DEF Copy, Types, Written
    <3> QED BY <3>1, <3>2
  <2> QED BY <1>8, <2>2, <2>3, <2>4 DEF Copy
\* One read past the limit decides.
<1>9. CASE Finish
  <2>1. pc = "finish" /\ pc' = "done" /\ result' = End /\ open' = Closed
        /\ UNCHANGED <<limit, attempt, cancelled, sent, resp, target, written>>
    BY <1>9 DEF Finish
  <2>2. written = Readable /\ (Broken => limit > 0 /\ resp.arrives >= limit)
    BY <2>1 DEF Written
  <2>3. Success(resp.status) /\ resp.status # 206 /\ ~resp.range
    BY <2>1, RefusalMeans DEF Written
  <2>a. End \in Results => Types' /\ BodiesCounted'
    BY <2>1 DEF Types, Labels
  <2>b. TokenKept'
    BY <2>1 DEF TokenKept
  <2>c. Written'
    BY <2>1 DEF Written
  <2>d. limit > 0 => written <= limit
    BY DEF SuccessIsWhole
  <2>4. CASE limit > 0 /\ resp.arrives > limit
    <3>1. End = "too large" /\ resp.length > limit
      BY <2>4 DEF End, Types
    <3> QED BY <2>1, <2>a, <2>b, <2>c, <2>d, <3>1 DEF SuccessIsWhole, Results
  <2>5. CASE ~(limit > 0 /\ resp.arrives > limit) /\ limit > 0 /\ Broken
    <3>1. End = "finish"
      BY <2>5 DEF End
    <3> QED BY <2>1, <2>a, <2>b, <2>c, <2>d, <3>1 DEF SuccessIsWhole, Results
  <2>6. CASE ~(limit > 0 /\ resp.arrives > limit) /\ ~(limit > 0 /\ Broken)
    <3>1. End = "ok" /\ written = resp.arrives
      BY <2>2, <2>6, ReadableBounds DEF End
    <3>2. ~Broken
      BY <2>2, <2>6
    <3>3. written = resp.length
      BY <3>1, <3>2 DEF Types, Broken
    <3> QED BY <2>1, <2>3, <2>a, <2>b, <2>c, <2>d, <3>1, <3>3 DEF SuccessIsWhole, Results, Success
  <2> QED BY <2>4, <2>5, <2>6
\* The caller's context is done.
<1>10. CASE Cancel
  <2>1. Readable' = Readable /\ Refusal' = Refusal /\ Broken' = Broken
    BY <1>10 DEF Cancel, Readable, Refusal, Broken
  <2> QED BY <1>10, <2>1 DEF Cancel, Types, TokenKept, Written, SuccessIsWhole
<1>11. CASE UNCHANGED vars
  <2>1. Readable' = Readable /\ Refusal' = Refusal /\ Broken' = Broken
    BY <1>11 DEF vars, Readable, Refusal, Broken
  <2>2. Types' /\ BodiesCounted' /\ TokenKept'
    BY <1>11 DEF vars, Types, TokenKept
  <2>3. Written' /\ SuccessIsWhole'
    BY <1>11, <2>1 DEF vars, Written, SuccessIsWhole
  <2> QED BY <2>2, <2>3
<1> QED BY <1>1, <1>2, <1>3, <1>4, <1>5, <1>6, <1>7, <1>8, <1>9, <1>10, <1>11 DEF Next, Step

-----------------------------------------------------------------------------
THEOREM Invariance == Spec => []Inv
<1> QED BY InitInv, StepInv, PTL DEF Spec

\* Success means all of the content, of an answer that is whole, within the limit;
\* the limit holds on failure too (download.go:97).
THEOREM WholeSuccess == Spec => []SuccessIsWhole
<1>1. Inv => SuccessIsWhole
  BY DEF Inv
<1> QED BY <1>1, Invariance, PTL

\* The content request has no token and is the last one (download.go:62).
THEOREM TokenStays == Spec => []TokenStaysWithGraph
<1>1. Inv => TokenStaysWithGraph
  BY DEF Inv, Types, TokenKept, TokenStaysWithGraph, Graph, Content
<1> QED BY <1>1, Invariance, PTL

\* No body is left open across a sleep, a second request or a return
\* (download.go:46).
THEOREM BodiesAreClosed == Spec => []BodiesClosed
<1>1. Inv => BodiesClosed
  BY DEF Inv, BodiesCounted, Holding, BodiesClosed
<1> QED BY <1>1, Invariance, PTL

\* What the writer has got comes from one answer, and no request follows it
\* (download.go:23).
THEOREM OneStream == Spec => StreamsOnce
<1>1. Inv /\ [Next]_vars => [written > 0 => UNCHANGED <<sent, resp>>]_vars
  <2> SUFFICES ASSUME Inv, Next, written > 0 PROVE UNCHANGED <<sent, resp>>
    OBVIOUS
  <2>1. pc \in {"copy", "finish", "done"}
    BY DEF Inv, Written
  <2> QED BY <2>1 DEF Next, Step, Prepare, TransportError, Answer, CheckStatus, Sleep, Locate, Body,
          Copy, Finish, Cancel
<1> QED BY <1>1, Invariance, PTL DEF Spec, StreamsOnce
=============================================================================
