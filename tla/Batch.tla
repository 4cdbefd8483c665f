------------------------------- MODULE Batch --------------------------------
(***************************************************************************)
(* JSON batches (src/batch.go), sent with Client.Post, of which this       *)
(* module assumes what RequestContract promises, for a program that works  *)
(* through a set of operations with BatchStrict: it pairs the answers with *)
(* its operations by id, submits again what was refused and keeps apart    *)
(* what it knows nothing about.                                            *)
(*                                                                         *)
(* An operation is a mutation: which of the fields that Batch asks for it  *)
(* has, and its URL: is it given, is it absolute, is it of the base URL's  *)
(* origin (see Origin), has it a part that a URL in a batch may not have,  *)
(* its escaped path cut at the slashes ("/" is <<"">>), has it a query.    *)
(* Service and program are external.                                       *)
(***************************************************************************)
EXTENDS Naturals, Sequences, SequencesExt, FiniteSets

CONSTANTS
  Operations,        \* records [id, method, url]
  Calls,             \* the calls of BatchStrict that the program can make
  UnsafeCalls,       \* those of a client that retries mutations
  MaxBatchRequests,
  BasePath,          \* the path of the base URL, without slashes at its end
  MaxExecutions      \* how often the envelope of an unsafe call may be executed

ASSUME BatchLimits ==
  MaxBatchRequests \in Nat \ {0} /\ MaxExecutions \in Nat \ {0} /\ UnsafeCalls \subseteq Calls
ASSUME CallNames == Calls \cap {"todo", "done", "unknown"} = {}
ASSUME PathsAreSequences ==
  BasePath \in Seq(STRING) /\ \A op \in Operations : op.url.path \in Seq(STRING)

VARIABLES
  phase, mutates, effects, outcome,  \* of the Post of each call: RequestContract
  envelope,  \* what each call sends: for each of its operations the URL
  replies,   \* what the executions of each envelope would answer
  result,    \* what BatchStrict returned
  standing,  \* of each operation: still to do, in which call, done or unknown
  applied    \* how often each operation took effect

Post == INSTANCE RequestContract WITH
  Callers <- Calls, MaxEffects <- MaxExecutions, AtLeastOnce <- [c \in Calls |-> c \in UnsafeCalls]

posted == <<phase, mutates, effects, outcome>>
vars == <<posted, envelope, replies, result, standing, applied>>

\* Subresponses are paired by id; one may be missing.
NoResponses == [op \in {} |-> 0]
Nothing == [err |-> "none", responses |-> NoResponses, failed |-> {}]

Init ==
  /\ Post!Init
  /\ envelope = [c \in Calls |-> NoResponses]
  /\ replies = [c \in Calls |-> {}]
  /\ result = [c \in Calls |-> Nothing]
  /\ standing = [op \in Operations |-> "todo"]
  /\ applied = [op \in Operations |-> 0]

-----------------------------------------------------------------------------
\* Mutant: the base path stays in the URL.
StripNothing(path) == path

\* stripBasePath: what is outside the base path is left as it is.
StripBasePath(path) ==
  IF path = BasePath /\ BasePath # << >> THEN <<"">>
  ELSE IF IsPrefix(BasePath, path) THEN SubSeq(path, Len(BasePath) + 1, Len(path)) ELSE path

\* A relative URL is sent as it is, an absolute one of the base URL's origin
\* relative to the base path, unless nothing is left of it.
Trouble(url) ==
  IF ~url.absolute THEN IF url.odd THEN "invalid url" ELSE "none"
  ELSE IF url.odd \/ ~url.home THEN "untrusted host"
  ELSE IF url.path = << >> /\ ~url.query THEN "missing url" ELSE "none"

NormalizeBatchURL(url) == IF url.absolute THEN StripBasePath(url.path) ELSE url.path

\* Why Batch refuses an operation.
Problem(op) ==
  IF ~op.id THEN "missing id"
  ELSE IF ~op.method THEN "missing method"
  ELSE IF ~op.url.given THEN "missing url"
  ELSE Trouble(op.url)

\* Why it refuses them all: nothing is sent then.
Refusals(ops) ==
  IF ops = {} THEN {"empty"}
  ELSE IF Cardinality(ops) > MaxBatchRequests THEN {"too large"}
  ELSE {Problem(op) : op \in ops} \ {"none"}

Returned(c, err, responses, failed) ==
  result' = [result EXCEPT ![c] = [err |-> err, responses |-> responses, failed |-> failed]]

\* A call that is refused before anything is sent: by Batch, or because an
\* operation's body does not marshal.
Refuse(c, ops) ==
  /\ Post!Refuse(c, TRUE)
  /\ \E err \in IF Refusals(ops) = {} THEN {"encode"} ELSE Refusals(ops) :
       Returned(c, err, NoResponses, {})
  /\ UNCHANGED <<envelope, replies, standing, applied>>

Send(c, ops) ==
  /\ Refusals(ops) = {}
  /\ Post!Call(c, TRUE)
  /\ envelope' = [envelope EXCEPT ![c] = [op \in ops |-> NormalizeBatchURL(op.url)]]
  /\ standing' = [op \in Operations |-> IF op \in ops THEN c ELSE standing[op]]
  /\ UNCHANGED <<replies, result, applied>>

\* The service executes an envelope, each operation by itself: some take effect,
\* the others do not; answers may be missing.
Execute(c) ==
  /\ Post!Effect(c)
  /\ \E done \in SUBSET DOMAIN envelope[c], answered \in SUBSET DOMAIN envelope[c] :
       \E reply \in [answered -> {204, 302}] :
         /\ \A op \in answered : reply[op] = 204 <=> op \in done
         /\ replies' = [replies EXCEPT ![c] = @ \cup {reply}]
         /\ applied' = [op \in Operations |-> applied[op] + (IF op \in done THEN 1 ELSE 0)]
  /\ UNCHANGED <<envelope, result, standing>>

-----------------------------------------------------------------------------
\* Mutant: whatever is no error.
SucceededBelow400(status) == status < 400

\* Mutant: without a body it has failed.
SucceededWithBody(status) == status = 200

Succeeded(status) == status >= 200 /\ status <= 299

FailedBatchResponses(responses) == {op \in DOMAIN responses : ~Succeeded(responses[op])}

\* Post fails, or BatchStrict looks through the subresponses that came.
Return(c) ==
  \/ \E o \in {"rejected", "unknown"} :
       /\ Post!Return(c, o)
       /\ Returned(c, o, NoResponses, {})
       /\ UNCHANGED <<envelope, replies, standing, applied>>
  \/ \E responses \in replies[c] :
       /\ Post!Return(c, "done")
       /\ LET failed == FailedBatchResponses(responses)
          IN Returned(c, IF failed = {} THEN "none" ELSE "batch", responses, failed)
       /\ UNCHANGED <<envelope, replies, standing, applied>>

\* The program takes note: a refusal leaves an operation to do, ErrorFromBatch
\* tells a failed one from one that is done, and of one without an answer nothing
\* is known.
Known(c, op) ==
  IF result[c].err = "rejected" THEN "todo"
  ELSE IF op \notin DOMAIN result[c].responses THEN "unknown"
  ELSE IF op \in result[c].failed THEN "todo" ELSE "done"

Settle(c) ==
  /\ phase[c] = "returned" /\ \E op \in Operations : standing[op] = c
  /\ standing' = [op \in Operations |-> IF standing[op] = c THEN Known(c, op) ELSE standing[op]]
  /\ UNCHANGED <<posted, envelope, replies, result, applied>>

\* One call at a time for an operation.
Next == \E c \in Calls :
  \/ \E ops \in SUBSET {op \in Operations : standing[op] = "todo"} : Send(c, ops) \/ Refuse(c, ops)
  \/ Execute(c) \/ Return(c) \/ Settle(c)

Spec == Init /\ [][Next]_vars

-----------------------------------------------------------------------------
Safe(op) == \A c \in UnsafeCalls : op \notin DOMAIN envelope[c]

\* What "a caller splitting a bulk operation across batches" (batch.go:116) has
\* to be able to rely on: what failed can be submitted again and nothing happens
\* twice, however answers go missing and envelopes arrive late, unless mutations
\* are retried. What is still to do has not been done.
NothingIsRepeated ==
  \A op \in Operations : Safe(op) => applied[op] <= (IF standing[op] = "todo" THEN 0 ELSE 1)

\* What the program takes for done is done, also where the envelope was executed
\* several times, and a BatchStrict without an error ("a BatchError when any
\* subrequest status is outside 2xx", batch.go:102) means it of every operation
\* that was answered.
DoneIsDone ==
  /\ \A op \in Operations : standing[op] = "done" => applied[op] >= 1
  /\ \A c \in Calls : phase[c] = "returned" /\ result[c].err = "none"
       => \A op \in DOMAIN result[c].responses : applied[op] >= 1

\* What the service takes a URL of an envelope for.
Target(path) == BasePath \o path

\* An operation takes effect where its URL points to: the service puts the path
\* of the batch itself before what it finds in the envelope, so the client has to
\* have taken it off. (Of a path outside the base path there is nothing to take
\* off: "/beta/me" is then looked for under the base path. Of the base path
\* itself "/" is left, which adds a slash at the end.)
SubrequestsStayHome ==
  \A op \in Operations, c \in Calls :
    applied[op] > 0 /\ op \in DOMAIN envelope[c] =>
      /\ Problem(op) = "none"
      /\ op.url.absolute /\ IsPrefix(BasePath, op.url.path)
           => op.url.home /\ Target(envelope[c][op]) \in {op.url.path, op.url.path \o <<"">>}
=============================================================================
