---------------------------- MODULE BatchProofs ----------------------------
(***************************************************************************)
(* Batches of any number of operations and calls, however answers go       *)
(* missing and envelopes arrive late.                                      *)
(***************************************************************************)
EXTENDS Batch, SequenceTheorems, TLAPS

Typed ==
  /\ phase \in [Calls -> {"idle", "open", "returned"}]
  /\ effects \in [Calls -> Nat]
  /\ DOMAIN mutates = Calls /\ DOMAIN outcome = Calls
  /\ DOMAIN envelope = Calls /\ DOMAIN replies = Calls /\ DOMAIN result = Calls
  /\ standing \in [Operations -> Calls \cup {"todo", "done", "unknown"}]
  /\ applied \in [Operations -> Nat]

\* Nothing is sent, executed or answered before the call; what is sent are
\* operations that Batch takes, under the URL it normalizes (batch.go:55).
Sent ==
  \A c \in Calls :
    /\ phase[c] = "idle" => DOMAIN envelope[c] = {} /\ effects[c] = 0 /\ replies[c] = {}
    /\ DOMAIN envelope[c] \subseteq Operations
    /\ \A op \in DOMAIN envelope[c] :
         Problem(op) = "none" /\ envelope[c][op] = NormalizeBatchURL(op.url)

\* What may be answered is what executions did, and the effect stays.
Answers ==
  \A c \in Calls :
    /\ replies[c] # {} => effects[c] > 0
    /\ \A reply \in replies[c] : \A op \in DOMAIN reply :
         /\ op \in Operations
         /\ reply[op] \in {204, 302}
         /\ reply[op] = 204 => applied[op] > 0

\* A result is made of an answer or of none, and says which failed; a call of a
\* client without unsafe retries that was rejected has had no effect.
Results ==
  \A c \in Calls :
    /\ result[c].responses \in replies[c] \cup {NoResponses}
    /\ result[c].failed = FailedBatchResponses(result[c].responses)
    /\ result[c].err = "none" => result[c].failed = {}
    /\ result[c].err = "rejected" => outcome[c] = "rejected"
    /\ outcome[c] = "rejected" => phase[c] = "returned" /\ (c \notin UnsafeCalls => effects[c] = 0)

\* What the program notes of an operation.
Notes ==
  \A op \in Operations :
    /\ \A c \in Calls : standing[op] = c => op \in DOMAIN envelope[c]
    /\ standing[op] = "done" => applied[op] > 0

\* The envelope of a call that is spent is never executed again, unless the
\* client retries mutations.
Spent(c) == effects[c] > 0 \/ outcome[c] = "rejected"

\* An envelope that may still be executed is the only one of its kind: none of
\* its operations has taken effect, is to do or done, or is in another such
\* envelope.
Pending(op, c) ==
  op \in DOMAIN envelope[c] /\ ~Spent(c) =>
    /\ applied[op] = 0 /\ standing[op] \in {c, "unknown"}
    /\ \A d \in Calls : op \in DOMAIN envelope[d] /\ ~Spent(d) => d = c

\* As long as an operation is in a call, what the program may learn of it there
\* is true.
InCall(op, c) ==
  standing[op] = c =>
    /\ effects[c] = 0 => applied[op] = 0
    /\ \A reply \in replies[c] : op \in DOMAIN reply /\ reply[op] # 204 => applied[op] = 0

Once(op) ==
  /\ applied[op] <= 1
  /\ standing[op] = "todo" => applied[op] = 0
  /\ \A c \in Calls : Pending(op, c) /\ InCall(op, c)

OnceOnly == \A op \in Operations : Safe(op) => Once(op)

IInv == Typed /\ Sent /\ Answers /\ Results /\ Notes /\ OnceOnly

-----------------------------------------------------------------------------
LEMMA InitInv == Init => IInv
<1> SUFFICES ASSUME Init PROVE IInv
  OBVIOUS
<1> USE DEF Init, Post!Init
<1>1. Typed
  BY DEF Typed
<1>2. Sent
  BY DEF Sent, NoResponses
<1>3. Answers
  BY DEF Answers
<1>4. Results
  BY DEF Results, Nothing, NoResponses, FailedBatchResponses
<1>5. Notes
  BY CallNames DEF Notes
<1>6. OnceOnly
  BY CallNames DEF OnceOnly, Once, Pending, InCall, NoResponses
<1> QED BY <1>1, <1>2, <1>3, <1>4, <1>5, <1>6 DEF IInv

\* An operation whose calls are all of clients without unsafe retries is in no
\* envelope of another client.
LEMMA SafeCalls ==
  ASSUME NEW op, Safe(op), NEW c \in Calls, op \in DOMAIN envelope[c]
  PROVE  c \notin UnsafeCalls
BY DEF Safe

LEMMA RefuseKeeps ==
  ASSUME IInv, NEW c \in Calls, NEW ops, Refuse(c, ops)
  PROVE  IInv'
<1> USE DEF Refuse, Post!Refuse
<1>1. Typed'
  BY DEF IInv, Typed, Returned
<1>2. Sent'
  BY DEF IInv, Typed, Sent
<1>3. Answers'
  BY DEF IInv, Typed, Answers
<1>4. Results'
  BY DEF IInv, Typed, Sent, Results, Returned, NoResponses, FailedBatchResponses
<1>5. Notes'
  BY DEF IInv, Typed, Notes
<1>6. OnceOnly'
  BY DEF IInv, Typed, Sent, OnceOnly, Once, Pending, InCall, Spent, Safe
<1> QED BY <1>1, <1>2, <1>3, <1>4, <1>5, <1>6 DEF IInv

\* What is sent is still to do, so it has had no effect and no pending envelope
\* holds it.
LEMMA SendKeeps ==
  ASSUME IInv, NEW c \in Calls, NEW ops \in SUBSET {op \in Operations : standing[op] = "todo"},
         Send(c, ops)
  PROVE  IInv'
<1> USE DEF Send, Post!Call
<1>1. Typed'
  BY DEF IInv, Typed
<1>2. \A op \in ops : Problem(op) = "none"
  BY DEF Refusals
<1>3. envelope'[c] = [op \in ops |-> NormalizeBatchURL(op.url)]
      /\ \A d \in Calls \ {c} : envelope'[d] = envelope[d]
  BY DEF IInv, Typed
<1>4. Sent'
  BY <1>2, <1>3 DEF IInv, Typed, Sent
<1>5. Answers'
  BY DEF IInv, Answers
<1>6. Results'
  BY DEF IInv, Results
<1>7. DOMAIN envelope[c] = {} /\ effects[c] = 0 /\ replies[c] = {}
  BY DEF IInv, Sent
<1>8. Notes'
  BY <1>3, <1>7, CallNames DEF IInv, Typed, Notes
<1>9. ASSUME NEW op \in Operations, Safe(op)' PROVE Once(op)'
  <2>1. Safe(op)
    BY <1>3, <1>7, <1>9, BatchLimits DEF Safe
  <2>2. Once(op)
    BY <2>1 DEF IInv, OnceOnly
  <2>3. CASE op \in ops
    BY <1>3, <1>7, <2>2, <2>3, CallNames DEF IInv, Typed, Once, Pending, InCall, Spent
  <2>4. CASE op \notin ops
    BY <1>3, <1>7, <2>2, <2>4 DEF IInv, Typed, Once, Pending, InCall, Spent
  <2> QED BY <2>3, <2>4
<1> QED BY <1>1, <1>4, <1>5, <1>6, <1>8, <1>9 DEF IInv, OnceOnly

\* An execution of a call without unsafe retries is its first, of a pending
\* envelope.
LEMMA ExecuteKeeps ==
  ASSUME IInv, NEW c \in Calls, Execute(c)
  PROVE  IInv'
<1>1. PICK done \in SUBSET DOMAIN envelope[c], answered \in SUBSET DOMAIN envelope[c] :
        \E reply \in [answered -> {204, 302}] :
          /\ \A op \in answered : reply[op] = 204 <=> op \in done
          /\ replies' = [replies EXCEPT ![c] = @ \cup {reply}]
          /\ applied' = [op \in Operations |-> applied[op] + (IF op \in done THEN 1 ELSE 0)]
  BY DEF Execute
<1>2. PICK reply \in [answered -> {204, 302}] :
        /\ \A op \in answered : reply[op] = 204 <=> op \in done
        /\ replies' = [replies EXCEPT ![c] = @ \cup {reply}]
        /\ applied' = [op \in Operations |-> applied[op] + (IF op \in done THEN 1 ELSE 0)]
  BY <1>1
<1>3. /\ phase[c] # "idle" /\ effects[c] < Post!Limit(c)
      /\ outcome[c] = "rejected" => c \in UnsafeCalls
      /\ effects' = [effects EXCEPT ![c] = @ + 1]
      /\ UNCHANGED <<phase, mutates, outcome, envelope, result, standing>>
  BY DEF Execute, Post!Effect
<1>4. Typed'
  BY <1>2, <1>3 DEF IInv, Typed
<1>5. effects'[c] > 0 /\ \A d \in Calls \ {c} : effects'[d] = effects[d]
  BY <1>3 DEF IInv, Typed
<1>6. replies'[c] = replies[c] \cup {reply} /\ \A d \in Calls \ {c} : replies'[d] = replies[d]
  BY <1>2 DEF IInv, Typed
<1>7. /\ \A op \in Operations : applied'[op] >= applied[op]
      /\ \A op \in done : applied'[op] = applied[op] + 1
      /\ \A op \in Operations \ done : applied'[op] = applied[op]
  BY <1>2 DEF IInv, Typed, Sent
<1>8. Sent'
  BY <1>3, <1>5, <1>6 DEF IInv, Sent
<1>9. Answers'
  BY <1>2, <1>5, <1>6, <1>7 DEF IInv, Typed, Sent, Answers
<1>10. Results'
  BY <1>3, <1>5, <1>6 DEF IInv, Results
<1>11. Notes'
  BY <1>3, <1>7 DEF IInv, Typed, Notes
<1>12. ASSUME NEW op \in Operations, Safe(op)' PROVE Once(op)'
  <2>1. Once(op) /\ Safe(op)
    BY <1>3, <1>12 DEF IInv, OnceOnly, Safe
  <2>2. CASE op \in DOMAIN envelope[c]
    <3> c \notin UnsafeCalls
      BY <2>1, <2>2, SafeCalls
    <3> Post!Limit(c) = 1
      BY DEF Post!Limit
    <3>1. effects[c] = 0 /\ ~Spent(c) /\ replies[c] = {}
      BY <1>3 DEF IInv, Typed, Answers, Spent
    <3>2. /\ applied[op] = 0 /\ standing[op] \in {c, "unknown"}
          /\ \A d \in Calls : op \in DOMAIN envelope[d] /\ ~Spent(d) => d = c
      BY <2>1, <2>2, <3>1 DEF Once, Pending
    <3>3. applied'[op] <= 1 /\ standing'[op] # "todo"
      BY <1>3, <1>7, <3>2, CallNames
    <3>4. ASSUME NEW d \in Calls PROVE Pending(op, d)'
      BY <1>3, <1>5, <3>2 DEF Pending, Spent
    <3>5. ASSUME NEW d \in Calls PROVE InCall(op, d)'
      BY <1>2, <1>3, <1>5, <1>6, <1>7, <3>1, <3>2, CallNames DEF InCall
    <3> QED BY <3>3, <3>4, <3>5 DEF Once
  <2>3. CASE op \notin DOMAIN envelope[c]
    <3>1. applied'[op] = applied[op] /\ standing[op] # c
      BY <1>7, <2>3 DEF IInv, Notes
    <3>2. ASSUME NEW d \in Calls PROVE Pending(op, d)'
      BY <1>3, <1>5, <2>1, <2>3, <3>1 DEF Once, Pending, Spent
    <3>3. ASSUME NEW d \in Calls PROVE InCall(op, d)'
      BY <1>3, <1>5, <1>6, <2>1, <3>1 DEF Once, InCall
    <3> QED BY <1>3, <2>1, <3>1, <3>2, <3>3 DEF Once
  <2> QED BY <2>2, <2>3
<1> QED BY <1>4, <1>8, <1>9, <1>10, <1>11, <1>12 DEF IInv, OnceOnly

\* What a call returns follows from an answer, or it says that there is none.
LEMMA ReturnKeeps ==
  ASSUME IInv, NEW c \in Calls, Return(c)
  PROVE  IInv'
<1>1. PICK o \in {"rejected", "unknown", "done"} : Post!Return(c, o)
        /\ \/ o # "done" /\ Returned(c, o, NoResponses, {})
           \/ /\ o = "done"
              /\ \E responses \in replies[c] :
                   LET failed == FailedBatchResponses(responses)
                   IN Returned(c, IF failed = {} THEN "none" ELSE "batch", responses, failed)
  BY DEF Return
<1>2. UNCHANGED <<mutates, effects, envelope, replies, standing, applied>>
  BY DEF Return, Post!Return
<1>3. /\ phase[c] = "open" /\ phase' = [phase EXCEPT ![c] = "returned"]
      /\ outcome' = [outcome EXCEPT ![c] = o]
      /\ o = "rejected" => effects[c] = 0 \/ c \in UnsafeCalls
  BY <1>1 DEF Post!Return
<1>4. outcome'[c] = o /\ \A d \in Calls \ {c} : outcome'[d] = outcome[d]
  BY <1>3 DEF IInv, Typed
<1>5. DOMAIN result' = Calls /\ \A d \in Calls \ {c} : result'[d] = result[d]
  BY <1>1 DEF IInv, Typed, Returned
<1>6. Typed'
  BY <1>2, <1>3, <1>5 DEF IInv, Typed
<1>7. Sent'
  BY <1>2, <1>3 DEF IInv, Typed, Sent
<1>8. Answers'
  BY <1>2 DEF IInv, Answers
<1>9. /\ result'[c].responses \in replies[c] \cup {NoResponses}
      /\ result'[c].failed = FailedBatchResponses(result'[c].responses)
      /\ result'[c].err = "none" => result'[c].failed = {}
      /\ result'[c].err = "rejected" => o = "rejected"
  <2>1. CASE o # "done"
    <3>1. result'[c] = [err |-> o, responses |-> NoResponses, failed |-> {}]
      BY <1>1, <2>1 DEF IInv, Typed, Returned
    <3>2. FailedBatchResponses(NoResponses) = {}
      BY DEF FailedBatchResponses, NoResponses
    <3> QED BY <2>1, <3>1, <3>2
  <2>2. CASE o = "done"
    <3>1. PICK responses \in replies[c] :
            result'[c] = [err |-> IF FailedBatchResponses(responses) = {} THEN "none" ELSE "batch",
                          responses |-> responses, failed |-> FailedBatchResponses(responses)]
      BY <1>1, <2>2 DEF IInv, Typed, Returned
    <3> QED BY <3>1
  <2> QED BY <2>1, <2>2
<1>10. Results'
  BY <1>2, <1>3, <1>4, <1>5, <1>9 DEF IInv, Typed, Results
<1>11. Notes'
  BY <1>2 DEF IInv, Notes
<1>12. ASSUME NEW op \in Operations, Safe(op)' PROVE Once(op)'
  <2>1. Once(op) /\ Safe(op)
    BY <1>2, <1>12 DEF IInv, OnceOnly, Safe
  <2>2. \A d \in Calls : ~Spent(d)' => ~Spent(d)
    BY <1>2, <1>3, <1>4 DEF Spent, IInv, Results
  <2> QED BY <1>2, <2>1, <2>2 DEF Once, Pending, InCall
<1> QED BY <1>6, <1>7, <1>8, <1>10, <1>11, <1>12 DEF IInv, OnceOnly

\* The program learns the truth: what it submits again has had no effect.
LEMMA SettleKeeps ==
  ASSUME IInv, NEW c \in Calls, Settle(c)
  PROVE  IInv'
<1>1. /\ phase[c] = "returned"
      /\ UNCHANGED <<phase, mutates, effects, outcome, envelope, replies, result, applied>>
      /\ standing' = [op \in Operations |-> IF standing[op] = c THEN Known(c, op) ELSE standing[op]]
  BY DEF Settle, posted
<1>2. \A op \in Operations : Known(c, op) \in {"todo", "done", "unknown"}
  BY DEF Known
<1>3. Typed'
  BY <1>1, <1>2 DEF IInv, Typed
<1>4. Sent' /\ Answers' /\ Results'
  BY <1>1 DEF IInv, Sent, Answers, Results
\* What is known of an operation that the call answered is what the answer says.
<1>5. ASSUME NEW op \in Operations, Known(c, op) # "unknown", result[c].err # "rejected"
      PROVE  /\ result[c].responses \in replies[c] /\ op \in DOMAIN result[c].responses
             /\ Known(c, op) = IF result[c].responses[op] = 204 THEN "done" ELSE "todo"
  <2>1. op \in DOMAIN result[c].responses
    BY <1>5 DEF Known
  <2>2. result[c].responses \in replies[c]
    BY <2>1 DEF IInv, Results, NoResponses
  <2>3. result[c].responses[op] \in {204, 302}
    BY <2>1, <2>2 DEF IInv, Answers
  <2>4. op \in result[c].failed <=> result[c].responses[op] # 204
    BY <2>1, <2>3 DEF IInv, Results, FailedBatchResponses, Succeeded
  <2> QED BY <1>5, <2>1, <2>2, <2>4 DEF Known
<1>6. Notes'
  <2>1. ASSUME NEW op \in Operations, standing'[op] = "done" PROVE applied[op] > 0
    <3>1. CASE standing[op] = c
      <4>1. Known(c, op) = "done"
        BY <1>1, <2>1, <3>1
      <4>2. result[c].err # "rejected"
        BY <4>1 DEF Known
      <4> QED BY <1>5, <4>1, <4>2 DEF IInv, Answers
    <3>2. CASE standing[op] # c
      BY <1>1, <2>1, <3>2 DEF IInv, Notes
    <3> QED BY <3>1, <3>2
  <2>2. ASSUME NEW op \in Operations, NEW d \in Calls, standing'[op] = d
        PROVE  op \in DOMAIN envelope[d]
    BY <1>1, <1>2, <2>2, CallNames DEF IInv, Notes
  <2> QED BY <1>1, <2>1, <2>2 DEF Notes
<1>7. ASSUME NEW op \in Operations, Safe(op)' PROVE Once(op)'
  <2>1. Once(op) /\ Safe(op)
    BY <1>1, <1>7 DEF IInv, OnceOnly, Safe
  <2>2. CASE standing[op] # c
    BY <1>1, <2>1, <2>2 DEF Once, Pending, InCall, Spent
  <2>3. CASE standing[op] = c
    <3>1. op \in DOMAIN envelope[c] /\ c \notin UnsafeCalls
      BY <2>1, <2>3, SafeCalls DEF IInv, Notes
    <3>2. standing'[op] = Known(c, op)
      BY <1>1, <2>3
    <3>3. Known(c, op) # "unknown" => Spent(c)
      BY <1>5 DEF Known, Spent, IInv, Results, Answers
    <3>4. Known(c, op) = "todo" => applied[op] = 0
      <4>1. CASE result[c].err = "rejected"
        BY <2>1, <2>3, <3>1, <4>1 DEF IInv, Results, Once, InCall
      <4>2. ASSUME result[c].err # "rejected", Known(c, op) = "todo" PROVE applied[op] = 0
        <5>1. result[c].responses \in replies[c] /\ op \in DOMAIN result[c].responses
          BY <1>5, <4>2
        <5>2. result[c].responses[op] # 204
          BY <1>5, <4>2
        <5> QED BY <2>1, <2>3, <5>1, <5>2 DEF Once, InCall
      <4> QED BY <4>1, <4>2
    <3>5. ASSUME NEW d \in Calls PROVE Pending(op, d)' /\ InCall(op, d)'
      BY <1>1, <1>2, <2>1, <2>3, <3>2, <3>3, CallNames DEF Once, Pending, InCall, Spent
    <3> QED BY <1>1, <2>1, <3>2, <3>4, <3>5 DEF Once
  <2> QED BY <2>2, <2>3
<1> QED BY <1>3, <1>4, <1>6, <1>7 DEF IInv, OnceOnly

LEMMA StepInv == IInv /\ [Next]_vars => IInv'
<1> SUFFICES ASSUME IInv, [Next]_vars PROVE IInv'
  OBVIOUS
<1>1. CASE UNCHANGED vars
  BY <1>1 DEF vars, posted, IInv, Typed, Sent, Answers, Results, Notes, OnceOnly, Once, Pending,
     InCall, Spent, Safe
<1>2. CASE Next
  <2>1. PICK c \in Calls :
          \/ \E ops \in SUBSET {op \in Operations : standing[op] = "todo"} : Send(c, ops) \/ Refuse(c, ops)
          \/ Execute(c) \/ Return(c) \/ Settle(c)
    BY <1>2 DEF Next
  <2> QED BY <2>1, RefuseKeeps, SendKeeps, ExecuteKeeps, ReturnKeeps, SettleKeeps
<1> QED BY <1>1, <1>2

THEOREM Invariance == Spec => []IInv
<1> QED BY InitInv, StepInv, PTL DEF Spec

-----------------------------------------------------------------------------
\* Whatever failed, was refused or went missing, an operation that was never in a
\* batch of a client with unsafe retries takes effect once at most, and not at all
\* while it is still to do (batch.go:116).
THEOREM NoRepetition == Spec => []NothingIsRepeated
<1>1. IInv => NothingIsRepeated
  BY DEF IInv, OnceOnly, Once, NothingIsRepeated
<1> QED BY <1>1, Invariance, PTL

\* What BatchStrict reports as done, or returns without an error, has taken effect
\* (batch.go:102).
THEOREM ReportedIsDone == Spec => []DoneIsDone
<1>1. ASSUME IInv, NEW c \in Calls, result[c].err = "none", NEW op \in DOMAIN result[c].responses
      PROVE  applied[op] >= 1
  <2>1. result[c].responses \in replies[c]
    BY <1>1 DEF IInv, Results, NoResponses
  <2>2. op \in Operations /\ applied[op] \in Nat
    BY <1>1, <2>1 DEF IInv, Answers, Typed
  <2>3. Succeeded(result[c].responses[op])
    BY <1>1 DEF IInv, Results, FailedBatchResponses
  <2>4. result[c].responses[op] = 204
    BY <1>1, <2>1, <2>3 DEF IInv, Answers, Succeeded
  <2> QED BY <1>1, <2>1, <2>2, <2>4 DEF IInv, Answers
<1>2. ASSUME IInv, NEW op \in Operations, standing[op] = "done" PROVE applied[op] >= 1
  BY <1>2 DEF IInv, Typed, Notes
<1>3. IInv => DoneIsDone
  BY <1>1, <1>2 DEF DoneIsDone
<1> QED BY <1>3, Invariance, PTL

\* Putting the base path back in front of what stripBasePath left of a path under
\* it gives the path, with a slash at its end when nothing was left.
LEMMA StripIsUndone ==
  ASSUME NEW path \in Seq(STRING), IsPrefix(BasePath, path)
  PROVE  Target(StripBasePath(path)) \in {path, path \o <<"">>}
<1> USE PathsAreSequences
<1>1. CASE path = BasePath /\ BasePath # << >>
  BY <1>1 DEF Target, StripBasePath
<1>2. CASE ~(path = BasePath /\ BasePath # << >>)
  <2> DEFINE n == Len(BasePath)
  <2>1. n \in Nat /\ n <= Len(path) /\ BasePath = SubSeq(path, 1, n)
    BY SubSeqFull DEF IsPrefix
  <2>2. SubSeq(path, 1, n) \o SubSeq(path, n + 1, Len(path)) = SubSeq(path, 1, Len(path))
    <3>1. 1 \in 1 .. Len(path) + 1 /\ n \in 1 - 1 .. Len(path) /\ Len(path) \in n .. Len(path)
      BY <2>1
    <3> QED BY <3>1, ConcatAdjacentSubSeq
  <2>3. SubSeq(path, 1, Len(path)) = path
    BY SubSeqFull
  <2> QED BY <1>2, <2>1, <2>2, <2>3 DEF Target, StripBasePath
<1> QED BY <1>1, <1>2

\* An operation that took effect was one that Batch takes, and one with an absolute
\* URL under the base path took effect at that URL (batch.go:156).
THEOREM EffectsStayHome == Spec => []SubrequestsStayHome
<1>1. ASSUME IInv, NEW op \in Operations, NEW c \in Calls, op \in DOMAIN envelope[c]
      PROVE  /\ Problem(op) = "none"
             /\ op.url.absolute /\ IsPrefix(BasePath, op.url.path)
                  => op.url.home /\ Target(envelope[c][op]) \in {op.url.path, op.url.path \o <<"">>}
  <2>1. Problem(op) = "none" /\ envelope[c][op] = NormalizeBatchURL(op.url)
    BY <1>1 DEF IInv, Sent
  <2>2. op.url.absolute => op.url.home
    BY <2>1 DEF Problem, Trouble
  <2> QED BY <2>1, <2>2, PathsAreSequences, StripIsUndone DEF NormalizeBatchURL
<1>2. IInv => SubrequestsStayHome
  BY <1>1 DEF SubrequestsStayHome
<1> QED BY <1>2, Invariance, PTL
=============================================================================
