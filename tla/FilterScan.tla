----------------------------- MODULE FilterScan -----------------------------
(***************************************************************************)
(* A filter built by the library (its text, and what the library says of   *)
(* it) is read by the scan of graphmock, one token at a time.              *)
(***************************************************************************)
EXTENDS FilterFields

CONSTANT Filters  \* records with a text, the fields FieldsOf gives, and what Filter.tla adds
ASSUME FilterTexts == \A f \in Filters : f.text \in Seq(Token)

VARIABLES
  filter,  \* the one that is read
  cursor,  \* the token that is next
  scan,    \* token, inLiteral, parens, lambdaDepth and fields of filterFields
  bound,   \* how deep the lambdas that are open were opened (a history variable)
  surplus  \* was a parenthesis closed that none had opened? (history)

scanVars == <<filter, cursor, scan, bound, surplus>>

ScanInit ==
  /\ filter \in Filters
  /\ cursor = 1
  /\ scan = ScanStart
  /\ bound = {}
  /\ surplus = FALSE

\* The lambdas whose body the text is in after a token.
BoundAfter(t) ==
  IF scan.quoted THEN bound
  ELSE IF t = Open /\ IsLambda(scan.word) THEN bound \cup {scan.parens + 1}
  ELSE IF t = Close THEN bound \ {scan.parens}
  ELSE bound

Read ==
  /\ cursor <= Len(filter.text)
  /\ scan' = ScanToken(scan, filter.text[cursor])
  /\ bound' = BoundAfter(filter.text[cursor])
  /\ surplus' = (surplus \/ scan'.parens < 0)
  /\ cursor' = cursor + 1
  /\ UNCHANGED filter

\* The flush after the last token.
Finish ==
  /\ cursor = Len(filter.text) + 1
  /\ scan' = Flush(scan)
  /\ cursor' = cursor + 1
  /\ UNCHANGED <<filter, bound, surplus>>

ScanNext == Read \/ Finish

ScanSpec == ScanInit /\ [][ScanNext]_scanVars

Done == cursor = Len(filter.text) + 2

-----------------------------------------------------------------------------
ScanTypeOK ==
  /\ filter \in Filters
  /\ cursor \in 1 .. Len(filter.text) + 2
  /\ scan \in Scans
  /\ bound \in SUBSET Int
  /\ surplus \in BOOLEAN

\* "Everything in there is bound to the lambda variable and is not a property of
\* the resource, so emitting it would report "c" as a field" (constraints.go:173):
\* as long as the text is in the body of a lambda, however deep its parentheses
\* and the lambdas around it are, the scan reports nothing, if the parentheses match.
NothingBoundIsReported == [][bound # {} /\ ~surplus => scan'.fields = scan.fields]_scanVars

\* What makes it hold: inside a lambda the scan knows that it is in one, though
\* it counts lambdas and parentheses apart; it never counts more lambdas than
\* parentheses, so that it closes them all in the end.
OpaqueLambdas ==
  ~surplus => /\ bound # {} => scan.lambdas > 0
              /\ \A depth \in bound : depth \in 1 .. scan.parens
              /\ scan.lambdas <= scan.parens

\* The two readings of a filter agree, the one of the expression tree (FieldsOf,
\* filter.go:254) and the one of the text: the scan reports no property that the
\* expression does not have, and misses none unless a lambda stands before it in
\* the same group. It ends outside literals, parentheses and lambdas.
ScanIsExact ==
  Done /\ ~filter.raw =>
    /\ scan.fields \subseteq filter.fields
    /\ ~filter.overtaken => scan.fields = filter.fields
    /\ ~scan.quoted /\ scan.parens = 0 /\ scan.lambdas = 0

\* "This scan is deliberately generous [...] so the constraint errs towards
\* rejecting rather than towards quietly permitting" (constraints.go:166): it
\* misses no property of the expression.
NothingIsMissed == Done /\ ~filter.raw => filter.fields \subseteq scan.fields
=============================================================================
