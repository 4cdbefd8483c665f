---------------------------- MODULE FilterFields ----------------------------
(***************************************************************************)
(* The scan with which graphmock finds the properties in a rendered        *)
(* $filter (filterFields, src/graphmock/constraints.go).                   *)
(*                                                                         *)
(* A text is a sequence of tokens, a token a sequence of segments: a word  *)
(* is the segments of a property path (<<"from", "emailAddress">> stands   *)
(* for from/emailAddress), or the single one of an operator, a function or *)
(* a number; a delimiter is a token of its own.  The scan takes the text   *)
(* character by character and a word stands between delimiters, so taking  *)
(* one token at a time is the same.  A timestamp is one word here; the     *)
(* scan cuts it at its colons, into parts that all pass for literals.      *)
(***************************************************************************)
EXTENDS Integers, Sequences

Token == Seq(STRING)

Open == <<"(">>
Close == <<")">>
Quote == <<"'">>
Space == <<" ">>
Comma == <<",">>
Colon == <<":">>
Separators == {Space, Comma, Colon}
NoWord == << >>

\* isOperator.
Operators ==
  {<<word>> : word \in {"eq", "ne", "gt", "ge", "lt", "le", "and", "or", "not", "in", "null",
                        "true", "false", "contains", "startswith", "endswith"}}

\* isLiteralish: numbers and timestamps.
Literalish == {<<word>> : word \in {"1", "2", "2026-01-02T03:04:05Z"}}

\* lambdaCollection: a path that ends in any or all.
IsLambda(word) == Len(word) > 1 /\ word[Len(word)] \in {"any", "all"}
Collection(word) == SubSeq(word, 1, Len(word) - 1)

\* The state of the scan before it has read anything.
ScanStart == [word |-> NoWord, quoted |-> FALSE, parens |-> 0, lambdas |-> 0, fields |-> {}]

Scans == [word : Token, quoted : BOOLEAN, parens : Int, lambdas : Nat, fields : SUBSET Token]

\* Mutant: the body of a lambda is read like the rest.
FlushAlways(s) ==
  [s EXCEPT !.word = NoWord,
            !.fields = IF s.word \in {NoWord} \cup Operators \cup Literalish THEN @
                       ELSE @ \cup {s.word}]

\* The word read so far is over: outside lambdas it is a property, unless it is
\* known to be none.
Flush(s) ==
  [s EXCEPT !.word = NoWord,
            !.fields = IF s.lambdas > 0 \/ s.word \in {NoWord} \cup Operators \cup Literalish
                       THEN @ ELSE @ \cup {s.word}]

\* A lambda gives its collection, and its body is opaque.
OpenParen(s) ==
  [(IF IsLambda(s.word)
    THEN [s EXCEPT !.word = NoWord, !.lambdas = @ + 1,
                   !.fields = IF s.lambdas = 0 THEN @ \cup {Collection(s.word)} ELSE @]
    ELSE Flush(s)) EXCEPT !.parens = @ + 1]

\* Mutant: a lambda is over at the first parenthesis closed in it.
ClosesAnyway(lambdas, parens) == lambdas > 0 /\ parens <= lambdas

\* Does closing a parenthesis, with so many still open, close a lambda?
ClosesLambda(lambdas, parens) == lambdas > 0 /\ parens < lambdas

CloseParen(s) ==
  [Flush(s) EXCEPT !.parens = @ - 1,
                   !.lambdas = IF ClosesLambda(@, s.parens - 1) THEN @ - 1 ELSE @]

ScanToken(s, t) ==
  IF t = Quote THEN [s EXCEPT !.quoted = ~@]
  ELSE IF s.quoted THEN s
  ELSE IF t = Open THEN OpenParen(s)
  ELSE IF t = Close THEN CloseParen(s)
  ELSE IF t \in Separators THEN Flush(s)
  ELSE [s EXCEPT !.word = t]
=============================================================================
