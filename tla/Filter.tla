------------------------------- MODULE Filter -------------------------------
(***************************************************************************)
(* Typed $filter expressions (src/filter.go) and the $filter that Params   *)
(* makes of one (src/params.go).  An expression is                         *)
(*   text       what ODataFilter renders                                   *)
(*   fields     what FieldsOf reports                                      *)
(*   raw        what ContainsRaw reports                                   *)
(* and, not of the code but to compare with,                               *)
(*   tree       the condition that it was built to be                      *)
(*   lambda     is there a lambda, outside the body of one?                *)
(*   overtaken  does an operand follow one with a lambda?                  *)
(***************************************************************************)
EXTENDS FilterTree

Nil == [text |-> << >>, nil |-> TRUE]

Expr(text, fields, tree) ==
  [text |-> text, fields |-> fields, raw |-> FALSE, tree |-> tree,
   lambda |-> FALSE, overtaken |-> FALSE]

Joined(texts, separator) ==
  FlattenSeq([i \in DOMAIN texts |-> IF i = 1 THEN texts[i] ELSE separator \o texts[i]])

-----------------------------------------------------------------------------
\* A value is the tokens of a string, or one that is a number, a timestamp or null.
Plain(word) == [is |-> "plain", of |-> <<word>>]
Text(tokens) == [is |-> "string", of |-> tokens]
Null == Plain("null")

\* Mutant: apostrophes stay as they are.
QuoteBare(value) == <<Quote>> \o value \o <<Quote>>

\* quoteODataString: every quote in it is doubled.
QuoteODataString(value) ==
  <<Quote>> \o FlattenSeq([i \in DOMAIN value |->
                 IF value[i] = Quote THEN <<Quote, Quote>> ELSE <<value[i]>>]) \o <<Quote>>

LiteralOf(value) == IF value.is = "string" THEN QuoteODataString(value.of) ELSE <<value.of>>
Meant(value) == IF value.is = "string" THEN Literal(value.of) ELSE Word(value.of)

Comparison(field, operator, value) ==
  Expr(<<field, Space, <<operator>>, Space>> \o LiteralOf(value), {field},
       Compare(field, <<operator>>, Meant(value)))

Function(name, field, value) ==
  Expr(<< <<name>>, Open, field, Comma>> \o LiteralOf(value) \o <<Close>>, {field},
       Call(<<name>>, field, Meant(value)))

\* An empty list is a syntax error and no filter.
In(field, values) ==
  IF values = << >> THEN Nil
  ELSE Expr(<<field, Space, <<"in">>, Space, Open>>
              \o Joined([i \in DOMAIN values |-> LiteralOf(values[i])], <<Comma>>) \o <<Close>>,
            {field}, OneOf(field, [i \in DOMAIN values |-> Meant(values[i])]))

\* The caller owns the text: nothing is said of its fields.
Raw(text) == [Expr(text, {}, Unread(text)) EXCEPT !.raw = TRUE]

-----------------------------------------------------------------------------
Grouped(text) == <<Open>> \o text \o <<Close>>

FieldsOfAll(operands) == UNION {operands[i].fields : i \in DOMAIN operands}

Logical(operator, operands) ==
  [text |-> Grouped(Joined([i \in DOMAIN operands |-> operands[i].text],
                           <<Space, <<operator>>, Space>>)),
   fields |-> FieldsOfAll(operands),
   raw |-> \E i \in DOMAIN operands : operands[i].raw,
   tree |-> Node(operator, [i \in DOMAIN operands |-> operands[i].tree]),
   lambda |-> \E i \in DOMAIN operands : operands[i].lambda,
   overtaken |-> \E i \in DOMAIN operands :
                   operands[i].overtaken \/ (i < Len(operands) /\ operands[i].lambda)]

\* And, Or: nil operands are skipped, and one that is left alone stays as it is.
Combine(operator, operands) ==
  LET kept == FlattenSeq([i \in DOMAIN operands |->
                IF operands[i] = Nil THEN << >> ELSE <<operands[i]>>])
  IN IF kept = << >> THEN Nil
     ELSE IF Len(kept) = 1 THEN kept[1]
     ELSE Logical(operator, kept)

Not(e) ==
  IF e = Nil THEN Nil
  ELSE [e EXCEPT !.text = << <<"not">>, Space>> \o <<Open>> \o @ \o <<Close>>,
                 !.tree = Negation(@)]

\* The fields of the predicate are bound to the variable.
Lambda(collection, operator, variable, predicate) ==
  IF predicate = Nil THEN Nil
  ELSE [predicate EXCEPT
          !.text = <<Append(collection, operator), Open, variable, Colon>> \o @ \o <<Close>>,
          !.fields = {collection},
          !.tree = Quantified(collection, operator, variable, @),
          !.lambda = TRUE, !.overtaken = FALSE]

\* Params.filterValue: a raw filter narrows the typed one.
Enclosed(tree) == IF tree.is = "raw" THEN Unread(Grouped(tree.of)) ELSE tree
FilterValue(where, filter) ==
  IF where = Nil THEN filter
  ELSE IF filter = Nil THEN where
  ELSE [where EXCEPT
          !.text = Grouped(@) \o <<Space, <<"and">>, Space>> \o Grouped(filter.text),
          !.fields = @ \cup filter.fields, !.raw = TRUE,
          !.tree = Node("and", <<Enclosed(@), Enclosed(filter.tree)>>)]
=============================================================================
