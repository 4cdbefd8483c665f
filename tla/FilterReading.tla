--------------------------- MODULE FilterReading ----------------------------
(***************************************************************************)
(* How the service reads a $filter: the grammar of OData, as far as the    *)
(* filters that this library builds go.  External: the service's own code, *)
(* modelled from what src/filter.go renders.                               *)
(***************************************************************************)
EXTENDS FilterTree

\* Words: a literal is everything between its quotes, where two quotes are one.
End == Word(NoWord)

LexToken(s, t) ==
  IF s.closing /\ t = Quote THEN [s EXCEPT !.closing = FALSE, !.value = Append(@, Quote)]
  ELSE IF s.within /\ ~s.closing
       THEN IF t = Quote THEN [s EXCEPT !.closing = TRUE] ELSE [s EXCEPT !.value = Append(@, t)]
  ELSE LET words == IF s.closing THEN Append(s.words, Literal(s.value)) ELSE s.words
       IN [words |-> IF t \in {Space, Quote} THEN words ELSE Append(words, Word(t)),
           within |-> t = Quote, closing |-> FALSE, value |-> << >>]

Words(text) ==
  FoldLeft(LexToken, [words |-> << >>, within |-> FALSE, closing |-> FALSE, value |-> << >>],
           Append(text, Space)).words

\* A reading of the first words: the condition they are and what follows it.
Reading(tree, rest) == [tree |-> tree, rest |-> rest]
Wrong == Reading(SyntaxError, << >>)
At(words, i) == IF i \in DOMAIN words THEN words[i] ELSE End
After(words, i) == SubSeq(words, i + 1, Len(words))
Is(word, t) == word = Word(t)

\* A condition that a parenthesis has to close after a reading.
Closed(reading, tree) ==
  IF Is(At(reading.rest, 1), Close) THEN Reading(tree, After(reading.rest, 1)) ELSE Wrong

RECURSIVE Literals(_)
Literals(words) ==
  <<At(words, 1)>> \o IF Is(At(words, 2), Comma) THEN Literals(After(words, 2)) ELSE << >>

\* A comparison, a list of values or a function of a property.
List(words, literals) ==
  Closed(Reading("list", After(words, 2 * Len(literals) + 2)), OneOf(words[1].of, literals))
ReadPlain(words) ==
  IF Is(At(words, 2), <<"in">>) /\ Is(At(words, 3), Open)
  THEN List(words, Literals(After(words, 3)))
  ELSE IF Is(At(words, 2), Open) /\ Is(At(words, 4), Comma)
  THEN Closed(Reading("call", After(words, 5)), Call(words[1].of, words[3].of, At(words, 5)))
  ELSE IF At(words, 2).of \in Operators
  THEN Reading(Compare(words[1].of, words[2].of, At(words, 3)), After(words, 3))
  ELSE Wrong

\* or binds less than and, and less than not.
Both(operator, first, others) == Reading(Node(operator, <<first.tree, others.tree>>), others.rest)
Follows(reading, operator) == Is(At(reading.rest, 1), <<operator>>)
Negated(reading) == Reading(Negation(reading.tree), reading.rest)
Quantifier(words, body) ==
  Closed(body, Quantified(Collection(words[1].of), Last(words[1].of), words[3].of, body.tree))
Parenthesised(inner) == Closed(inner, inner.tree)

RECURSIVE ReadOr(_), ReadAnd(_), ReadTerm(_)
OrMore(first) ==
  IF Follows(first, "or") THEN Both("or", first, ReadOr(After(first.rest, 1))) ELSE first
ReadOr(words) == OrMore(ReadAnd(words))
AndMore(first) ==
  IF Follows(first, "and") THEN Both("and", first, ReadAnd(After(first.rest, 1))) ELSE first
ReadAnd(words) == AndMore(ReadTerm(words))
ReadTerm(words) ==
  IF Is(At(words, 1), <<"not">>) THEN Negated(ReadTerm(After(words, 1)))
  ELSE IF Is(At(words, 1), Open) THEN Parenthesised(ReadOr(After(words, 1)))
  ELSE IF IsLambda(At(words, 1).of) /\ Is(At(words, 2), Open) /\ Is(At(words, 4), Colon)
  THEN Quantifier(words, ReadOr(After(words, 4)))
  ELSE ReadPlain(words)

\* The condition that a text is.
Whole(reading) == IF reading.rest = << >> THEN reading.tree ELSE SyntaxError
ReadFilter(text) == Whole(ReadOr(Words(text)))

\* Does a disjunction stand in it that no parentheses enclose?
Exposed(text) == ReadAnd(Words(text)).rest # << >>

\* The properties of the resource that a condition is about.
RECURSIVE FieldsRead(_)
FieldsRead(tree) ==
  IF tree.is \in {"and", "or", "not"} THEN UNION {FieldsRead(tree.of[i]) : i \in DOMAIN tree.of}
  ELSE IF tree.is = "error" THEN {} ELSE {tree.field}

\* The condition that a tree is once the texts in it are read, and whether one of
\* them, a disjunction, stands in a conjunction without parentheses.
RECURSIVE Meaning(_), Loose(_)
Meaning(tree) ==
  IF tree.is = "raw" THEN ReadFilter(tree.of)
  ELSE IF tree.is \in {"and", "or"} THEN Node(tree.is, [i \in DOMAIN tree.of |-> Meaning(tree.of[i])])
  ELSE IF tree.is \in {"not", "lambda"} THEN [tree EXCEPT !.of = <<Meaning(@[1])>>]
  ELSE tree
Loose(tree) ==
  /\ tree.is \in {"and", "or", "not", "lambda"}
  /\ \E i \in DOMAIN tree.of :
       \/ Loose(tree.of[i])
       \/ tree.is = "and" /\ tree.of[i].is = "raw" /\ Exposed(tree.of[i].of)

-----------------------------------------------------------------------------
\* "A value containing an apostrophe [...] would otherwise terminate the OData
\* string literal early and change the meaning of the query" (filter.go:9): the
\* service reads the text as the condition that was built, whatever was put into
\* whatever, unless a raw disjunction is an operand of an And, which sets no
\* parentheses around it; the one of Params.Filter is safe.
KeepsMeaning(e) == Loose(e.tree) \/ ReadFilter(e.text) = Meaning(e.tree)

\* "Callers use it to decide whether a service will accept a filter [...] a filter
\* containing one cannot be fully analyzed; ContainsRaw reports that case"
\* (filter.go:246): where ContainsRaw says no, the properties that FieldsOf names
\* are those that the service reads.
AnalysedFully(e) == ~e.raw => FieldsRead(ReadFilter(e.text)) = e.fields
=============================================================================
