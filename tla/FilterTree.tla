----------------------------- MODULE FilterTree ------------------------------
(***************************************************************************)
(* The conditions that filters state, as trees: what an expression of      *)
(* src/filter.go is built to be, and what the service reads in its text.   *)
(***************************************************************************)
EXTENDS FilterFields, SequencesExt

\* A literal is the value between its quotes.
Literal(value) == [is |-> "literal", of |-> value]
Word(t) == [is |-> "word", of |-> t]

\* Conjunctions and disjunctions are flat: grouping operands that one
\* operator joins means nothing.
Node(operator, trees) ==
  [is |-> operator,
   of |-> FlattenSeq([i \in DOMAIN trees |->
            IF trees[i].is = operator THEN trees[i].of ELSE <<trees[i]>>])]
Compare(field, operator, literal) ==
  [is |-> "compare", field |-> field, operator |-> operator, literal |-> literal]
OneOf(field, literals) == [is |-> "in", field |-> field, literals |-> literals]
Call(function, field, literal) ==
  [is |-> "call", function |-> function, field |-> field, literal |-> literal]
Negation(tree) == [is |-> "not", of |-> <<tree>>]
Quantified(collection, operator, variable, tree) ==
  [is |-> "lambda", field |-> collection, operator |-> operator, variable |-> variable, of |-> <<tree>>]
SyntaxError == [is |-> "error"]

\* A text of the caller's, to be read by the service alone.
Unread(text) == [is |-> "raw", of |-> text]
=============================================================================
