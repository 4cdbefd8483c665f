------------------------------ MODULE MCFilter ------------------------------
(* Filters of every constructor, to a depth of three, over values with        *)
(* apostrophes, parentheses and words of the language in them.                *)
EXTENDS Filter, FilterReading, FilterScan

W(word) == <<word>>
Subject == W("subject")
IsRead == W("isRead")
From == <<"from", "emailAddress", "address">>
Recipients == W("toRecipients")
OBrien == Text(<<W("O"), Quote, W("Brien")>>)
Sentence == Text(<<W("Smith"), Space, Open, W("and"), Space, From>>)

Atoms == {
  Comparison(IsRead, "eq", Plain("1")), Comparison(Subject, "ne", OBrien),
  Comparison(W("received"), "ge", Plain("2026-01-02T03:04:05Z")),
  Function("contains", Subject, Sentence),
  In(From, <<Text(<<W("a")>>), OBrien, Text(<< >>)>>)}

Bound == {
  Comparison(<<"r", "address">>, "eq", OBrien),
  Combine("or", <<Comparison(<<"r", "address">>, "eq", Text(<<W("a")>>)),
                  Comparison(<<"r", "name">>, "eq", Null)>>),
  Raw(<<W("contains"), Open, <<"r", "address">>, Comma, Quote, W("a"), Quote, Close, Space,
        W("and"), Space, <<"r", "name">>, Space, W("eq"), Space, W("null")>>)}

Lambdas ==
  {Lambda(Recipients, "any", W("r"), predicate) : predicate \in Bound}
  \cup {Lambda(<<"a", "attendees">>, "all", W("r"), predicate) : predicate \in Bound}

Raws == {
  Raw(<<W("flag"), Space, W("eq"), Space, W("1"), Space, W("or"), Space,
        W("size"), Space, W("gt"), Space, W("2")>>),
  Raw(<<W("flag"), Space, W("eq"), Space, W("1"), Space, W("and"), Space,
        W("size"), Space, W("gt"), Space, W("2")>>)}

Unbalanced ==
  Raw(<<W("flag"), Close, Space, W("or"), Space, <<"a", "any">>, Open, W("r"), Colon, Open,
        <<"r", "name">>, Close, Space, <<"r", "address">>, Close>>)

Nested ==
  LET inner == Lambda(<<"r", "tags">>, "any", W("t"), Comparison(W("t"), "eq", OBrien))
  IN {Lambda(Recipients, "any", W("r"), Combine(operator, <<inner, predicate>>)) :
        operator \in {"and", "or"}, predicate \in Bound}

Simple == Atoms \cup Lambdas \cup Raws \cup Nested
Pairs(left, right) == {Combine(operator, <<p, q>>) : operator \in {"and", "or"}, p \in left, q \in right}
Shallow == Simple \cup {Nil, In(From, << >>)} \cup {Not(e) : e \in Simple}
Deep == Pairs(Shallow, Simple)
Core == {
  Comparison(Subject, "ne", OBrien), Raw(<<W("flag"), Space, W("eq"), Space, W("1"), Space,
    W("or"), Space, W("size"), Space, W("gt"), Space, W("2")>>),
  Lambda(Recipients, "any", W("r"), Comparison(<<"r", "address">>, "eq", OBrien))}
CorePairs == Pairs(Core, Core)

Built ==
  Shallow \cup Deep \cup {Not(e) : e \in CorePairs}
  \cup Pairs(CorePairs, Core) \cup Pairs(Core, CorePairs)
  \cup {Combine("and", <<p, q, r>>) : p, q, r \in Core}
  \cup {FilterValue(where, narrowed) : where \in Simple \cup {Nil}, narrowed \in Raws \cup {Nil}}

MCFilters == (Built \ {Nil}) \cup {Unbalanced}

\* KeepsMeaning and AnalysedFully (FilterReading.tla), of the filter that is about to be
\* scanned: the service reads in the text what was built, and the analysis of the
\* tree names what the text leaves to the service (filter.go:9, filter.go:246).
MeaningKept == cursor = 1 => KeepsMeaning(filter) /\ AnalysedFully(filter)
=============================================================================
