------------------------------ MODULE MCPaging ------------------------------
(* Paging over collections of every shape: chains of one, three and four    *)
(* pages, empty pages, a deltaLink that comes early, links that lead back.  *)
EXTENDS Paging

MCLinks == {"path", "a", "b", "c"}
MCItems == 1 .. 4
MCDeltaLinks == {"early", "final"}

Pg(value, after) == [value |-> value, next |-> after, delta |-> None]
Last(value) == [value |-> value, next |-> None, delta |-> "final"]

Collection(path, a, b, c) ==
  [l \in MCLinks |-> CASE l = "path" -> path [] l = "a" -> a [] l = "b" -> b [] OTHER -> c]

MCSites ==
  {Collection(Last(<< >>), Last(<< >>), Last(<< >>), Last(<< >>)),
   Collection(Pg(<<1, 2>>, "a"), Pg(<< >>, "b"), Last(<<3>>), Last(<< >>)),
   Collection(Pg(<< >>, "a"), Pg(<<1>>, "b"), Pg(<<2>>, "c"), Last(<<3, 4>>)),
   Collection([Pg(<<1>>, "a") EXCEPT !.delta = "early"], Pg(<<2>>, "b"), Last(<< >>), Last(<< >>)),
   Collection(Pg(<<1>>, "path"), Last(<< >>), Last(<< >>), Last(<< >>)),
   Collection(Pg(<<1>>, "a"), Pg(<<1>>, "a"), Last(<< >>), Last(<< >>)),
   Collection(Pg(<<1>>, "a"), Pg(<<2>>, "b"), Pg(<<3>>, "a"), Last(<< >>))}

AllConsumers == {"pages", "items", "collect", "first", "delta"}
=============================================================================
