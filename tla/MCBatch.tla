------------------------------ MODULE MCBatch ------------------------------
(***************************************************************************)
(* Two operations that Batch takes, one of the base path itself, and three *)
(* that it refuses, one of them relative; three calls, one of a client     *)
(* with unsafe retries.                                                    *)
(***************************************************************************)
EXTENDS Batch, TLC

Home(path) ==
  [given |-> TRUE, absolute |-> TRUE, home |-> TRUE, odd |-> FALSE, path |-> path, query |-> FALSE]

Op(url) == [id |-> TRUE, method |-> TRUE, url |-> url]

MCBasePath == <<"v1.0">>
MCOperations == {
  Op(Home(<<"v1.0", "me", "messages">>)),
  Op(Home(<<"v1.0">>)),
  Op([Home(<<"me", "events">>) EXCEPT !.absolute = FALSE, !.odd = TRUE]),
  Op([Home(<<"v1.0", "me">>) EXCEPT !.home = FALSE]),
  [Op(Home(<< >>)) EXCEPT !.method = FALSE]}
Symmetry == Permutations(Calls \ UnsafeCalls)
=============================================================================
